--------------------------- MODULE MCRecordService ---------------------------
(* Small worlds for RecordService: what phones upload, what the rater makes  *)
(* of a race, what the provider publishes and the exchange settles.          *)
EXTENDS RecordClaims, TLC

CONSTANTS r1, r2, h1, h2, h3, p1, p2, phone

Symmetry == Permutations(Worker)

EarlyOrLateOff == {1, 2}
KnownOff == {2}
EarlyOff == {1}
MissingOff == {NoTime, 2}

(* The rater *)

OnForm == [pick |-> h1, favourite |-> NoHorse, runners |-> {}]
OnPrices == [pick |-> h1, favourite |-> h2, runners |-> {h1, h2}]
OtherPick == [pick |-> h2, favourite |-> h2, runners |-> {h1, h2}]
NoPick == [pick |-> NoHorse, favourite |-> NoHorse, runners |-> {}]

FormOrPrices == {OnForm, OnPrices}
PickedOnForm == {OnForm}
PickedOnPrices == {OnPrices, NoPick}
TwoPicks == {OnPrices, OtherPick, NoPick}
AnyRating == {OnForm} \cup TwoPicks

(* The provider and the exchange *)

Published(finishers, winners, sps) ==
  [finishers |-> finishers, winners |-> winners, sp |-> sps]

Full == Published({h1, h2, h3}, {h1}, NoPrices)
Short == Published({h2}, {h2}, NoPrices)
Withdrawn == Published({h2, h3}, {h3}, NoPrices)
Returned == Published({h1, h2, h3}, {h1}, [NoPrices EXCEPT ![h2] = p2])

FullResults == [r \in Race |-> {Full}]
FullOrShort == [r \in Race |-> {Full, Short}]
FullOrReturned == [r \in Race |-> {Returned, Short}]

OnePriceList == {[NoPrices EXCEPT ![h1] = p1]}
PricesInParts == {[NoPrices EXCEPT ![h1] = p1], [NoPrices EXCEPT ![h2] = p1]}
PricesThatDiffer == {[NoPrices EXCEPT ![h1] = p1], [NoPrices EXCEPT ![h1] = p2]}
NoPriceLists == {}

(* The phones.  A tip sealed on the phone, before and after the phone learns *)
(* the result, and an earlier draft of the same race that was never sealed.  *)

Tipped(off, createdAt, sealedAt) ==
  [source |-> phone, off |-> off, pick |-> h1, favourite |-> NoHorse,
   reference |-> FALSE, book |-> NoTime, createdAt |-> createdAt,
   sealedAt |-> sealedAt, outcome |-> Pending,
   favouriteOutcome |-> NoFavouriteOutcome]

Uploaded(tip, ids, sample) ==
  [device |-> phone, tips |-> [r \in Race |-> tip], archive |-> ids,
   samples |-> [r \in Race |-> sample]]

PhoneSealed == Tipped(2, 0, 1)
PhoneWon == [PhoneSealed EXCEPT !.outcome = Ran("won", NoPrice)]
PhoneDraft == Tipped(2, 0, NoTime)
PhoneSample == [kept |-> TRUE, source |-> phone, at |-> 0,
                runners |-> {h1, h2}, winner |-> NoHorse]

NoUploads == {}
SealedUploads == {Uploaded(PhoneSealed, Race, PhoneSample),
                  Uploaded(PhoneWon, {}, NoSample),
                  Uploaded(PhoneDraft, {}, NoSample)}
ArchiveUploads == {Uploaded(NoTip, Race, NoSample)}
OneRaceUploads == {Uploaded(NoTip, {r1}, NoSample)}
=============================================================================
