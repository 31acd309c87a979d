------------------------------- MODULE Ratings -------------------------------
(***************************************************************************)
(* RatingsService: customer and provider rate each other once per finished *)
(* booking; what each has got is averaged and written to his row.          *)
(***************************************************************************)
EXTENDS Naturals, FiniteSetsExt, Handlers

CONSTANTS
  Finished,   \* bookings COMPLETED or PAID between one customer and one provider
  Scores      \* the scores in use

ASSUME RatingsAssumption == Scores \subseteq 1..5 /\ IsFiniteSet(Finished)

Directions == {"USER_TO_PROVIDER", "PROVIDER_TO_USER"}

VARIABLES
  ratings,    \* the rows Rating: the score by booking and direction, 0 for none
  profile     \* avgRating and totalRatings of the rated, as a sum and a count

ratingVars == <<ratings, profile>>

RatingsInit ==
  /\ ratings = [p \in Finished \X Directions |-> 0]
  /\ profile = [d \in Directions |-> [sum |-> 0, count |-> 0]]

RatedIn(D) == {p \in Finished \X D : ratings[p] # 0}

(* prisma.rating.aggregate over the ratings of some directions.            *)
Aggregate(D) ==
  [sum   |-> MapThenSumSet(LAMBDA p : ratings[p], RatedIn(D)),
   count |-> Cardinality(RatedIn(D))]

-----------------------------------------------------------------------------
Rate(r, b, d, score) ==
  /\ ratings[<<b, d>>] = 0
  /\ Begin(r, "rating.create", <<b, d>>, score, None)
  /\ UNCHANGED ratingVars

CreateRating(r) ==
  /\ req[r].at = "rating.create" /\ ratings[req[r].on] = 0
  /\ ratings' = [ratings EXCEPT ![req[r].on] = req[r].by]
  /\ Goto(r, "rating.aggregate")
  /\ UNCHANGED profile

ReadAggregate_Both_Mutant(r) ==
  /\ req[r].at = "rating.aggregate"
  /\ Carry(r, "rating.write", Aggregate(Directions))
  /\ UNCHANGED ratingVars

ReadAggregate(r) ==
  /\ req[r].at = "rating.aggregate"
  /\ Carry(r, "rating.write", Aggregate({req[r].on[2]}))
  /\ UNCHANGED ratingVars

WriteAggregate(r) ==
  /\ req[r].at = "rating.write"
  /\ profile' = [profile EXCEPT ![req[r].on[2]] = req[r].saw]
  /\ End(r)
  /\ UNCHANGED ratings

(* A rating there by now is refused: @@unique([bookingId, ratingFrom]).    *)
StopRating(r) ==
  /\ \/ req[r].at = "rating.create" /\ ratings[req[r].on] # 0 /\ End(r)
     \/ Die(r)
  /\ UNCHANGED ratingVars

RatingsNext ==
  \E r \in Requests :
    \/ \E b \in Finished, d \in Directions, score \in Scores : Rate(r, b, d, score)
    \/ CreateRating(r) \/ ReadAggregate(r) \/ WriteAggregate(r) \/ StopRating(r)

RatingsSpec == RatingsInit /\ FlightInit /\ [][RatingsNext]_<<ratingVars, flight>>

-----------------------------------------------------------------------------
RatingsTypeOK ==
  /\ ratings \in [Finished \X Directions -> Scores \cup {0}]
  /\ profile \in [Directions -> [sum : Nat, count : Nat]]

(* Between requests, one at a time and none of them dead, what a profile   *)
(* shows is the average of the ratings it got, and of no others.  However  *)
(* they overlap or die, it never counts more than there are.               *)
AggregateAgrees ==
  /\ Orderly /\ AtRest => \A d \in Directions : profile[d] = Aggregate({d})
  /\ \A d \in Directions : profile[d].count <= Aggregate({d}).count
=============================================================================
