----------------------------- MODULE MCRequests -----------------------------
(* A small instance of Requests for TLC.  In half of its behaviours two    *)
(* handlers overlap on one request; in the other half handlers that do not *)
(* overlap serve two requests, which compete for the assets.               *)
EXTENDS SerialRequests, TLC

\* Assets and handler slots are interchangeable.
Symmetry == Permutations(Assets) \cup Permutations(Calls)

\* So are the other identifiers, which are numbers here: of the equivalent
\* ways to give them out only one is followed.  The steps of the second
\* request are numbered from the last one down.
InOrder(table, blank) ==
  \A n \in DOMAIN table : table[n] # blank => \A m \in 1..n : table[m] # blank

OneNumbering ==
  /\ InOrder(request, NoRequest)
  /\ InOrder(assignment, NoAssignment)
  /\ \A s, t \in Steps :
       \/ step[s].request = 1 /\ t < s
       \/ step[s].request = 2 /\ t > s
       => step[t].request = step[s].request

\* Bounds: one request and three steps where handlers overlap, otherwise two
\* assignments.
Bounds ==
  IF overlap
  THEN request[2] = NoRequest /\ step[4] = NoStep
  ELSE assignment[3] = NoAssignment

Watched(Action) == Action /\ UNCHANGED overlap /\ Bounds' /\ OneNumbering'

MCNext ==
  \E c \in Calls :
    \/ Watched(ArriveAlone(c))
    \/ Watched(Proceed(c))
    \/ Watched(Interrupt(c))

MCSpec == SerialInit /\ [][MCNext]_serialVars

=============================================================================
