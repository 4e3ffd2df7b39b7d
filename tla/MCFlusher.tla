------------------------------ MODULE MCFlusher ------------------------------
(* Instances of Flusher for TLC, and what the repository says of it that does *)
(* not hold.                                                               *)
EXTENDS FlusherRefinement

\* Calls and KSvcs are numbers here.  The calls are interchangeable and so are
\* the two KSvcs, so one representative of each class of initial states will
\* do: the decisions in ascending order, most of them for the KSvc 1.  Either
\* all are for one KSvc, or a fast one for the KSvc 1 drains the lane in which
\* slow ones for either may be waiting.  Three fast ones behave as a slow one
\* that was flushed and two fast ones do.
Rank(d) == 2 * d.key[2] + d.min

Representative ==
  /\ \E c \in Calls : dec[c].min = 0
  /\ \A c, d \in Calls : c < d => Rank(dec[c]) <= Rank(dec[d])
  /\ Cardinality({c \in Calls : dec[c].key[2] = 2}) <= 1
  /\ \A c \in Calls : dec[c].key[2] = 2 =>
       dec[c].min = 0 /\ Cardinality({d \in Calls : dec[d].min = 1}) = 1

MCInit == Init /\ Representative

MCSpec == MCInit /\ [][Next]_vars /\ Fairness

\* What decision.go says of two decisions for one KSvc: "the latest one wins".
\* A write that changes the min-scale of a KSvc never comes from an older
\* decision than the one whose value it overwrites.
LatestWins ==
  [][\A k \in Key :
       /\ landed'[k] # landed[k]
       /\ landed[k] # None
       /\ dec[landed'[k]].min # dec[landed[k]].min
       => ticket[landed'[k]] > ticket[landed[k]]]_vars

\* What the comment of Manager says of Stop: "no Patcher invocations after Stop
\* returns".
NoPatchAfterStop ==
  stop = "returned" => \A c \in Calls : ~Invoking(c)

\* What decision.go says of the FailureSink: "dispatched serially per
\* (namespace, ksvc)".
SinkSerialPerKey ==
  \A c, d \in Calls :
    worker[c] = "escalating" /\ worker[d] = "escalating" /\
    dec[c].key = dec[d].key => c = d
=============================================================================
