------------------------------- MODULE Guard -------------------------------
(***************************************************************************)
(* The pure rules of the /scaledownz guard: what one probe answers, how the *)
(* answers of a round are voted on, how a round is folded into             *)
(* status.lastScaleDownProbe, and which min-scale follows from it.         *)
(***************************************************************************)
EXTENDS Naturals, FiniteSets

CONSTANT None  \* nil

\* What a pod sends back: a body (JSON with a verdict, JSON without one, an
\* affirmative word, other text, nothing), or no 2xx answer in time.
Reply == {"jsonTrue", "jsonFalse", "jsonOther", "affirmative", "otherText", "empty", "failed"}

parseAllowScaleDown(body) == body \in {"jsonTrue", "affirmative"}

\* The first port of the user container, unless the CR names one; 0: none.
resolveProbePort(override, podPort) == IF override > 0 THEN override ELSE podPort

\* HTTPProber.Probe: "error" is a Result with Err set.
Probe(port, reply) ==
  IF port = 0 \/ reply = "failed" THEN "error"
  ELSE IF parseAllowScaleDown(reply) THEN "allowed" ELSE "refused"

Result == {"allowed", "refused", "error"}

\* results is a function from the pods probed.
Vote(results) ==
  IF DOMAIN results = {} THEN "NoPods"
  ELSE IF \E p \in DOMAIN results : results[p] # "allowed" THEN "Block"
  ELSE "AllowZero"

HasErrors(results) == \E p \in DOMAIN results : results[p] = "error"

\* status.lastScaleDownProbe, None before the first round.
ProbeStatus == [result : {"true", "false", "unknown"}, errors : Nat]

\* Mutant of mergeProbeStatus: a round without errors leaves the counter.
mergeProbeStatusNoReset(prev, outcome, hadError) ==
  [result |-> CASE outcome = "AllowZero" -> "true"
                [] outcome = "Block" -> "false"
                [] outcome = "NoPods" -> "unknown",
   errors |-> (IF prev = None THEN 0 ELSE prev.errors) + (IF hadError THEN 1 ELSE 0)]

\* Mutant of mergeProbeStatus: the outcome is stored by its own name.
mergeProbeStatusRaw(prev, outcome, hadError) ==
  [result |-> outcome,
   errors |-> IF ~hadError THEN 0 ELSE IF prev = None THEN 1 ELSE prev.errors + 1]

mergeProbeStatus(prev, outcome, hadError) ==
  [result |-> CASE outcome = "AllowZero" -> "true"
                [] outcome = "Block" -> "false"
                [] outcome = "NoPods" -> "unknown",
   errors |-> IF ~hadError THEN 0 ELSE IF prev = None THEN 1 ELSE prev.errors + 1]

\* The pods could not be listed.
bumpProbeError(prev) ==
  [result |-> "unknown", errors |-> IF prev = None THEN 1 ELSE prev.errors + 1]

\* spec.autoscaling.minScale; None when unset.
guardEnabled(minScale) == minScale = None \/ minScale = 0

guardBlocked(probe) == probe # None /\ probe.result = "false"

\* Mutant of EffectiveMinScale: the verdict of the guard is not looked at.
EffectiveMinScaleUnguarded(minScale, probe) == IF minScale = None THEN 0 ELSE minScale

EffectiveMinScale(minScale, probe) ==
  LET base == IF minScale = None THEN 0 ELSE minScale IN
  IF base = 0 /\ guardBlocked(probe) THEN 1 ELSE base
=============================================================================
