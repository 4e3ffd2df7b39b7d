------------------------------ MODULE MCIntake ------------------------------
(***************************************************************************)
(* Instance of Intake: templates for each way a translation can be refused *)
(* or change what it copies, and annotations for each way a spec can.      *)
(***************************************************************************)
EXTENDS Intake

web == [number |-> 8080, name |-> "http", protocol |-> "TCP", host |-> FALSE]
dns == [number |-> 53, name |-> "dns", protocol |-> "UDP", host |-> FALSE]

app == [name |-> "app", ports |-> <<web, dns>>,
        env |-> {[name |-> "A", from |-> "value"], [name |-> "IP", from |-> "fieldRef"]},
        mounts |-> {"tmp"}]
sidecar == [name |-> "sidecar", ports |-> <<>>, env |-> {}, mounts |-> {}]

scratch == [name |-> "tmp", source |-> "emptyDir"]
disk == [name |-> "data", source |-> "pvc"]
info == [name |-> "info", source |-> "downwardAPI"]

one == [host |-> FALSE, containers |-> <<app>>, volumes |-> {scratch, disk, info}]

MCTemplates ==
  {one,                                                       \* adoptable
   [one EXCEPT !.containers = <<sidecar, [app EXCEPT !.ports = <<[web EXCEPT !.protocol = "empty", !.number = 80]>>]>>],
   [one EXCEPT !.containers = <<[app EXCEPT !.ports = <<dns, web>>]>>],
   [one EXCEPT !.containers = <<[app EXCEPT !.mounts = {"data"}]>>],
   [one EXCEPT !.containers[1].ports[1].host = TRUE]}

none == [k \in {} |-> "empty"]

\* The first leaves both objects of the spec out, the second sets a field of
\* each, the third sets autoscaling without min-scale and a knob to 0, and
\* chooses a container and a mode; the webhook rejects the fourth and the schema
\* the fifth.
MCAnnotations ==
  {none,
   [k \in {"min-scale", "scaledown-timeout-seconds"} |-> IF k = "min-scale" THEN "two" ELSE "one"],
   [k \in {"primary-container", "max-scale", "target-concurrency",
           "mode", "eventing-broker", "scaledown-interval-seconds"} |->
      CASE k = "primary-container" -> "app"
        [] k = "mode" -> "eventing" [] k = "eventing-broker" -> "default"
        [] k = "scaledown-interval-seconds" -> "zero" [] OTHER -> "two"],
   [k \in {"mode"} |-> "eventing"],
   [k \in {"scaledown-port", "max-scale"} |-> IF k = "max-scale" THEN "many" ELSE "large"]}

\* At first the Deployment can be adopted, with a field of each object set:
\* edits may take that away and give it back.
MCInit == Init /\ dep.template = one /\ "min-scale" \in DOMAIN dep.ann /\ ~hpa

MCSpec == MCInit /\ [][Next]_vars /\ Fairness

\* Refuted: Translate is documented to return a Service "ready for server-side
\* apply" or an error (internal/translator/translator.go:50); the mount of a
\* volume it dropped stays.
TranslationReady == pc = "patchStatus" /\ ~mem.refused /\ Translate(seen.dep.template, mem.spec) # None
                      => MountsDeclared(Translate(seen.dep.template, mem.spec))

\* Refuted: the webhook's comment has the schema default "Autoscaling.MinScale → 0,
\* and the ScaleDownProbe knobs" (knativeadoption_webhook.go:98); without an
\* annotation for them the objects they are in are not there.
KnobsDefaulted ==
  cr # None => cr.spec.pointers["min-scale"] # None /\ \A k \in Plain : cr.spec.plain[k] # 0

\* Refuted: the volumes kept are to be configMap, secret, emptyDir, projected and
\* persistentVolumeClaim (docs/knative-autopilot-design.md:226); the translator
\* keeps downwardAPI too, and drops persistentVolumeClaim.
VolumesAsDesigned ==
  ksvc # None =>
    \A v \in ksvc.volumes : v.source \in {"configMap", "secret", "emptyDir", "projected", "pvc"}
=============================================================================
