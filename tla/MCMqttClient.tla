---------------------------- MODULE MCMqttClient ----------------------------
(* Instances of MqttClient for TLC. *)
EXTENDS MqttClient, TLC

CONSTANTS t1, t2, ta, tb, tc

\* t1 waits for two topics on one queue, as the default task does.
WantsApp == (t1 :> {ta, tb}) @@ (t2 :> {tc})
\* The two tasks have one topic each.
WantsOne == (t1 :> {ta}) @@ (t2 :> {tb})
\* The first task may use either topic, the second one only its own.
WantsMix == (t1 :> {ta, tb}) @@ (t2 :> {tb})

BlockSymmetry == Permutations(Blocks)
=============================================================================
