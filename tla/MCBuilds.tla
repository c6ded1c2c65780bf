------------------------------ MODULE MCBuilds ------------------------------
(* Two builds of one image, for TLC: the second may replace what is there. *)
(* The run begins with both, and a token that lasts; or with one build and *)
(* tokens that age; or with one build and a crash.                         *)
EXTENDS BuildProperties

MCBuildSet == {"b1", "b2"}
MCNameOf == [b \in MCBuildSet |-> "vllm.sif"]
MCCallers == {<<"start", "b1">>, <<"start", "b2">>, <<"cancel", "b1">>, <<"poll", NoBuild>>}

OneBuild == start["b1"] = "idle" /\ start["b2"] # "idle"
TokenLasts == issued = MaxTokens
NoCrash == crashes = MaxCrashes
Scenario ==
  \/ (\A b \in Builds : start[b] = "idle") /\ TokenLasts /\ NoCrash
  \/ OneBuild /\ issued = 0 /\ NoCrash
  \/ OneBuild /\ TokenLasts /\ crashes = 0
MCInit == Init /\ Scenario
MCSpec == MCInit /\ [][Next]_vars /\ Fairness
=============================================================================
