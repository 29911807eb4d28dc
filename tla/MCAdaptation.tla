---------------------------- MODULE MCAdaptation ----------------------------
(* The user has given outbound_tls techniques of its own, so two of the chain *)
(* belong to different profiles and the third to none.                        *)
EXTENDS Adaptation
CONSTANTS c1, c2

MCTechniques == <<"MultiSplit", "Disorder", "Unlisted">>
MCUserProfiles == << [name |-> "outbound_tls", category |-> "Tls", techniques |-> {"FakeSni"},
                      params |-> NoParams, default |-> FALSE, enabled |-> FALSE] >>
MCNoProfiles == <<>>
MCRequests == { [profile |-> "outbound_tls_hostfake", params |-> Params(2, 0, 0, 0)],
                [profile |-> "unregistered", params |-> NoParams] }
MCSymmetry == Permutations({c1, c2})
MCTargetOf == [c \in {c1, c2} |-> "target"]
=============================================================================
