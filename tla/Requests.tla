-------------------------------- MODULE Requests --------------------------------
(***************************************************************************)
(* What the tools of one Location ask of people: permissions and forms     *)
(* together, as the question tool uses them (tool/plugin/question.ts: a    *)
(* permission, then a form) and as the Location's shutdown closes them     *)
(* (location-lifecycle.ts: permissions, then forms, then by the scope      *)
(* what a failure left).                                                   *)
(***************************************************************************)
EXTENDS Permission, Form

(* One set of tool calls, and bound: one of people's calls under way.      *)
ASSUME RequestsAssumption == Calls = Askers /\ Users = Replies

requestsVars == <<permissionVars, formVars>>

RequestsInit == PermissionInit /\ FormInit

PermissionPart ==
  /\ PermissionNext
  /\ \A u \in Users : hand[u].at # "free" => UNCHANGED reply[u]
  /\ UNCHANGED formVars

(* The question tool goes on to ask once it is permitted. *)
Question(c) == asker[c].result = "permitted" /\ Ask(c)

UserPart(u) ==
  /\ reply[u].at \in {"idle", "done"}
  /\ HandStep(u) \/ \E c \in Calls, kind \in FormEnds : UserTakes(u, c, kind)

ShutdownForms == closer.at \in {"closed", "failed"} /\ FormsClose

FormPart ==
  /\ \/ \E c \in Calls : Question(c) \/ CallStep(c) \/ HandStep(c)
     \/ \E u \in Users : UserPart(u)
     \/ ShutdownForms \/ FormsCloseStep \/ HandStep("shutdown")
  /\ UNCHANGED permissionVars

RequestsNext == PermissionPart \/ FormPart
RequestsSpec == RequestsInit /\ [][RequestsNext]_requestsVars
===============================================================================
