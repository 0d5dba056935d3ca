------------------------------ MODULE ToolPolicy ------------------------------
(***************************************************************************)
(* What a policy decides of a request to run a tool: policy.Static.        *)
(* A request is [tool, risk, op, paths, command, dryRun]; paths is the set *)
(* of the paths it names, each the clean one, command tells whether its    *)
(* command line is one of those that verify ("go test", "git diff"...).    *)
(***************************************************************************)
CONSTANT HighRisk  \* the paths highRiskFileNames and isHighRiskPath name

Risks     == {"read", "write", "exec", "net", "delete"}
Decisions == {"allow", "ask", "deny"}

ReadTools  == {"ask_user", "list_files", "read_file", "search_text",
               "get_workspace_summary", "git_status", "git_diff"}
WriteTools == {"write_file", "apply_patch"}

(* What a mode may be called; another name stands for the read mode *)
ParseMode(value) ==
  CASE value \in {"validate", "validation", "verify", "verification"} -> "validate"
    [] value \in {"modify", "write", "edit"}                          -> "modify"
    [] OTHER                                                          -> "read"

InferRisk(req) ==
  CASE req.tool \in ReadTools                   -> "read"
    [] req.tool \in WriteTools                  -> "write"
    [] req.tool \in {"run_command", "run_tests"} -> "exec"
    [] req.tool = "network"                     -> "net"
    [] req.tool = "delete"                      -> "delete"
    [] OTHER -> IF req.op \in Risks THEN req.op ELSE IF req.op = "network" THEN "net" ELSE ""

RiskOf(req) == IF req.risk = "" THEN InferRisk(req) ELSE req.risk

IsReadAllowed(req)        == RiskOf(req) = "read" /\ req.tool \in ReadTools
IsDryRunWriteAllowed(req) == req.dryRun /\ req.tool \in WriteTools
IsHighRiskWrite(req)      == req.paths \cap HighRisk # {} \/ req.op = "high-risk write"

CheckReadOnly(req) ==
  IF IsReadAllowed(req) \/ IsDryRunWriteAllowed(req) THEN "allow" ELSE "deny"

CheckValidate(req) ==
  IF \/ IsReadAllowed(req)
     \/ IsDryRunWriteAllowed(req)
     \/ RiskOf(req) = "exec" /\ req.command
  THEN "allow" ELSE "deny"

SlipCheckModify(req) ==
  IF IsReadAllowed(req) \/ IsDryRunWriteAllowed(req) THEN "allow"
  ELSE IF RiskOf(req) = "net" THEN "ask"
  ELSE IF req.tool \in WriteTools THEN IF IsHighRiskWrite(req) THEN "ask" ELSE "allow"
  ELSE "deny"
CheckModify(req) ==
  IF IsReadAllowed(req) \/ IsDryRunWriteAllowed(req) THEN "allow"
  ELSE IF RiskOf(req) \in {"delete", "net"} THEN "ask"
  ELSE CASE req.tool \in WriteTools /\ RiskOf(req) = "write" ->
              IF IsHighRiskWrite(req) THEN "ask" ELSE "allow"
         [] req.tool = "run_tests" -> "allow"
         [] req.tool = "run_command" /\ RiskOf(req) = "exec" ->
              IF req.command THEN "allow" ELSE "ask"
         [] OTHER -> "deny"

Check(mode, req) ==
  CASE ParseMode(mode) = "read"     -> CheckReadOnly(req)
    [] ParseMode(mode) = "validate" -> CheckValidate(req)
    [] ParseMode(mode) = "modify"   -> CheckModify(req)
=============================================================================
