----------------------------- MODULE ToolConfig -----------------------------
(***************************************************************************)
(* The entries of the file of tool servers and their validation            *)
(* (mcpclient/config.go).  A field is "" when it is not given, "blank"     *)
(* when it is given and trimmed to nothing, "bad" when its own check       *)
(* refuses it (a NUL byte, a key with "=", a URL with no host, an unknown  *)
(* task, a filter that does not compile, an unknown tool), else "good".    *)
(* A type is what is left of it in lower case and trimmed.                 *)
(***************************************************************************)
EXTENDS Naturals

Fields == {"id", "type", "command", "args", "env", "url", "headers", "tool", "parameters",
           "tasks", "prompt", "filter"}
Types == {"stdio", "streamable-http", "sse", "openrouter_tool"}
Values == Types \cup {"", "blank", "bad", "good"}
Kept == {"type", "tool", "filter"}
Entries == [Kept -> Values]

Blank(field) == field \in {"", "blank"}

ExclusiveFieldsOk(e) == Blank(e["tool"]) /\ e["parameters"] = ""
TransportOnlyOk(e) ==
  ExclusiveFieldsOk(e) /\ Blank(e["command"]) /\ e["args"] = "" /\ e["env"] = ""
OpenRouterOnlyOk(e) ==
  /\ Blank(e["command"]) /\ e["args"] = "" /\ Blank(e["url"]) /\ e["env"] = ""
  /\ e["headers"] = "" /\ Blank(e["filter"])

KnownTool(e) == e["tool"] = "good"
AnyTool(e) == TRUE
KnownToolOk(e) == KnownTool(e)
FilterCompiles(e) == e["filter"] # "bad"

StdioOk(e) ==
  /\ e["type"] = "stdio"
  /\ ExclusiveFieldsOk(e)
  /\ e["command"] = "good" /\ e["args"] # "bad" /\ e["env"] # "bad"
  /\ e["url"] = "" /\ e["headers"] = ""
HttpOk(e) ==
  /\ e["type"] \in {"streamable-http", "sse"}
  /\ TransportOnlyOk(e)
  /\ e["url"] = "good" /\ e["headers"] # "bad"
OpenRouterOk(e) ==
  /\ e["type"] = "openrouter_tool"
  /\ OpenRouterOnlyOk(e) /\ KnownToolOk(e) /\ e["tasks"] # ""

Validate(e) ==
  /\ e["id"] = "good"
  /\ StdioOk(e) \/ HttpOk(e) \/ OpenRouterOk(e)
  /\ e["tasks"] # "bad" /\ e["prompt"] # "bad" /\ FilterCompiles(e)

(* What a file leaves after validation, nothing if it cannot be read; of   *)
(* an entry what Connect decides by, trimmed.                              *)
Valid(file) == {s \in DOMAIN file : Validate(file[s])}
Trimmed(e) == [f \in Kept |-> IF e[f] = "blank" THEN "" ELSE e[f]]
=============================================================================
