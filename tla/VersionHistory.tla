---- MODULE VersionHistory ----
(***************************************************************************)
(* What the store of prompts promises its callers, whatever statements run *)
(* side by side: each prompt has a list of contents, at whose end a        *)
(* creation puts its own at once; what is listed never changes; a caller   *)
(* is told the place of its own content and no other.  PromptVersions      *)
(* implements this specification.                                          *)
(***************************************************************************)
EXTENDS Sequences

CONSTANTS
    Requests,    \* callers; a content is named by the one it came from
    Prompts

VARIABLES
    history,     \* the contents of each prompt, by version
    told         \* the answers that arrived

vars == <<history, told>>

Init == history = [p \in Prompts |-> <<>>] /\ told = {}

Create(c, p) ==
    /\ history' = [history EXCEPT ![p] = Append(@, c)]
    /\ UNCHANGED told

Tell(c, p, n) ==
    /\ history[p][n] = c
    /\ told' = told \cup {[by |-> c, prompt |-> p, version |-> n]}
    /\ UNCHANGED history

Next ==
    \E c \in Requests, p \in Prompts :
       Create(c, p) \/ \E n \in DOMAIN history[p] : Tell(c, p, n)

Spec == Init /\ [][Next]_vars
====
