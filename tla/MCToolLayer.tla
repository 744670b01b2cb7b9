------------------------------ MODULE MCToolLayer ------------------------------
(* Two requests for four pairs of tools, a handler of all events and one   *)
(* whose subscriptions change, on a bus that remembers two events.         *)
EXTENDS ToolLayer, TLC

CONSTANTS r1, r2, h1, h2

TwoRequests == {r1, r2}
TwoHandlers == {h1, h2}
OneLoyal == {h1}
SomeNames ==
  {r1 :> "git" @@ r2 :> "git", r1 :> "git" @@ r2 :> "http",
   r1 :> "sf" @@ r2 :> "fs", r1 :> "http" @@ r2 :> "fs"}
FirstSubscriptions ==
  "*" :> <<h1, h2>> @@ "tool.requested" :> <<h2>> @@ "tool.responded" :> <<>>
=============================================================================
