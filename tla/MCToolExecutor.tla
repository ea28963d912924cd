--------------------------- MODULE MCToolExecutor ---------------------------
(* Instances of ToolExecutor for TLC: one path, the tools that differ on it. *)
EXTENDS ToolExecutor

Declares(batch, reads, writes) ==
  [batch |-> batch, safe |-> FALSE, repeatable |-> FALSE, known |-> TRUE,
   reads |-> reads, writes |-> writes, requires |-> {}]

\* read, write and shell as declared; mcp a read that declares nothing, as every
\* provider tool; index one that declares a path it writes; agent a system call
\* that is safe and widget one that is not; after requires write; gone is unknown.
MCDecl ==
  [read |-> [Declares("read", {"p"}, {}) EXCEPT !.repeatable = TRUE],
   write |-> Declares("write", {}, {"p"}),
   shell |-> Declares("system", {Unknown}, {Unknown}),
   index |-> Declares("read", {}, {"p"}),
   mcp |-> [Declares("read", {}, {}) EXCEPT !.repeatable = TRUE],
   agent |-> [Declares("system", {}, {}) EXCEPT !.safe = TRUE],
   widget |-> Declares("system", {}, {}),
   after |-> [Declares("read", {}, {}) EXCEPT !.requires = {"write"}],
   gone |-> [Declares("system", {}, {}) EXCEPT !.known = FALSE]]

MCTool == DOMAIN MCDecl
MCAsks ==
  {<<"read", "index", "read">>, <<"write", "after", "after">>, <<"widget", "mcp", "read">>,
   <<"agent", "widget", "agent">>, <<"gone", "after", "shell">>}
=============================================================================
