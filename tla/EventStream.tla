---------------------------- MODULE EventStream ----------------------------
(***************************************************************************)
(* What the consumer of an assistant stream may rely on: the protocol of   *)
(* AssistantMessageEvent (src/types.ts) as streamCommandCode keeps it.     *)
(* Retries, continuations, timeouts and cancellation are invisible here.   *)
(*                                                                         *)
(* A stream starts, opens and closes content blocks, and ends once.  Blocks*)
(* are never taken back, and a text or thinking block is open only while it*)
(* is the last one; the inputs of several tool calls may stream together.  *)
(***************************************************************************)
EXTENDS Naturals, Sequences

VARIABLES
    phase,    \* "new", "streaming", or the terminal event: "done", "error", "aborted"
    blocks    \* the content blocks, each open or closed

Kinds == {"text", "thinking", "toolCall"}
Block == [kind : Kinds, open : BOOLEAN]

Init == phase = "new" /\ blocks = <<>>

\* Nothing but the last block, and the inputs of tool calls, is open.
Tidy(bs) == \A i \in 1..Len(bs) : bs[i].open => i = Len(bs) \/ bs[i].kind = "toolCall"

\* Blocks are appended, and closed for good.
Extends(old, new) ==
    /\ Len(old) <= Len(new)
    /\ \A i \in 1..Len(old) :
          new[i].kind = old[i].kind /\ (new[i].open => old[i].open)

Start == phase = "new" /\ phase' = "streaming" /\ UNCHANGED blocks

\* A stream that cannot begin (no key, no answer, an abort) consists of its error.
Refuse == phase = "new" /\ phase' \in {"error", "aborted"} /\ UNCHANGED blocks

Emit ==
    /\ phase = "streaming" /\ UNCHANGED phase
    /\ blocks' \in Seq(Block)
    /\ Extends(blocks, blocks') /\ Tidy(blocks')

\* A complete message has no half-written text or thinking: the last step closes it.
Done ==
    /\ phase = "streaming" /\ phase' = "done"
    /\ blocks' = [i \in 1..Len(blocks) |->
                    [blocks[i] EXCEPT !.open = @ /\ blocks[i].kind = "toolCall"]]

\* A failed one may leave blocks open.
Fail ==
    /\ phase = "streaming" /\ phase' \in {"error", "aborted"}
    /\ \E closed \in SUBSET (1..Len(blocks)) :
          blocks' = [i \in 1..Len(blocks) |->
                        [blocks[i] EXCEPT !.open = @ /\ i \notin closed]]

Next == Start \/ Refuse \/ Emit \/ Done \/ Fail

Spec == Init /\ [][Next]_<<phase, blocks>>
=============================================================================
