------------------------------ MODULE Commands ------------------------------
(***************************************************************************)
(* The command reader of commands.c (src/unnamed/part_003): cmd_inner's    *)
(* loop, parse with eat_whitespace and collect_args, run with the actions  *)
(* table, the four act_* hooks and parse_color.                            *)
(*                                                                         *)
(* A line is abstracted to what parse's loops tell apart: whether it has a *)
(* ':', the text before it, the first word after it, the words after that, *)
(* and whether the action word is followed by whitespace (fgets keeps the  *)
(* '\n'; the last line before EOF, or a line cut at MAX_CMD_LEN - 1 bytes, *)
(* has none).  A word is abstracted to the facts parse_color and strtol    *)
(* test.  One line is parsed and run in one step, as cmd_inner does.       *)
(*                                                                         *)
(* parse_result is a local whose argc and argv parse assigns only when the *)
(* action word is followed by whitespace; otherwise they hold what the     *)
(* stack held (undefined behaviour): the previous command's argc and argv  *)
(* or garbage.  Each argv collect_args allocates is named by the number of *)
(* the line it was parsed from, and heap says whether it is live or freed. *)
(***************************************************************************)
EXTENDS Naturals, Sequences

CONSTANTS
    Lines,         \* the lines a client may send
    MaxCmds,       \* the most lines read in one behaviour
    CircleResults, \* what ui_pane_draw_circle may return
    NULL, Garbage  \* argv values: the null pointer, an uninitialised one

\* MaxCmds is a positive natural number.

\* A word as parse_color and strtol see it: a leading '#', its length,
\* whether the rest is hex, whether it is a whole number and its value.
Words == [hash : BOOLEAN, len : Nat, hex : BOOLEAN, isNum : BOOLEAN, num : Nat]

\* A line: a ':', the target before it, the action word, the words after
\* it, whether whitespace follows the action word.
\* Lines \subseteq [colon : BOOLEAN, target : STRING, action : STRING,
\*                  args : Seq(Words), nl : BOOLEAN]

\* The null pointer, a garbage pointer and the argv allocations differ.
\* NULL and Garbage are model values, distinct from each other and from Nat.

Handles == 1..MaxCmds

\* The largest argc a hook accepts (act_rect); garbage argc is taken below it.
MaxArgc == 5

\* The UI_* codes of enum ui_failure, in order: ui_failure_strs has 4 entries.
UiFailures == <<"ok", "duplicate", "oom", "no_such_pane">>

VARIABLES
    pc,        \* the reader thread: "loop", "stopped" or "dead" (FATAL_ERR)
    cancelled, \* cmd_thread has written to the cancellation pipe
    n,         \* lines read so far
    line,      \* the last line read
    slot,      \* argc and argv as parse_result last held them
    heap,      \* heap[h]: "unused", "live" or "freed"
    mem,       \* mem[h]: the words argv h points to
    call,      \* the ui_pane_* call the last line made, or NoCall
    ub         \* the first undefined behaviour met, or "none"

vars == <<pc, cancelled, n, line, slot, heap, mem, call, ub>>

NoCall == [op |-> "none", target |-> "", nums |-> <<>>]
NoLine == [colon |-> FALSE, target |-> "", action |-> "", args |-> <<>>, nl |-> TRUE]

\* Storing a size_t into a uint16_t field of struct rect or struct circle.
U16(v) == v % 65536

\* parse_color: a '#', strlen 7, and strtol of the rest, which has no end
\* check and cannot overflow a long with six digits.
ParseColor(w) == w.hash /\ w.len = 7

\* strtol(argv[k], &end, 0) followed by *end != '\0'.
ParseNum(w) == w.isNum

\* The argc each hook requires (act_create, act_remove, act_rect, act_circle).
Arity == [CREATE |-> 1, REMOVE |-> 0, RECT |-> 5, CIRCLE |-> 4]

\* The names in the actions table.
Actions == DOMAIN Arity

\* parse reached "result.ok = true": a target before the ':' and an action.
ParseOk(l) == l.colon /\ l.target # "" /\ l.action # ""

\* action_end stopped on whitespace rather than on '\0', so argc and argv
\* were assigned.
Terminated(l) == l.args # <<>> \/ l.nl

\* The argv collect_args returns: NULL for no words (it returns the argv it
\* was given), a fresh allocation otherwise.
NewArgv(l) == IF l.args = <<>> THEN NULL ELSE n + 1

\* The undefined behaviour of reading argv[0], or "none".
ReadArgv(argv) ==
    IF argv = NULL THEN "null_deref"
    ELSE IF argv = Garbage THEN "read_garbage"
    ELSE IF heap[argv] = "freed" THEN "read_freed" ELSE "none"

\* The undefined behaviour of run's free(c->argv), or "none".
FreeArgv(argv) ==
    IF argv = NULL THEN "none"
    ELSE IF argv = Garbage THEN "invalid_free"
    ELSE IF heap[argv] = "freed" THEN "double_free" ELSE "none"

\* The hook of action a, given argc and the words argv points to: the ui
\* call it makes, or NoCall when it prints a failure and returns.
HookCall(a, target, argc, ws) ==
    IF /\ argc = Arity[a]
       /\ a # "REMOVE" => ParseColor(ws[1])
       /\ \A k \in 2..argc : ParseNum(ws[k])
    THEN [op |-> a, target |-> target,
          nums |-> [k \in 1..(argc - 1) |-> U16(ws[k + 1].num)]]
    ELSE NoCall

\* parse's result c reaches run: collect_args' allocation of the argv, run's
\* search of the actions table, the hook (with res the result of a circle
\* draw), and free(c->argv) when the action was found.
Run(l, c, res) ==
    LET fresh == Terminated(l) /\ l.args # <<>>
        allocated == IF fresh THEN [heap EXCEPT ![n + 1] = "live"] ELSE heap
        stored == IF fresh THEN [mem EXCEPT ![n + 1] = l.args] ELSE mem
        found == l.action \in Actions
        reads == found /\ l.action # "REMOVE" /\ c.argc = Arity[l.action]
        readUb == IF reads THEN ReadArgv(c.argv) ELSE "none"
        ws == IF c.argv \in Handles THEN stored[c.argv] ELSE <<>>
        made == IF found /\ readUb = "none"
                  THEN HookCall(l.action, l.target, c.argc, ws)
                  ELSE NoCall
        oobUb == IF made.op = "CIRCLE" /\ res # "ok"
                    /\ ws[4].num >= Len(UiFailures)
                   THEN "oob_read" ELSE "none"
        freeUb == IF found THEN FreeArgv(c.argv) ELSE "none"
        firstUb == IF readUb # "none" THEN readUb
                   ELSE IF oobUb # "none" THEN oobUb ELSE freeUb
    IN  /\ slot' = c
        /\ mem' = stored
        /\ heap' = IF found /\ c.argv \in Handles
                     THEN [allocated EXCEPT ![c.argv] = "freed"]
                     ELSE allocated
        /\ call' = made
        /\ ub' = IF ub = "none" THEN firstUb ELSE ub

\* A line is read and parsed: parse's early returns leave nothing to run;
\* otherwise parse_result holds argc and argv, fresh from collect_args when
\* whitespace followed the action word and stale otherwise, and is run.
Command(l) ==
    /\ pc = "loop" /\ ~cancelled /\ n < MaxCmds
    /\ n' = n + 1 /\ line' = l
    /\ IF ~ParseOk(l)
         THEN /\ call' = NoCall
              /\ UNCHANGED <<slot, heap, mem, ub>>
         ELSE \E c \in IF Terminated(l)
                         THEN {[argc |-> Len(l.args), argv |-> NewArgv(l)]}
                         ELSE {slot} \cup [argc : 0..MaxArgc, argv : {Garbage}],
                 res \in CircleResults :
                Run(l, c, res)
    /\ UNCHANGED <<pc, cancelled>>

\* fgets returns NULL (end of input or a read error): FATAL_ERR.
ReadFails ==
    /\ pc = "loop" /\ ~cancelled
    /\ pc' = "dead"
    /\ UNCHANGED <<cancelled, n, line, slot, heap, mem, call, ub>>

\* cmd_thread returns from term_block and writes to the cancellation pipe.
Terminate ==
    /\ ~cancelled
    /\ cancelled' = TRUE
    /\ UNCHANGED <<pc, n, line, slot, heap, mem, call, ub>>

\* poll reports the cancellation pipe readable: the loop breaks.
Cancel ==
    /\ pc = "loop" /\ cancelled
    /\ pc' = "stopped"
    /\ UNCHANGED <<cancelled, n, line, slot, heap, mem, call, ub>>

Init == /\ pc = "loop"
        /\ cancelled = FALSE
        /\ n = 0
        /\ line = NoLine
        /\ slot \in [argc : 0..MaxArgc, argv : {Garbage}]
        /\ heap = [h \in Handles |-> "unused"]
        /\ mem = [h \in Handles |-> <<>>]
        /\ call = NoCall
        /\ ub = "none"

\* The reader has stopped, died, or read its last line and been cancelled.
Done == pc # "loop" /\ cancelled /\ UNCHANGED vars

Next == \/ \E l \in Lines : Command(l)
        \/ ReadFails \/ Terminate \/ Cancel \/ Done

Spec == Init /\ [][Next]_vars

-----------------------------------------------------------------------------

\* Each variable holds a value of its kind.
TypeOK ==
    /\ pc \in {"loop", "stopped", "dead"}
    /\ cancelled \in BOOLEAN
    /\ n \in 0..MaxCmds
    /\ line \in Lines \cup {NoLine}
    /\ slot \in [argc : 0..MaxArgc, argv : Handles \cup {NULL, Garbage}]
    /\ heap \in [Handles -> {"unused", "live", "freed"}]
    /\ mem \in [Handles -> Seq(Words)]
    /\ ub \in {"none", "null_deref", "read_garbage", "read_freed",
               "oob_read", "invalid_free", "double_free"}

\* Section 6: colour text is '#' followed by six hex digits.
IsColourText(w) == w.hash /\ w.len = 7 /\ w.hex

\* The arguments each command takes, as its failure message lists them:
\* "CREATE requires exactly one argument", "REMOVE requires no arguments",
\* "RECT requires args color x y w h", "... args color x y r".
UsageArgs == [CREATE |-> 1, REMOVE |-> 0, RECT |-> 5, CIRCLE |-> 4]

\* The ui call the line asks for under the grammar of parse's comment,
\* "<target>: <action> <args>...", with the argument counts and kinds the
\* hooks' failure messages name, or NoCall.
Documented(l) ==
    IF /\ ParseOk(l) /\ l.action \in DOMAIN UsageArgs
       /\ Len(l.args) = UsageArgs[l.action]
       /\ l.action # "REMOVE" => IsColourText(l.args[1])
       /\ \A k \in 2..Len(l.args) : l.args[k].isNum
    THEN [op |-> l.action, target |-> l.target,
          nums |-> [k \in 1..(Len(l.args) - 1) |-> l.args[k + 1].num]]
    ELSE NoCall

\* Every line read makes exactly the pane store call the command grammar
\* and section 6's colour encoding give it: the right operation, on the
\* named pane, with the numbers written, and no call for a malformed line.
\* Breaks if parse, the actions table, a hook's argc check, parse_color or
\* the argument conversion go wrong, or if argc and argv reach run stale.
DispatchAsDocumented == call = Documented(line)

\* No line makes the reader read or free memory it does not own: run never
\* frees an argv twice or frees a garbage pointer, a hook never reads a
\* freed or uninitialised argv, and act_circle never indexes past the end
\* of ui_failure_strs.
MemorySafe == ub = "none"
=============================================================================
