----------------------------- MODULE Transformer -----------------------------
(***************************************************************************)
(* How an agent runs a client's script: JS.Transform in Go                 *)
(* (emitio/pkg/transformers/js.go) hands the accumulator and the lines of  *)
(* one batch to transform in C (emitio/transform/transform.c), which calls *)
(* the script's global function of that name on the value stack of a       *)
(* Duktape heap made for this call and copies the result out.  The gRPC    *)
(* handlers that do so share the process and its C heap.                   *)
(*                                                                         *)
(* Duktape is external: a script is whatever it leaves under "transform",  *)
(* and a call of that returns any of a set of values, throws, or never     *)
(* ends; so does reading a property, which may have a getter.  An error    *)
(* thrown outside duk_eval_raw and duk_pcall is fatal.  Memory allocation  *)
(* does not fail, but for an array of negative length, which is NULL.      *)
(*                                                                         *)
(* X_Fault is X with a plausible fault in the code it stands for.  Nothing *)
(* here uses it; each shows that a property notices such a fault.          *)
(***************************************************************************)
EXTENDS Integers, Sequences, SequencesExt

CONSTANTS
    Callers,      \* gRPC handlers inside Server.Read
    Strings,      \* accumulators, records and the strings of a script
    Cut,          \* string -> what precedes its first NUL: all that C keeps
    Results,      \* values the script's function may return
    Empty,        \* the empty string
    Trap,         \* stands for a property whose getter throws
    Inputs,       \* accumulators and lines that Server.Read may pass
    Garbage,      \* lines that a call may return out of a damaged C heap
    MaxCalls      \* bound, for TLC only

(***************************************************************************)
(* JavaScript values, as far as transform looks at them: the type, the     *)
(* text of a string, the "length" property (0 when it is no number) and    *)
(* the properties 0, 1, ...  "nothing" is undefined or null; "other" is    *)
(* any other value.  A Proxy of an array passes for an array, whatever     *)
(* length it gives.                                                        *)
(***************************************************************************)
Types == {"nothing", "string", "array", "function", "error", "other"}
Value(items) ==
    [type : Types, text : Strings, length : Int \cup {Trap}, items : items]
Item   == Value({<<>>})
Inner  == Value(Seq(Item \cup {Trap}))
Result == Value(Seq(Inner \cup {Trap}))

Undefined == [type |-> "nothing", text |-> Empty, length |-> 0, items |-> <<>>]
Object    == [Undefined EXCEPT !.type = "other"]
Text(s)   == [type |-> "string", text |-> s, length |-> 0, items |-> <<>>]
Array(q)  == [type |-> "array", text |-> Empty, length |-> Len(q), items |-> q]

\* What reading a property of v gives; Trap where the read throws.
Length(v) == IF v.type = "nothing" THEN Trap ELSE v.length
At(v, i)  == IF i \in DOMAIN v.items THEN v.items[i] ELSE Undefined

ASSUME TransformerAssumption ==
    /\ Empty \in Strings
    /\ Cut \in [Strings -> Strings]
    /\ Results \subseteq Result
    /\ Trap \notin Int \cup Result
    /\ Inputs \subseteq Strings \X Seq(Strings)
    /\ Garbage \subseteq Seq(Strings)
    /\ MaxCalls \in Nat

VARIABLES
    alive,      \* the agent's process
    sound,      \* no error text has overrun the block it was written to
    blocks,     \* blocks of the C heap, by call, name and index
    misfreed,   \* some block was freed that was not allocated
    pc, call,   \* caller -> where its call is, and the number of that call
    acc, lines, \* the arguments of JS.Transform
    method,     \* what the script left under "transform"
    stack,      \* the value stack
    result,     \* what the script's function returned; an Object before
    spinning,   \* callers whose call is in a script that never ends
    out,        \* the struct transform fills
    ti,         \* which struct TransformIn.in points to: "none", "in", "out"
    reply,      \* what JS.Transform returned
    refused,    \* calls whose result was refused after a part of it was copied
    calls       \* bound

argVars == <<call, acc, lines>>
jsVars  == <<method, stack, result, spinning>>
cVars   == <<sound, blocks, misfreed, out, ti>>
seenVars == <<reply, refused, calls>>
vars == <<alive, sound, blocks, misfreed, pc, call, acc, lines, method, stack, result,
          spinning, out, ti, reply, refused, calls>>

NoOut   == [accumulator |-> Empty, lines |-> <<>>, nlines |-> 0]
NoReply == [error |-> FALSE, acc |-> Empty, lines |-> <<>>]
ErrorReply == [NoReply EXCEPT !.error = TRUE]

Init ==
    /\ alive = TRUE /\ sound = TRUE /\ blocks = {} /\ misfreed = FALSE
    /\ pc = [c \in Callers |-> "idle"]
    /\ call = [c \in Callers |-> 0]
    /\ acc = [c \in Callers |-> Empty]
    /\ lines = [c \in Callers |-> <<>>]
    /\ method = [c \in Callers |-> Undefined]
    /\ stack = [c \in Callers |-> <<>>]
    /\ result = [c \in Callers |-> Object]
    /\ spinning = {}
    /\ out = [c \in Callers |-> NoOut]
    /\ ti = [c \in Callers |-> "none"]
    /\ reply = [c \in Callers |-> NoReply]
    /\ refused = {} /\ calls = 0

(***************************************************************************)
(* The C heap.  A block is named by the call it was made for, the pointer  *)
(* that holds it and, for the elements of an array, the index.             *)
(***************************************************************************)
Param(n, struct, k) ==
    {<<n, struct, "accumulator", 0>>, <<n, struct, "lines", 0>>}
        \cup {<<n, struct, "line", i>> : i \in 1 .. k}

Allocated(B) == blocks' = blocks \cup B
Freed(B) ==
    /\ blocks' = blocks \ B
    /\ misfreed' = (misfreed \/ ~(B \subseteq blocks))

\* TransformIn.Free: what the struct that ti.in points to owns.
Owned(c) ==
    CASE ti[c] = "in"  -> Param(call[c], "in", Len(lines[c]))
      [] ti[c] = "out" -> Param(call[c], "out", out[c].nlines)
      [] OTHER         -> {}

Goes(c, label) == pc' = [pc EXCEPT ![c] = label]
Push(c, v)     == stack' = [stack EXCEPT ![c] = Append(@, v)]

-----------------------------------------------------------------------------
(***************************************************************************)
(* JS.Transform up to the call of transform.                               *)
(***************************************************************************)
\* A fresh heap with an empty stack, and a copy of the script.
Begin(c, input) ==
    /\ alive /\ pc[c] = "idle" /\ calls < MaxCalls
    /\ calls' = calls + 1
    /\ call' = [call EXCEPT ![c] = calls + 1]
    /\ acc' = [acc EXCEPT ![c] = input[1]]
    /\ lines' = [lines EXCEPT ![c] = input[2]]
    /\ method' = [method EXCEPT ![c] = Undefined]
    /\ stack' = [stack EXCEPT ![c] = <<>>]
    /\ result' = [result EXCEPT ![c] = Object]
    /\ out' = [out EXCEPT ![c] = NoOut]
    /\ reply' = [reply EXCEPT ![c] = NoReply]
    /\ IF sound THEN Allocated({<<calls + 1, "src", "script", 0>>}) /\ Goes(c, "eval")
                ELSE UNCHANGED blocks /\ Goes(c, "wild")
    /\ UNCHANGED <<alive, sound, misfreed, spinning, ti, refused>>

\* duk_eval_raw, with errors caught: the value of the script or the error is
\* left on the stack and nobody looks at it.
Methods == {[Undefined EXCEPT !.type = t] : t \in {"nothing", "function", "error"}} \cup {Trap}
Eval(c, m) ==
    /\ pc[c] = "eval"
    /\ method' = [method EXCEPT ![c] = m]
    /\ Push(c, Object)
    /\ Goes(c, "copy")
    /\ UNCHANGED <<alive, argVars, result, spinning, cVars, seenVars>>

\* duk_pcall finds a function below its two arguments.
Callable(c) ==
    pc[c] = "call" /\ stack[c][Len(stack[c]) - 2].type = "function"

\* Nothing that runs code of the script can be interrupted: its evaluation, its
\* function, the getter of a property, and what makes a text of an error.
Spins(c) ==
    /\ c \notin spinning
    /\ \/ pc[c] \in {"eval", "method", "call"}
       \/ /\ \/ pc[c] \in {"result", "first", "second"}
             \/ pc[c] = "line" /\ Len(out[c].lines) < out[c].nlines
          /\ Last(stack[c]).type \notin {"nothing", "string"}
    /\ spinning' = spinning \cup {c}
    /\ UNCHANGED <<alive, pc, argVars, method, stack, result, cVars, seenVars>>

\* The buffer for the error, and TransformIn.C.
CopyIn(c) ==
    /\ pc[c] = "copy"
    /\ Allocated({<<call[c], "err", "text", 0>>} \cup Param(call[c], "in", Len(lines[c])))
    /\ ti' = [ti EXCEPT ![c] = "in"]
    /\ Goes(c, "method")
    /\ UNCHANGED <<alive, misfreed, argVars, jsVars, sound, out, seenVars>>

-----------------------------------------------------------------------------
(***************************************************************************)
(* transform.                                                              *)
(***************************************************************************)
\* An error text is written, the stack emptied, and 1 returned.
Fails(c) ==
    /\ stack' = [stack EXCEPT ![c] = <<>>]
    /\ Goes(c, "failed")
    /\ UNCHANGED <<alive, argVars, method, result, spinning, cVars, reply, calls>>
FailsEarly(c) == Fails(c) /\ UNCHANGED refused
\* What out holds by then is never freed.
FailsLate(c)  == Fails(c) /\ refused' = refused \cup {call[c]}

\* The process ends: by sandbox_fatal when a read throws outside a protected call.
Ends ==
    /\ alive' = FALSE
    /\ pc' = [c \in Callers |-> "gone"]
    /\ blocks' = {}
    /\ UNCHANGED <<sound, misfreed, argVars, jsVars, out, ti, seenVars>>

\* The global object, and its property "transform".
GetMethod(c) ==
    /\ pc[c] = "method"
    /\ \/ method[c] = Trap /\ Ends
       \/ method[c] # Trap /\ method[c].type = "error" /\ FailsEarly(c)
       \/ /\ method[c] # Trap /\ method[c].type # "error"
          /\ stack' = [stack EXCEPT ![c] = @ \o <<Object, method[c]>>]
          /\ Goes(c, "args")
          /\ UNCHANGED <<alive, argVars, method, result, spinning, cVars, seenVars>>

\* The accumulator, and an array that the lines are put into one by one.
InArray(q) == Array([i \in DOMAIN q |-> Text(Cut[q[i]])])
PushArgs(c) ==
    /\ pc[c] = "args"
    /\ stack' = [stack EXCEPT ![c] = @ \o <<Text(Cut[acc[c]]), InArray(lines[c])>>]
    /\ Goes(c, "call")
    /\ UNCHANGED <<alive, argVars, method, result, spinning, cVars, seenVars>>

\* duk_pcall replaces the function and its arguments by what it returned.
CallReturns(c, v) ==
    /\ Callable(c)
    /\ stack' = [stack EXCEPT ![c] = Append(SubSeq(@, 1, Len(@) - 3), v)]
    /\ result' = [result EXCEPT ![c] = v]
    /\ Goes(c, "result")
    /\ UNCHANGED <<alive, argVars, method, spinning, cVars, seenVars>>

\* The function throws, or is none.
CallThrows_Unprotected(c) == pc[c] = "call" /\ Ends
CallThrows(c) == pc[c] = "call" /\ FailsEarly(c)

\* sprintf of a text longer than its block writes over whatever is next to it in
\* the C heap, which all calls share: from here on any of them may go anyhow, and
\* what they hold, or the heap, is not known.
Overruns(c) ==
    /\ \/ pc[c] = "call"
       \/ pc[c] = "method" /\ method[c] # Trap /\ method[c].type = "error"
       \/ pc[c] = "result" /\ Length(Last(stack[c])) = 0     \* an error for a length
    /\ sound' = FALSE /\ blocks' = {} /\ refused' = {}
    /\ pc' = [d \in Callers |-> IF pc[d] = "idle" THEN "idle" ELSE "wild"]
    /\ method' = [d \in Callers |-> Undefined]
    /\ stack' = [d \in Callers |-> <<>>]
    /\ result' = [d \in Callers |-> Object]
    /\ out' = [d \in Callers |-> NoOut]
    /\ ti' = [d \in Callers |-> "none"]
    /\ UNCHANGED <<alive, misfreed, argVars, spinning, reply, calls>>

Anything == {ErrorReply} \cup [error : {FALSE}, acc : Strings, lines : Garbage]
WildReturns(c) ==
    /\ pc[c] = "wild"
    /\ \E r \in Anything : reply' = [reply EXCEPT ![c] = r]
    /\ Goes(c, "idle")
    /\ UNCHANGED <<alive, argVars, jsVars, cVars, refused, calls>>
WildEnds == alive /\ ~sound /\ Ends

\* The result's length, which may be anything's.
GetLength(c) ==
    LET v == Last(stack[c]) IN
    /\ pc[c] = "result"
    /\ \/ Length(v) = Trap /\ Ends
       \/ Length(v) # Trap /\ Length(v) < 2 /\ FailsEarly(c)
       \/ /\ Length(v) # Trap /\ Length(v) >= 2
          /\ Goes(c, "first")
          /\ UNCHANGED <<alive, argVars, jsVars, cVars, seenVars>>

\* Its first item is the accumulator.
GetFirst(c) ==
    LET x == At(Last(stack[c]), 1) IN
    /\ pc[c] = "first"
    /\ \/ x = Trap /\ Ends
       \/ x # Trap /\ x.type # "string" /\ FailsEarly(c)
       \/ /\ x # Trap /\ x.type = "string"
          /\ out' = [out EXCEPT ![c].accumulator = Cut[x.text]]
          /\ Allocated({<<call[c], "out", "accumulator", 0>>})
          /\ Goes(c, "second")
          /\ UNCHANGED <<alive, argVars, jsVars, sound, misfreed, ti, seenVars>>

\* Its second item is an array, and stays on the stack.
SecondIs(c, y) ==
    /\ out' = [out EXCEPT ![c].nlines = Length(y)]
    /\ Allocated({<<call[c], "out", "lines", 0>>})
    /\ Push(c, y)
    /\ Goes(c, "line")
    /\ UNCHANGED <<alive, argVars, method, result, spinning, sound, misfreed, ti, seenVars>>
GetSecond_AnyType(c) ==
    LET y == At(Last(stack[c]), 2) IN
    /\ pc[c] = "second"
    /\ y # Trap
    /\ SecondIs(c, y)
GetSecond(c) ==
    LET y == At(Last(stack[c]), 2) IN
    /\ pc[c] = "second"
    /\ \/ y = Trap /\ Ends
       \/ y # Trap /\ y.type # "array" /\ FailsLate(c)
       \/ y # Trap /\ y.type = "array" /\ Length(y) = Trap /\ Ends
       \/ y # Trap /\ y.type = "array" /\ Length(y) # Trap /\ SecondIs(c, y)

\* The loop over its items.
LineIs(c, x) ==
    /\ out' = [out EXCEPT ![c].lines = Append(@, Cut[x.text])]
    /\ Allocated({<<call[c], "out", "line", Len(out[c].lines) + 1>>})
    /\ UNCHANGED <<alive, pc, argVars, method, result, spinning, sound, misfreed, ti, seenVars>>
GetLine_NotPopped(c) ==
    LET x == At(Last(stack[c]), Len(out[c].lines) + 1) IN
    /\ pc[c] = "line" /\ Len(out[c].lines) < out[c].nlines
    /\ \/ x = Trap /\ Ends
       \/ x # Trap /\ x.type # "string" /\ FailsLate(c)
       \/ x # Trap /\ x.type = "string" /\ LineIs(c, x) /\ Push(c, x)
GetLine_SameIndex(c) ==
    /\ pc[c] = "line" /\ Len(out[c].lines) < out[c].nlines
    /\ UNCHANGED vars
GetLine(c) ==
    LET x == At(Last(stack[c]), Len(out[c].lines) + 1) IN
    /\ pc[c] = "line" /\ Len(out[c].lines) < out[c].nlines
    /\ \/ x = Trap /\ Ends
       \/ x # Trap /\ x.type # "string" /\ FailsLate(c)
       \/ x # Trap /\ x.type = "string" /\ LineIs(c, x) /\ UNCHANGED stack

LastLine(c) ==
    /\ pc[c] = "line" /\ Len(out[c].lines) >= out[c].nlines
    /\ stack' = [stack EXCEPT ![c] = <<>>]
    /\ Goes(c, "from")
    /\ UNCHANGED <<alive, argVars, method, result, spinning, cVars, seenVars>>

-----------------------------------------------------------------------------
(***************************************************************************)
(* JS.Transform after the call of transform.                               *)
(***************************************************************************)
\* TransformIn.From frees what ti.in pointed to, the input, and takes out; it
\* panics when asked to make a slice of negative length.
Taken(c) ==
    /\ pc[c] = "from" /\ out[c].nlines >= 0
    /\ ti' = [ti EXCEPT ![c] = "out"]
    /\ reply' = [reply EXCEPT ![c] =
                    [error |-> FALSE, acc |-> out[c].accumulator, lines |-> out[c].lines]]
    /\ Goes(c, "return")
    /\ UNCHANGED <<alive, argVars, jsVars, sound, out, refused, calls>>
From_KeepsInput(c) == Taken(c) /\ UNCHANGED <<blocks, misfreed>>
From_FreesBoth(c) ==
    Taken(c) /\ Freed(Owned(c) \cup Param(call[c], "out", out[c].nlines))
From(c) ==
    \/ Taken(c) /\ Freed(Owned(c))
    \/ pc[c] = "from" /\ out[c].nlines < 0 /\ Ends

\* The deferred calls: the error buffer, TransformIn.Free, the script, the heap.
Return(c) ==
    /\ pc[c] \in {"return", "failed"}
    /\ Freed(Owned(c) \cup {<<call[c], "err", "text", 0>>, <<call[c], "src", "script", 0>>})
    /\ ti' = [ti EXCEPT ![c] = "none"]
    /\ reply' = [reply EXCEPT ![c] = IF pc[c] = "failed" THEN ErrorReply ELSE @]
    /\ Goes(c, "idle")
    /\ UNCHANGED <<alive, argVars, jsVars, sound, out, refused, calls>>

-----------------------------------------------------------------------------
Step(c) ==
    /\ c \notin spinning
    /\ \/ \E m \in Methods : Eval(c, m)
       \/ CopyIn(c) \/ GetMethod(c) \/ PushArgs(c)
       \/ \E v \in Results : CallReturns(c, v)
       \/ CallThrows(c) \/ Overruns(c)
       \/ GetLength(c) \/ GetFirst(c) \/ GetSecond(c) \/ GetLine(c) \/ LastLine(c)
       \/ From(c) \/ Return(c)

\* The process is gone, or no call can go on and none can begin.
Rest ==
    /\ \A c \in Callers :
        \/ c \in spinning \/ pc[c] = "gone"
        \/ pc[c] = "idle" /\ calls = MaxCalls
    /\ UNCHANGED vars

Next ==
    \/ \E c \in Callers, input \in Inputs : Begin(c, input)
    \/ \E c \in Callers : Step(c) \/ Spins(c) \/ WildReturns(c)
    \/ WildEnds
    \/ Rest

Spec == Init /\ [][Next]_vars

\* Goroutines that can run do.  A script owes nothing: it may spin at once; nor
\* does a call in a damaged heap.
FairSpec == Spec /\ \A c \in Callers : WF_vars(Step(c))
-----------------------------------------------------------------------------
(***************************************************************************)
(* Properties.                                                             *)
(***************************************************************************)

\* The type invariant: the values every variable may take.
Names == {"script", "text", "accumulator", "lines", "line"}
Labels == {"idle", "eval", "copy", "method", "args", "call", "result", "first", "second",
           "line", "from", "return", "failed", "wild", "gone"}
TypeOK ==
    /\ alive \in BOOLEAN /\ sound \in BOOLEAN /\ misfreed \in BOOLEAN
    /\ blocks \subseteq Nat \X {"src", "err", "in", "out"} \X Names \X Nat
    /\ pc \in [Callers -> Labels]
    /\ call \in [Callers -> Nat]
    /\ acc \in [Callers -> Strings]
    /\ lines \in [Callers -> Seq(Strings)]
    /\ method \in [Callers -> Methods]
    /\ stack \in [Callers -> Seq(Result)]
    /\ result \in [Callers -> Result]
    /\ spinning \subseteq Callers
    /\ out \in [Callers -> [accumulator : Strings, lines : Seq(Strings), nlines : Int]]
    /\ ti \in [Callers -> {"none", "in", "out"}]
    /\ reply \in [Callers -> [error : BOOLEAN, acc : Strings, lines : Seq(Strings)]]
    /\ refused \subseteq Nat /\ calls \in Nat

\* Calls have numbers of their own; a process that is gone runs none of them,
\* one with a damaged heap none of which anything is known; and ti.in follows
\* the call.
Running(c) == pc[c] \notin {"idle", "wild", "gone"}
Copying == {"line", "from", "return"}
CallsDistinct ==
    /\ \A c \in Callers : call[c] <= calls
    /\ \A n \in refused : n <= calls
    /\ \A c, d \in Callers : Running(c) /\ Running(d) /\ call[c] = call[d] => c = d
    /\ \A c \in Callers : Running(c) /\ call[c] \in refused => pc[c] = "failed"
Places ==
    \A c \in Callers :
        /\ alive <=> pc[c] # "gone"
        /\ pc[c] = "wild" => ~sound
        /\ Running(c) => sound
        /\ pc[c] \in {"idle", "eval", "copy", "wild"} => ti[c] = "none"
        /\ pc[c] \in {"method", "args", "call", "result", "first", "second", "line",
                      "from", "failed"} => ti[c] = "in"
        /\ pc[c] = "return" => ti[c] = "out"
        /\ pc[c] \notin Copying \cup {"idle", "failed", "wild", "gone"} => out[c].lines = <<>>

\* The blocks a running call has allocated and not freed: what it needs itself,
\* and what it has copied of a result.  Nothing else is allocated, but what a
\* refused result has left.
Needed(c) ==
    {<<call[c], "src", "script", 0>>}
        \cup (IF ti[c] = "none" THEN {} ELSE {<<call[c], "err", "text", 0>>})
        \cup (IF ti[c] = "in" THEN Owned(c) ELSE {})
Copied(c) ==
    (IF pc[c] \in Copying \cup {"second"}
     THEN {<<call[c], "out", "accumulator", 0>>} ELSE {})
        \cup (IF pc[c] \in Copying
              THEN {<<call[c], "out", "lines", 0>>}
                       \cup {<<call[c], "out", "line", i>> : i \in 1 .. Len(out[c].lines)}
              ELSE {})
BlocksKept ==
    /\ \A c \in Callers : Running(c) => Needed(c) \cup Copied(c) \subseteq blocks
    /\ \A b \in blocks :
        \/ b[1] \in refused /\ b[2] = "out"
        \/ \E c \in Callers : Running(c) /\ b \in Needed(c) \cup Copied(c)

\* The value stack is as deep as the place in transform says, with the value
\* the next line reads on top: a pop too few or too many in the loop would
\* read the wrong value in the next round, or leave the reserve of
\* duk_require_stack.
ShapeAt(c) ==
    /\ pc[c] \in {"eval", "failed", "from", "return"} => stack[c] = <<>>
    /\ pc[c] \in {"copy", "method"} => Len(stack[c]) = 1
    /\ pc[c] = "args" => Len(stack[c]) = 3 /\ Last(stack[c]) = method[c]
    /\ pc[c] = "call" => Len(stack[c]) = 5 /\ stack[c][3] = method[c]
    /\ pc[c] \in {"result", "first", "second"} =>
          Len(stack[c]) = 3 /\ Last(stack[c]) = result[c]
    /\ pc[c] = "line" => Len(stack[c]) = 4 /\ Last(stack[c]) = result[c].items[2]
StackShape == \A c \in Callers : ShapeAt(c)

\* A call at this place has got that far in the result, and has copied it.
GotFirst(c) ==
    /\ At(result[c], 1) # Trap /\ At(result[c], 1).type = "string"
    /\ out[c].accumulator = Cut[At(result[c], 1).text]
GotSecond(c) ==
    LET y == At(result[c], 2) IN
    /\ y # Trap /\ y.type = "array" /\ out[c].nlines = Length(y)
    /\ Len(out[c].lines) <= out[c].nlines \/ out[c].lines = <<>>
    /\ \A i \in DOMAIN out[c].lines :
        At(y, i) # Trap /\ At(y, i).type = "string" /\ out[c].lines[i] = Cut[At(y, i).text]
ResultCopied ==
    \A c \in Callers :
        /\ pc[c] \in Copying \cup {"second"} => GotFirst(c)
        /\ pc[c] \in Copying => GotSecond(c)
        /\ pc[c] = "from" => Len(out[c].lines) >= out[c].nlines
        /\ pc[c] = "return" =>
              /\ Len(out[c].lines) = out[c].nlines
              /\ reply[c] = [error |-> FALSE, acc |-> out[c].accumulator,
                             lines |-> out[c].lines]

\* No block of the C heap is freed twice, or freed without having been
\* allocated: TransformIn.Free runs inside From and once more when JS.Transform
\* returns, on the input, on the output, or on the input only when transform
\* failed.  (As long as the heap is sound; so too the next one.)
FreedOnce == ~misfreed

\* What stays allocated when no call runs is what transform copied of a result
\* that it then refused: a call that succeeds, or fails earlier, frees all.
OnlyRefusedLeaks ==
    \A b \in blocks :
        \/ \E c \in Callers : Running(c) /\ call[c] = b[1]
        \/ b[1] \in refused /\ b[2] = "out"

\* A call answers with an error and nothing else, or with all the strings the
\* script's function returned, in order, each up to its first NUL, and then
\* that result had the promised shape (string, [string]).  All this until an
\* error text overruns its block.
AnswerIsResult ==
    sound => \A c \in Callers : pc[c] = "idle" /\ call[c] # 0 =>
        \/ reply[c] = ErrorReply
        \/ LET y == At(result[c], 2) IN
           /\ ~reply[c].error
           /\ At(result[c], 1).type = "string" /\ reply[c].acc = Cut[At(result[c], 1).text]
           /\ y.type = "array" /\ Len(reply[c].lines) = Length(y)
           /\ \A i \in DOMAIN reply[c].lines :
                At(y, i).type = "string" /\ reply[c].lines[i] = Cut[At(y, i).text]

\* A script ends the process, with the calls of all other clients, only by a
\* value that cannot be read or an error text that overruns its block: an
\* error it throws, a missing function, too short a result or one of wrong
\* types is an error of its own call.
Unreadable(v) ==
    LET y == At(v, 2) IN
    \/ Trap \in {Length(v), At(v, 1), y}
    \/ y.type = "array" /\ (Length(y) = Trap \/ Length(y) < 0)
    \/ y.type = "array" /\ \E i \in DOMAIN y.items : y.items[i] = Trap
OnlyUnreadableEnds ==
    ~alive => ~sound \/ \E c \in Callers : method[c] = Trap \/ Unreadable(result[c])

\* The three and what makes them inductive.
IndInv ==
    /\ TypeOK /\ CallsDistinct /\ Places /\ BlocksKept /\ StackShape /\ ResultCopied
    /\ FreedOnce /\ AnswerIsResult /\ OnlyUnreadableEnds

\* JS.Transform and transform together serve ScriptCalls: as long as no script
\* of any client gives an error text that overruns its block, and with whatever
\* other calls run, a result of the shape (string, [string]) is answered with
\* all its strings, each up to its first NUL, never refused and never the end
\* of the process; any other is an error of its own call or the end of all.
WellShaped(v) ==
    LET x == At(v, 1)
        y == At(v, 2)
    IN  /\ Length(v) # Trap /\ Length(v) >= 2
        /\ x # Trap /\ x.type = "string"
        /\ y # Trap /\ y.type = "array"
        /\ Length(y) # Trap /\ Length(y) >= 0
        /\ \A i \in 1 .. Length(y) : At(y, i) # Trap /\ At(y, i).type = "string"
AnswerTo(v) ==
    LET y == At(v, 2) IN
    [error |-> FALSE, acc |-> Cut[At(v, 1).text],
     lines |-> [i \in 1 .. Length(y) |-> Cut[At(y, i).text]]]
Phase ==
    [c \in Callers |->
        IF pc[c] \in {"idle", "gone"} THEN pc[c]
        ELSE IF pc[c] = "wild" THEN "lost"
        ELSE IF pc[c] \in {"return", "failed"} THEN "answered"
        ELSE IF pc[c] \in {"result", "first", "second", "line", "from"} THEN "returned"
        ELSE "running"]
Answered ==
    [c \in Callers |->
        IF pc[c] = "failed" THEN ErrorReply
        ELSE IF pc[c] \in {"return", "idle"} THEN reply[c] ELSE NoReply]
Served == INSTANCE ScriptCalls WITH
              Values <- Results, Answer <- [v \in {r \in Results : WellShaped(r)} |-> AnswerTo(v)],
              NoValue <- Object, NoAnswer <- NoReply, Error <- ErrorReply,
              phase <- Phase, value <- result, answer <- Answered
ServesCalls == Served!Spec

\* A call that is not in a script that never ends returns, or the process is
\* gone or its heap damaged.
CallsEnd ==
    \A c \in Callers : pc[c] # "idle" ~> pc[c] \in {"idle", "wild", "gone"} \/ c \in spinning
=============================================================================
