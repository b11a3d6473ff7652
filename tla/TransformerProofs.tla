-------------------------- MODULE TransformerProofs --------------------------
(***************************************************************************)
(* IndInv is an inductive invariant of Transformer, for any callers, any   *)
(* strings and conversion Cut, any batches and any values the scripts may  *)
(* return; the safety properties follow from it.                           *)
(***************************************************************************)
EXTENDS Transformer, TLAPS

(***************************************************************************)
(* Values.                                                                 *)
(***************************************************************************)
\* What is stored in an array can be put on the value stack.
LEMMA InnerIsResult == Inner \subseteq Result
  <1>1. Item \subseteq Inner
    <2>1. <<>> \in Seq(Item \cup {Trap})
      OBVIOUS
    <2> QED BY <2>1 DEF Item, Inner, Value
  <1>2. Seq(Item \cup {Trap}) \subseteq Seq(Inner \cup {Trap})
    BY <1>1
  <1> QED BY <1>2 DEF Inner, Result, Value

LEMMA PlainValues ==
    ASSUME TransformerAssumption
    PROVE  /\ Undefined \in Inner /\ Object \in Result /\ Object # Trap
           /\ \A s \in Strings : Text(s) \in Item
           /\ Item \subseteq Result
           /\ \A m \in Methods : m # Trap => m \in Result
           /\ Undefined \in Methods
  <1>1. Undefined \in Item /\ \A s \in Strings : Text(s) \in Item
    BY DEF TransformerAssumption, Undefined, Text, Item, Value, Types
  <1>2. \A t \in Types : [Undefined EXCEPT !.type = t] \in Item
    BY <1>1 DEF Undefined, Item, Value
  <1>3. Item \subseteq Inner
    <2>1. <<>> \in Seq(Item \cup {Trap})
      OBVIOUS
    <2> QED BY <2>1 DEF Item, Inner, Value
  <1>4. Item \subseteq Result
    BY <1>3, InnerIsResult
  <1>5. Undefined \in Methods
    BY DEF Undefined, Methods
  <1>6. Object \in Result /\ Object # Trap
    BY <1>2, <1>4 DEF Object, Types, TransformerAssumption
  <1> QED BY <1>1, <1>2, <1>3, <1>4, <1>5, <1>6 DEF Methods, Types

\* An item of a result is one more value, or cannot be read.
LEMMA AtType ==
    ASSUME TransformerAssumption, NEW v \in Result, NEW i \in Nat
    PROVE  At(v, i) \in Inner \cup {Trap}
  <1>1. v.items \in Seq(Inner \cup {Trap})
    BY DEF Result, Value
  <1>2. i \in DOMAIN v.items => v.items[i] \in Inner \cup {Trap}
    BY <1>1
  <1> QED BY <1>2, PlainValues DEF At

LEMMA LengthType ==
    ASSUME TransformerAssumption, NEW v \in Result
    PROVE  Length(v) \in Int \cup {Trap}
  BY DEF Length, Result, Value

LEMMA InArrayType ==
    ASSUME TransformerAssumption, NEW q \in Seq(Strings)
    PROVE  InArray(q) \in Result
  <1> DEFINE texts == [i \in DOMAIN q |-> Text(Cut[q[i]])]
  <1>1. \A i \in DOMAIN q : texts[i] \in Item
    BY PlainValues DEF TransformerAssumption
  <1>2. DOMAIN q = 1 .. Len(q) /\ Len(q) \in Nat
    OBVIOUS
  <1>3. texts \in Seq(Inner \cup {Trap})
    <2>1. \A i \in 1 .. Len(q) : texts[i] \in Inner \cup {Trap}
      <3>1. Item \subseteq Inner
        <4>1. <<>> \in Seq(Item \cup {Trap})
          OBVIOUS
        <4> QED BY <4>1 DEF Item, Inner, Value
      <3> QED BY <1>1, <1>2, <3>1
    <2> QED BY <2>1, <1>2
  <1>4. Len(texts) \in Nat
    BY <1>3
  <1>5. Array(texts) \in Result
    BY <1>3, <1>4 DEF Array, Result, Value, Types, TransformerAssumption
  <1> QED BY <1>5 DEF InArray

LEMMA ErrorReplyType ==
    ASSUME TransformerAssumption
    PROVE  ErrorReply \in [error : BOOLEAN, acc : Strings, lines : Seq(Strings)]
  <1>1. <<>> \in Seq(Strings) /\ Empty \in Strings /\ TRUE \in BOOLEAN
    BY DEF TransformerAssumption
  <1>2. NoReply \in [error : BOOLEAN, acc : Strings, lines : Seq(Strings)]
    BY <1>1 DEF NoReply
  <1> QED BY <1>2 DEF ErrorReply

\* One value pushed on a stack, and two.
LEMMA PushOne ==
    ASSUME NEW s \in Seq(Result), NEW a \in Result
    PROVE  /\ Append(s, a) \in Seq(Result)
           /\ Len(Append(s, a)) = Len(s) + 1
           /\ Append(s, a)[Len(s) + 1] = a
  OBVIOUS
LEMMA PushTwo ==
    ASSUME NEW s \in Seq(Result), NEW a \in Result, NEW b \in Result
    PROVE  /\ s \o <<a, b>> \in Seq(Result)
           /\ Len(s \o <<a, b>>) = Len(s) + 2
           /\ Last(s \o <<a, b>>) = b
           /\ \A i \in 1 .. Len(s) : (s \o <<a, b>>)[i] = s[i]
  <1>1. <<a, b>> \in Seq(Result) /\ Len(<<a, b>>) = 2 /\ <<a, b>>[2] = b
    OBVIOUS
  <1>2. Len(s) \in Nat /\ s \o <<a, b>> \in Seq(Result) /\ Len(s \o <<a, b>>) = Len(s) + 2
    BY <1>1
  <1>3. (s \o <<a, b>>)[Len(s) + 2] = b /\ \A i \in 1 .. Len(s) : (s \o <<a, b>>)[i] = s[i]
    BY <1>1, <1>2
  <1> QED BY <1>2, <1>3 DEF Last

-----------------------------------------------------------------------------
\* At the start nothing runs and nothing is allocated.
LEMMA InitInv == TransformerAssumption /\ Init => IndInv
  <1> SUFFICES ASSUME TransformerAssumption, Init PROVE IndInv
    OBVIOUS
  <1>1. TypeOK
    <2>1. <<>> \in Seq(Strings) /\ <<>> \in Seq(Result) /\ FALSE \in BOOLEAN
      OBVIOUS
    <2>2. NoOut \in [accumulator : Strings, lines : Seq(Strings), nlines : Int]
      BY <2>1 DEF NoOut, TransformerAssumption
    <2>3. NoReply \in [error : BOOLEAN, acc : Strings, lines : Seq(Strings)]
      BY <2>1 DEF NoReply, TransformerAssumption
    <2>4. /\ alive \in BOOLEAN /\ sound \in BOOLEAN /\ misfreed \in BOOLEAN
          /\ Empty \in Strings
      BY DEF Init, TransformerAssumption
    <2> QED
      BY <2>1, <2>2, <2>3, <2>4, PlainValues DEF Init, TypeOK, Labels
  <1>2. CallsDistinct /\ Places /\ BlocksKept /\ StackShape /\ ResultCopied
    BY DEF Init, CallsDistinct, Places, BlocksKept, StackShape, ShapeAt, ResultCopied,
           Running, Copying
  <1>3. FreedOnce /\ AnswerIsResult /\ OnlyUnreadableEnds
    BY DEF Init, FreedOnce, AnswerIsResult, OnlyUnreadableEnds
  <1> QED BY <1>1, <1>2, <1>3 DEF IndInv

-----------------------------------------------------------------------------
(***************************************************************************)
(* What steps have in common.                                              *)
(***************************************************************************)
\* A step that allocates and frees nothing and does not change what its caller
\* has copied.
LEMMA SameBlocks ==
    ASSUME TypeOK, BlocksKept, NEW c \in Callers, NEW l, Running(c),
           pc' = [pc EXCEPT ![c] = l], l \notin {"idle", "wild", "gone"},
           UNCHANGED <<blocks, call, lines, out, ti>>, refused \subseteq refused',
           pc[c] \in Copying <=> l \in Copying,
           pc[c] \in Copying \cup {"second"} <=> l \in Copying \cup {"second"}
    PROVE  BlocksKept'
  <1>1. \A d \in Callers : (Running(d) <=> Running(d)') /\ Needed(d)' = Needed(d)
    BY DEF TypeOK, Running, Needed, Owned
  <1>2. \A d \in Callers : Copied(d)' = Copied(d)
    BY DEF TypeOK, Copied
  <1> QED BY <1>1, <1>2 DEF BlocksKept

\* A step that begins no call, ends none and refuses none.
LEMMA SameCalls ==
    ASSUME TypeOK, CallsDistinct, NEW c \in Callers, NEW l, Running(c), pc[c] # "failed",
           pc' = [pc EXCEPT ![c] = l], UNCHANGED <<call, calls, refused>>
    PROVE  CallsDistinct'
  <1>1. pc'[c] = l /\ \A d \in Callers \ {c} : pc'[d] = pc[d]
    BY DEF TypeOK
  <1>2. \A d \in Callers : Running(d)' => Running(d)
    BY <1>1 DEF Running
  <1>3. call[c] \notin refused
    BY DEF CallsDistinct
  <1> QED BY <1>1, <1>2, <1>3 DEF CallsDistinct

\* A step within a call changes no answer.
SameOf(c) ==
    \A d \in Callers \ {c} :
        pc'[d] = pc[d] /\ call'[d] = call[d] /\ result'[d] = result[d] /\ reply'[d] = reply[d]
LEMMA SameAnswers ==
    ASSUME FreedOnce, AnswerIsResult, NEW c \in Callers, alive',
           UNCHANGED <<sound, misfreed>>, pc'[c] # "idle", SameOf(c)
    PROVE  FreedOnce' /\ AnswerIsResult' /\ OnlyUnreadableEnds'
  BY DEF FreedOnce, AnswerIsResult, OnlyUnreadableEnds, SameOf

\* The blocks of a call carry its number.
LEMMA BlocksNamed ==
    ASSUME NEW d
    PROVE  \A b \in Needed(d) \cup Copied(d) \cup Owned(d) : b[1] = call[d]
  BY DEF Needed, Copied, Owned, Param

\* A failure inside transform leaves to Return what the call itself needs; of
\* the copied result, if there is some, the call is noted as refused.
LEMMA FailsKeeps ==
    ASSUME TransformerAssumption, IndInv, NEW c \in Callers, Fails(c),
           \/ pc[c] \in {"method", "call", "result", "first"} /\ refused' = refused
           \/ pc[c] \in {"second", "line"} /\ refused' = refused \cup {call[c]}
    PROVE  IndInv'
  <1> USE DEF Fails, Goes, argVars, cVars
  <1>1. TypeOK'
    <2>1. <<>> \in Seq(Result)
      OBVIOUS
    <2>2. refused \subseteq Nat /\ call[c] \in Nat
      BY DEF IndInv, TypeOK
    <2>3. refused' \subseteq Nat
      BY <2>2
    <2> QED BY <2>1, <2>3 DEF IndInv, TypeOK, Labels
  <1>2. CallsDistinct'
    BY DEF IndInv, TypeOK, CallsDistinct, Running
  <1>3. Places'
    BY DEF IndInv, TypeOK, Places, Running, Copying
  <1>4. BlocksKept'
    <2>1. \A d \in Callers : (Running(d) <=> Running(d)') /\ Needed(d)' = Needed(d)
      BY DEF IndInv, TypeOK, Running, Needed, Owned
    <2>2. \A d \in Callers \ {c} : Copied(d)' = Copied(d)
      BY DEF IndInv, TypeOK, Copied
    <2>3. Copied(c)' = {}
      BY DEF IndInv, TypeOK, Copied, Copying
    <2>4. pc[c] \in {"second", "line"} \/ Copied(c) = {}
      BY DEF Copied, Copying
    <2>5. \A b \in Copied(c) : b[1] = call[c] /\ b[2] = "out"
      BY DEF Copied
    <2>6. \A d \in Callers : Running(d)' => (Needed(d) \cup Copied(d))' \subseteq blocks'
      BY <2>1, <2>2, <2>3 DEF IndInv, BlocksKept
    <2>7. ASSUME NEW b \in blocks'
          PROVE  \/ b[1] \in refused' /\ b[2] = "out"
                 \/ \E d \in Callers : Running(d)' /\ b \in (Needed(d) \cup Copied(d))'
      <3>1. CASE b[1] \in refused /\ b[2] = "out"
        BY <3>1
      <3>2. CASE \E d \in Callers : Running(d) /\ b \in Needed(d) \cup Copied(d)
        BY <3>2, <2>1, <2>2, <2>4, <2>5
      <3> QED BY <2>7, <3>1, <3>2 DEF IndInv, BlocksKept
    <2> QED BY <2>6, <2>7 DEF BlocksKept
  <1>5. StackShape' /\ ResultCopied'
    BY DEF IndInv, TypeOK, StackShape, ShapeAt, ResultCopied, GotFirst, GotSecond, Copying
  <1>6. FreedOnce' /\ AnswerIsResult' /\ OnlyUnreadableEnds'
    <2>1. alive' /\ UNCHANGED <<sound, misfreed>> /\ pc'[c] # "idle"
      BY DEF IndInv, TypeOK, Places
    <2>2. SameOf(c)
      BY DEF IndInv, TypeOK, SameOf
    <2> QED BY <2>1, <2>2, SameAnswers DEF IndInv
  <1> QED BY <1>1, <1>2, <1>3, <1>4, <1>5, <1>6 DEF IndInv

\* The end of the process leaves nothing but its cause.
LEMMA EndsKeeps ==
    ASSUME TransformerAssumption, IndInv, Ends,
           ~sound \/ \E c \in Callers : method[c] = Trap \/ Unreadable(result[c])
    PROVE  IndInv'
  <1> USE DEF Ends, argVars, jsVars, seenVars
  <1>1. TypeOK'
    BY DEF IndInv, TypeOK, Labels
  <1>2. CallsDistinct' /\ Places' /\ BlocksKept' /\ StackShape' /\ ResultCopied'
    BY DEF IndInv, TypeOK, CallsDistinct, Places, BlocksKept, StackShape, ShapeAt, ResultCopied,
           Running, Copying
  <1>3. FreedOnce' /\ AnswerIsResult'
    BY DEF IndInv, FreedOnce, AnswerIsResult
  <1>4. OnlyUnreadableEnds'
    BY DEF IndInv, OnlyUnreadableEnds, Unreadable
  <1> QED BY <1>1, <1>2, <1>3, <1>4 DEF IndInv

-----------------------------------------------------------------------------
(***************************************************************************)
(* JS.Transform up to the call of transform.                               *)
(***************************************************************************)
LEMMA BeginKeeps ==
    ASSUME TransformerAssumption, IndInv, NEW c \in Callers, NEW input \in Inputs,
           Begin(c, input)
    PROVE  IndInv'
  <1> USE DEF Begin, Goes, Allocated
  <1>1. TypeOK'
    <2>1. input[1] \in Strings /\ input[2] \in Seq(Strings)
      BY DEF TransformerAssumption
    <2>2. NoOut \in [accumulator : Strings, lines : Seq(Strings), nlines : Int]
      BY DEF NoOut, TransformerAssumption
    <2>3. NoReply \in [error : BOOLEAN, acc : Strings, lines : Seq(Strings)]
      BY DEF NoReply, TransformerAssumption
    <2>4. <<calls + 1, "src", "script", 0>> \in Nat \X {"src", "err", "in", "out"} \X Names \X Nat
      BY DEF IndInv, TypeOK, Names
    <2>5. <<>> \in Seq(Result)
      OBVIOUS
    <2>6. /\ blocks' \subseteq Nat \X {"src", "err", "in", "out"} \X Names \X Nat
          /\ pc' \in [Callers -> Labels]
      <3>1. blocks \subseteq Nat \X {"src", "err", "in", "out"} \X Names \X Nat
        BY DEF IndInv, TypeOK
      <3>2. blocks' \subseteq blocks \cup {<<calls + 1, "src", "script", 0>>}
        OBVIOUS
      <3>3. pc' \in [Callers -> Labels]
        <4>1. pc \in [Callers -> Labels]
          BY DEF IndInv, TypeOK
        <4>2. \/ pc' = [pc EXCEPT ![c] = "eval"]
              \/ pc' = [pc EXCEPT ![c] = "wild"]
          OBVIOUS
        <4> QED BY ONLY <4>1, <4>2 DEF Labels
      <3>4. blocks' \subseteq Nat \X {"src", "err", "in", "out"} \X Names \X Nat
        BY ONLY <2>4, <3>1, <3>2
      <3> QED BY <3>3, <3>4
    <2>7. /\ call' \in [Callers -> Nat] /\ acc' \in [Callers -> Strings]
          /\ lines' \in [Callers -> Seq(Strings)] /\ method' \in [Callers -> Methods]
          /\ stack' \in [Callers -> Seq(Result)] /\ result' \in [Callers -> Result]
      BY <2>1, <2>5, PlainValues DEF IndInv, TypeOK
    <2>8. /\ out' \in [Callers -> [accumulator : Strings, lines : Seq(Strings), nlines : Int]]
          /\ reply' \in [Callers -> [error : BOOLEAN, acc : Strings, lines : Seq(Strings)]]
      BY <2>2, <2>3 DEF IndInv, TypeOK
    <2> QED BY <2>6, <2>7, <2>8 DEF IndInv, TypeOK
  <1>2. CallsDistinct'
    <2>1. call'[c] = calls + 1 /\ \A d \in Callers \ {c} : call'[d] = call[d] /\ pc'[d] = pc[d]
      BY DEF IndInv, TypeOK
    <2>2. calls \in Nat /\ \A d \in Callers : call[d] \in Nat /\ call[d] <= calls
      BY DEF IndInv, TypeOK, CallsDistinct
    <2>3. \A n \in refused : n \in Nat /\ n <= calls
      BY DEF IndInv, TypeOK, CallsDistinct
    <2>4. \A d \in Callers : call'[d] <= calls'
      BY <2>1, <2>2
    <2>5. \A n \in refused' : n <= calls'
      BY <2>2, <2>3
    <2>6. call'[c] \notin refused' /\ \A d \in Callers \ {c} : call'[c] # call'[d]
      BY <2>1, <2>2, <2>3
    <2> QED BY <2>1, <2>4, <2>5, <2>6 DEF IndInv, CallsDistinct, Running
  <1>3. Places'
    <2>1. /\ alive /\ ti[c] = "none" /\ out'[c].lines = <<>> /\ UNCHANGED <<alive, sound, ti>>
          /\ pc'[c] = IF sound THEN "eval" ELSE "wild"
      BY DEF IndInv, TypeOK, Places, NoOut
    <2>2. \A d \in Callers \ {c} : pc'[d] = pc[d] /\ out'[d] = out[d]
      BY DEF IndInv, TypeOK
    <2>3. Places
      BY DEF IndInv
    <2> QED BY ONLY <2>1, <2>2, <2>3 DEF Places, Running, Copying
  <1>4. BlocksKept'
    <2>1. \A d \in Callers \ {c} :
            (Running(d) <=> Running(d)') /\ Needed(d)' = Needed(d) /\ Copied(d)' = Copied(d)
      <3>1. \A d \in Callers \ {c} :
              /\ pc'[d] = pc[d] /\ call'[d] = call[d] /\ lines'[d] = lines[d]
              /\ out'[d] = out[d] /\ ti'[d] = ti[d]
        BY DEF IndInv, TypeOK
      <3> QED BY ONLY <3>1 DEF Running, Needed, Owned, Copied
    <2>2. ~Running(c)
      BY DEF Running
    <2>3. CASE sound
      <3>1. Needed(c)' = {<<calls + 1, "src", "script", 0>>} /\ Copied(c)' = {}
        BY <2>3 DEF IndInv, TypeOK, Places, Needed, Copied, Copying
      <3>2. Running(c)'
        BY <2>3 DEF IndInv, TypeOK, Running
      <3> QED BY <2>1, <2>2, <2>3, <3>1, <3>2 DEF IndInv, BlocksKept
    <2>4. CASE ~sound
      <3>1. ~Running(c)' /\ UNCHANGED <<blocks, refused>>
        BY <2>4 DEF IndInv, TypeOK, Running
      <3> QED BY <2>1, <2>2, <3>1 DEF IndInv, BlocksKept
    <2> QED BY <2>3, <2>4
  <1>5. StackShape' /\ ResultCopied'
    <2>1. pc'[c] \in {"eval", "wild"} /\ stack'[c] = <<>>
      BY DEF IndInv, TypeOK
    <2>2. \A d \in Callers \ {c} :
            /\ pc'[d] = pc[d] /\ stack'[d] = stack[d] /\ method'[d] = method[d]
            /\ result'[d] = result[d] /\ out'[d] = out[d] /\ reply'[d] = reply[d]
      BY DEF IndInv, TypeOK
    <2>3. StackShape'
      BY <2>1, <2>2 DEF IndInv, StackShape, ShapeAt
    <2>4. ResultCopied'
      BY <2>1, <2>2 DEF IndInv, ResultCopied, GotFirst, GotSecond, Copying
    <2> QED BY <2>3, <2>4
  <1>6. FreedOnce' /\ AnswerIsResult' /\ OnlyUnreadableEnds'
    <2>1. FreedOnce' /\ AnswerIsResult'
      <3>1. FreedOnce'
        BY DEF IndInv, FreedOnce
      <3>2. pc'[c] # "idle" /\ \A d \in Callers \ {c} :
              /\ pc'[d] = pc[d] /\ call'[d] = call[d] /\ reply'[d] = reply[d]
              /\ result'[d] = result[d]
        BY DEF IndInv, TypeOK
      <3> QED BY <3>1, <3>2 DEF IndInv, AnswerIsResult
    <2>2. alive /\ alive'
      BY DEF IndInv, Places
    <2> QED BY <2>1, <2>2 DEF OnlyUnreadableEnds
  <1> QED BY <1>1, <1>2, <1>3, <1>4, <1>5, <1>6 DEF IndInv

LEMMA EvalKeeps ==
    ASSUME TransformerAssumption, IndInv, NEW c \in Callers, NEW m \in Methods, Eval(c, m)
    PROVE  IndInv'
  <1> USE DEF Eval, argVars, cVars, seenVars, Goes, Push
  <1>1. TypeOK'
    <2>1. Append(stack[c], Object) \in Seq(Result)
      BY PlainValues DEF IndInv, TypeOK
    <2> QED BY <2>1 DEF IndInv, TypeOK, Labels
  <1>2. CallsDistinct'
    BY SameCalls DEF IndInv, Running
  <1>3. Places'
    BY DEF IndInv, TypeOK, Places, Running, Copying
  <1>4. BlocksKept'
    BY SameBlocks DEF IndInv, Running, Copying
  <1>5. StackShape' /\ ResultCopied'
    <2>1. stack[c] = <<>>
      BY DEF IndInv, StackShape, ShapeAt
    <2> QED
      BY <2>1 DEF IndInv, TypeOK, StackShape, ShapeAt, ResultCopied, GotFirst, GotSecond, Copying
  <1>6. FreedOnce' /\ AnswerIsResult' /\ OnlyUnreadableEnds'
    <2>1. alive' /\ UNCHANGED <<sound, misfreed>> /\ pc'[c] # "idle"
      BY DEF IndInv, TypeOK, Places
    <2>2. SameOf(c)
      BY DEF IndInv, TypeOK, SameOf
    <2> QED BY <2>1, <2>2, SameAnswers DEF IndInv
  <1> QED BY <1>1, <1>2, <1>3, <1>4, <1>5, <1>6 DEF IndInv

LEMMA SpinsKeeps ==
    ASSUME TransformerAssumption, IndInv, NEW c \in Callers, Spins(c)
    PROVE  IndInv'
  <1>1. /\ spinning' = spinning \cup {c}
        /\ UNCHANGED <<alive, sound, blocks, misfreed, pc, call, acc, lines, method, stack,
                       result, out, ti, reply, refused, calls>>
    BY DEF Spins, argVars, cVars, seenVars
  <1>2. TypeOK'
    BY <1>1 DEF IndInv, TypeOK
  <1> QED
    BY <1>1, <1>2 DEF IndInv, CallsDistinct, Places, BlocksKept, StackShape, ShapeAt, ResultCopied,
        FreedOnce, AnswerIsResult, OnlyUnreadableEnds, Running, Needed, Copied, Owned, GotFirst,
        GotSecond

LEMMA CopyInKeeps ==
    ASSUME TransformerAssumption, IndInv, NEW c \in Callers, CopyIn(c)
    PROVE  IndInv'
  <1> USE DEF CopyIn, argVars, jsVars, seenVars, Goes, Allocated
  <1> DEFINE new == {<<call[c], "err", "text", 0>>} \cup Param(call[c], "in", Len(lines[c]))
  <1>1. TypeOK'
    <2>1. Len(lines[c]) \in Nat /\ call[c] \in Nat
      BY DEF IndInv, TypeOK
    <2>2. new \subseteq Nat \X {"src", "err", "in", "out"} \X Names \X Nat
      BY <2>1 DEF Param, Names
    <2> QED BY <2>2 DEF IndInv, TypeOK, Labels
  <1>2. CallsDistinct'
    BY SameCalls DEF IndInv, Running
  <1>3. Places'
    BY DEF IndInv, TypeOK, Places, Running, Copying
  <1>4. BlocksKept'
    <2>1. \A d \in Callers \ {c} : Needed(d)' = Needed(d)
      BY DEF IndInv, TypeOK, Needed, Owned
    <2>2. \A d \in Callers : (Running(d) <=> Running(d)') /\ Copied(d)' = Copied(d)
      <3>1. /\ pc[c] = "copy" /\ pc'[c] = "method" /\ UNCHANGED <<call, out>>
            /\ \A d \in Callers \ {c} : pc'[d] = pc[d]
        BY DEF IndInv, TypeOK
      <3> QED BY ONLY <3>1 DEF Running, Copied, Copying
    <2>3. Needed(c)' = Needed(c) \cup new
      BY DEF IndInv, TypeOK, Places, Needed, Owned
    <2>4. Running(c)'
      BY DEF IndInv, TypeOK, Running
    <2> QED BY <2>1, <2>2, <2>3, <2>4 DEF IndInv, BlocksKept
  <1>5. StackShape' /\ ResultCopied'
    BY DEF IndInv, TypeOK, StackShape, ShapeAt, ResultCopied, GotFirst, GotSecond, Copying
  <1>6. FreedOnce' /\ AnswerIsResult' /\ OnlyUnreadableEnds'
    <2>1. alive' /\ UNCHANGED <<sound, misfreed>> /\ pc'[c] # "idle"
      BY DEF IndInv, TypeOK, Places
    <2>2. SameOf(c)
      BY DEF IndInv, TypeOK, SameOf
    <2> QED BY <2>1, <2>2, SameAnswers DEF IndInv
  <1> QED BY <1>1, <1>2, <1>3, <1>4, <1>5, <1>6 DEF IndInv

-----------------------------------------------------------------------------
(***************************************************************************)
(* transform.                                                              *)
(***************************************************************************)
\* The second branch of GetMethod is a failure, the first the end.
LEMMA GetMethodKeeps ==
    ASSUME TransformerAssumption, IndInv, NEW c \in Callers, GetMethod(c)
    PROVE  IndInv'
  <1>a. CASE method[c] = Trap /\ Ends
    BY <1>a, EndsKeeps
  <1>b. CASE FailsEarly(c)
    BY <1>b, FailsKeeps DEF FailsEarly, GetMethod
  <1>c. CASE /\ method[c] # Trap /\ method[c].type # "error"
             /\ stack' = [stack EXCEPT ![c] = @ \o <<Object, method[c]>>]
             /\ Goes(c, "args")
             /\ UNCHANGED <<alive, argVars, method, result, spinning, cVars, seenVars>>
    <2> USE <1>c DEF GetMethod, argVars, cVars, seenVars, Goes
    <2>0. /\ pc[c] = "method" /\ stack[c] \in Seq(Result) /\ Len(stack[c]) = 1
          /\ method[c] \in Result
      BY PlainValues DEF IndInv, TypeOK, StackShape, ShapeAt
    <2>1. TypeOK'
      <3>1. stack[c] \o <<Object, method[c]>> \in Seq(Result)
        BY <2>0, PlainValues
      <3> QED BY <3>1 DEF IndInv, TypeOK, Labels
    <2>2. CallsDistinct' /\ Places'
      <3>1. CallsDistinct'
        BY <2>0, SameCalls DEF IndInv, Running
      <3>2. Places'
        BY DEF IndInv, TypeOK, Places, Running, Copying
      <3> QED BY <3>1, <3>2
    <2>3. BlocksKept'
      BY SameBlocks DEF IndInv, Running, Copying
    <2>4. StackShape' /\ ResultCopied'
      <3>0. Object \in Result
        BY PlainValues
      <3>4. /\ Len(stack[c] \o <<Object, method[c]>>) = 3
            /\ Last(stack[c] \o <<Object, method[c]>>) = method[c]
        <4>1. stack[c] \in Seq(Result) /\ Object \in Result /\ method[c] \in Result
          BY <2>0, <3>0
        <4>2. /\ Len(stack[c] \o <<Object, method[c]>>) = Len(stack[c]) + 2
              /\ Last(stack[c] \o <<Object, method[c]>>) = method[c]
          BY ONLY <4>1, PushTwo, Zenon
        <4> QED BY <2>0, <4>2
      <3>1. /\ Len(stack'[c]) = 3 /\ Last(stack'[c]) = method[c]
            /\ pc'[c] = "args"
        BY <3>4 DEF IndInv, TypeOK
      <3>2. StackShape'
        BY <3>1 DEF IndInv, TypeOK, StackShape, ShapeAt
      <3>3. ResultCopied'
        BY DEF IndInv, TypeOK, ResultCopied, GotFirst, GotSecond, Copying
      <3> QED BY <3>2, <3>3
    <2>5. FreedOnce' /\ AnswerIsResult' /\ OnlyUnreadableEnds'
      <3>1. alive' /\ UNCHANGED <<sound, misfreed>> /\ pc'[c] # "idle"
        BY DEF IndInv, TypeOK, Places
      <3>2. SameOf(c)
        BY DEF IndInv, TypeOK, SameOf
      <3> QED BY <3>1, <3>2, SameAnswers DEF IndInv
    <2> QED BY <2>1, <2>2, <2>3, <2>4, <2>5 DEF IndInv
  <1> QED BY <1>a, <1>b, <1>c DEF GetMethod

LEMMA PushArgsKeeps ==
    ASSUME TransformerAssumption, IndInv, NEW c \in Callers, PushArgs(c)
    PROVE  IndInv'
  <1> USE DEF PushArgs, argVars, cVars, seenVars, Goes
  <1> DEFINE args == <<Text(Cut[acc[c]]), InArray(lines[c])>>
  <1>0. /\ pc[c] = "args" /\ stack[c] \in Seq(Result) /\ Len(stack[c]) = 3
        /\ Last(stack[c]) = method[c]
    BY DEF IndInv, TypeOK, StackShape, ShapeAt
  <1>9. /\ stack[c] \o args \in Seq(Result)
        /\ Len(stack[c] \o args) = 5 /\ (stack[c] \o args)[3] = method[c]
    <2>1. Text(Cut[acc[c]]) \in Result /\ InArray(lines[c]) \in Result
      BY PlainValues, InArrayType DEF IndInv, TypeOK, TransformerAssumption
    <2>3. stack[c][3] = method[c] /\ 3 \in 1 .. Len(stack[c])
      BY <1>0 DEF Last
    <2>4. /\ stack[c] \o args \in Seq(Result)
          /\ Len(stack[c] \o args) = Len(stack[c]) + 2
          /\ \A i \in 1 .. Len(stack[c]) : (stack[c] \o args)[i] = stack[c][i]
      BY ONLY <1>0, <2>1, PushTwo, Zenon
    <2> QED BY <1>0, <2>3, <2>4
  <1>1. TypeOK'
    BY <1>0, <1>9 DEF IndInv, TypeOK, Labels
  <1>2. CallsDistinct'
    BY SameCalls DEF IndInv, Running
  <1>3. Places'
    BY DEF IndInv, TypeOK, Places, Running, Copying
  <1>4. BlocksKept'
    BY SameBlocks DEF IndInv, Running, Copying
  <1>5. StackShape' /\ ResultCopied'
    <2>1. StackShape'
      BY <1>0, <1>9 DEF IndInv, TypeOK, StackShape, ShapeAt
    <2>2. ResultCopied'
      BY DEF IndInv, TypeOK, ResultCopied, GotFirst, GotSecond, Copying
    <2> QED BY <2>1, <2>2
  <1>6. FreedOnce' /\ AnswerIsResult' /\ OnlyUnreadableEnds'
    <2>1. alive' /\ UNCHANGED <<sound, misfreed>> /\ pc'[c] # "idle"
      BY DEF IndInv, TypeOK, Places
    <2>2. SameOf(c)
      BY DEF IndInv, TypeOK, SameOf
    <2> QED BY <2>1, <2>2, SameAnswers DEF IndInv
  <1> QED BY <1>1, <1>2, <1>3, <1>4, <1>5, <1>6 DEF IndInv

LEMMA CallReturnsKeeps ==
    ASSUME TransformerAssumption, IndInv, NEW c \in Callers, NEW v \in Results,
           CallReturns(c, v)
    PROVE  IndInv'
  <1> USE DEF CallReturns, argVars, cVars, seenVars, Goes
  <1> DEFINE left == Append(SubSeq(stack[c], 1, Len(stack[c]) - 3), v)
  <1>0. /\ pc[c] = "call" /\ stack[c] \in Seq(Result) /\ Len(stack[c]) = 5 /\ v \in Result
    BY DEF IndInv, TypeOK, StackShape, ShapeAt, Callable, TransformerAssumption
  <1>9. left \in Seq(Result) /\ Len(left) = 3 /\ Last(left) = v
    <2>1. SubSeq(stack[c], 1, 2) \in Seq(Result) /\ Len(SubSeq(stack[c], 1, 2)) = 2
      BY <1>0
    <2> QED BY <1>0, <2>1 DEF Last
  <1>8. stack' = [stack EXCEPT ![c] = left] /\ pc' = [pc EXCEPT ![c] = "result"]
    OBVIOUS
  <1> HIDE DEF left
  <1>1. TypeOK'
    <2>1. stack' \in [Callers -> Seq(Result)]
      BY <1>9, <1>8 DEF IndInv, TypeOK
    <2>2. result' \in [Callers -> Result] /\ pc' \in [Callers -> Labels]
      BY <1>0 DEF IndInv, TypeOK, Labels
    <2> QED BY <2>1, <2>2 DEF IndInv, TypeOK
  <1>2. CallsDistinct'
    BY <1>0, <1>8, SameCalls DEF IndInv, Running
  <1>3. Places'
    BY <1>0 DEF IndInv, TypeOK, Places, Running, Copying
  <1>4. BlocksKept'
    <2>1. TypeOK /\ BlocksKept /\ Running(c)
      BY <1>0 DEF IndInv, Running
    <2>2. UNCHANGED <<blocks, call, lines, out, ti>> /\ refused' = refused
      OBVIOUS
    <2> QED BY <1>0, <1>8, <2>1, <2>2, SameBlocks DEF Copying
  <1>5. StackShape' /\ ResultCopied'
    <2>0. /\ stack'[c] = left /\ pc'[c] = "result" /\ result'[c] = v
          /\ UNCHANGED method
          /\ \A d \in Callers \ {c} :
                stack'[d] = stack[d] /\ pc'[d] = pc[d] /\ result'[d] = result[d]
      BY <1>8 DEF IndInv, TypeOK
    <2>1. StackShape'
      <3>1. \A d \in Callers \ {c} : /\ stack'[d] = stack[d] /\ pc'[d] = pc[d]
                                    /\ result'[d] = result[d] /\ method'[d] = method[d]
        BY <2>0
      <3>2. StackShape
        BY DEF IndInv
      <3>3. \A d \in Callers \ {c} : ShapeAt(d)'
        BY ONLY <3>1, <3>2 DEF StackShape, ShapeAt
      <3> QED BY ONLY <1>9, <2>0, <3>3 DEF StackShape, ShapeAt
    <2>2. ResultCopied'
      BY <1>0 DEF IndInv, TypeOK, ResultCopied, GotFirst, GotSecond, Copying
    <2> QED BY <2>1, <2>2
  <1>6. FreedOnce' /\ AnswerIsResult' /\ OnlyUnreadableEnds'
    <2>1. alive' /\ UNCHANGED <<sound, misfreed>> /\ pc'[c] # "idle"
      BY <1>0 DEF IndInv, TypeOK, Places
    <2>2. SameOf(c)
      BY <1>0 DEF IndInv, TypeOK, SameOf
    <2> QED BY <2>1, <2>2, SameAnswers DEF IndInv
  <1> QED BY <1>1, <1>2, <1>3, <1>4, <1>5, <1>6 DEF IndInv

LEMMA CallThrowsKeeps ==
    ASSUME TransformerAssumption, IndInv, NEW c \in Callers, CallThrows(c)
    PROVE  IndInv'
  BY FailsKeeps DEF CallThrows, FailsEarly

\* After it nothing is known of any call, and none counts as running.
LEMMA OverrunsKeeps ==
    ASSUME TransformerAssumption, IndInv, NEW c \in Callers, Overruns(c)
    PROVE  IndInv'
  <1> USE DEF Overruns, argVars
  <1>0. alive /\ alive'
    BY DEF IndInv, Places
  <1>9. \A d \in Callers : pc'[d] \in {"idle", "wild"} /\ ti'[d] = "none" /\ ~Running(d)'
    BY DEF Running
  <1>1. TypeOK'
    <2>1. <<>> \in Seq(Result) /\ <<>> \in Seq(Strings)
      OBVIOUS
    <2>2. NoOut \in [accumulator : Strings, lines : Seq(Strings), nlines : Int]
      BY <2>1 DEF NoOut, TransformerAssumption
    <2> QED BY <2>1, <2>2, PlainValues DEF IndInv, TypeOK, Labels
  <1>2. CallsDistinct'
    BY <1>9 DEF IndInv, CallsDistinct
  <1>3. Places'
    BY <1>0, <1>9 DEF Places, Copying
  <1>4. BlocksKept'
    BY <1>9 DEF BlocksKept
  <1>5. StackShape' /\ ResultCopied'
    BY <1>9 DEF StackShape, ShapeAt, ResultCopied, Copying
  <1>6. FreedOnce' /\ AnswerIsResult' /\ OnlyUnreadableEnds'
    BY <1>0 DEF IndInv, FreedOnce, AnswerIsResult, OnlyUnreadableEnds
  <1> QED BY <1>1, <1>2, <1>3, <1>4, <1>5, <1>6 DEF IndInv

LEMMA WildReturnsKeeps ==
    ASSUME TransformerAssumption, IndInv, NEW c \in Callers, WildReturns(c)
    PROVE  IndInv'
  <1> USE DEF WildReturns, argVars, jsVars, cVars, Goes
  <1>0. /\ pc[c] = "wild" /\ pc'[c] = "idle" /\ ~sound /\ ~sound'
        /\ \A d \in Callers \ {c} : pc'[d] = pc[d]
    BY DEF IndInv, TypeOK, Places
  <1>9. \A d \in Callers : /\ Running(d)' <=> Running(d)
                           /\ Needed(d)' = Needed(d) /\ Copied(d)' = Copied(d)
    BY <1>0 DEF Running, Needed, Owned, Copied, Copying
  <1>1. TypeOK'
    <2>1. ErrorReply \in [error : BOOLEAN, acc : Strings, lines : Seq(Strings)]
      BY ErrorReplyType
    <2>2. Anything \subseteq [error : BOOLEAN, acc : Strings, lines : Seq(Strings)]
      BY <2>1 DEF Anything, TransformerAssumption
    <2>3. reply' \in [Callers -> [error : BOOLEAN, acc : Strings, lines : Seq(Strings)]]
      BY <2>2 DEF IndInv, TypeOK
    <2> QED BY <2>3 DEF IndInv, TypeOK, Labels
  <1>2. CallsDistinct'
    BY <1>0, <1>9 DEF IndInv, CallsDistinct
  <1>3. Places'
    BY <1>0, <1>9 DEF IndInv, Places, Copying
  <1>4. BlocksKept'
    BY <1>9 DEF IndInv, BlocksKept
  <1>5. StackShape' /\ ResultCopied'
    <2>1. \A d \in Callers \ {c} : reply'[d] = reply[d]
      BY DEF IndInv, TypeOK
    <2> QED
      BY <1>0, <2>1 DEF IndInv, StackShape, ShapeAt, ResultCopied, GotFirst, GotSecond, Copying
  <1>6. FreedOnce' /\ AnswerIsResult' /\ OnlyUnreadableEnds'
    BY <1>0 DEF IndInv, FreedOnce, AnswerIsResult, OnlyUnreadableEnds
  <1> QED BY <1>1, <1>2, <1>3, <1>4, <1>5, <1>6 DEF IndInv

LEMMA GetLengthKeeps ==
    ASSUME TransformerAssumption, IndInv, NEW c \in Callers, GetLength(c)
    PROVE  IndInv'
  <1>0. pc[c] = "result" /\ Last(stack[c]) = result[c] /\ Len(stack[c]) = 3
    BY DEF IndInv, StackShape, ShapeAt, GetLength
  <1>a. CASE Length(result[c]) = Trap /\ Ends
    BY <1>a, EndsKeeps DEF Unreadable
  <1>b. CASE FailsEarly(c)
    BY <1>0, <1>b, FailsKeeps DEF FailsEarly
  <1>c. CASE Goes(c, "first") /\ UNCHANGED <<alive, argVars, jsVars, cVars, seenVars>>
    <2> USE <1>0, <1>c DEF argVars, jsVars, cVars, seenVars, Goes
    <2>1. TypeOK'
      BY DEF IndInv, TypeOK, Labels
    <2>2. CallsDistinct'
      BY SameCalls DEF IndInv, Running
    <2>3. Places'
      BY DEF IndInv, TypeOK, Places, Running, Copying
    <2>4. BlocksKept'
      <3>1. TypeOK /\ BlocksKept /\ Running(c)
        BY DEF IndInv, Running
      <3>2. /\ pc' = [pc EXCEPT ![c] = "first"] /\ refused' = refused
            /\ UNCHANGED <<blocks, call, lines, out, ti>>
        OBVIOUS
      <3>3. /\ pc[c] \in Copying <=> "first" \in Copying
            /\ pc[c] \in Copying \cup {"second"} <=> "first" \in Copying \cup {"second"}
        BY DEF Copying
      <3>4. refused \subseteq refused' /\ "first" \notin {"idle", "wild", "gone"}
        BY <3>2
      <3> QED BY ONLY <3>1, <3>2, <3>3, <3>4, SameBlocks
    <2>5. StackShape' /\ ResultCopied'
      BY DEF IndInv, TypeOK, StackShape, ShapeAt, ResultCopied, GotFirst, GotSecond, Copying
    <2>6. FreedOnce' /\ AnswerIsResult' /\ OnlyUnreadableEnds'
      <3>1. alive' /\ UNCHANGED <<sound, misfreed>> /\ pc'[c] # "idle"
        BY DEF IndInv, TypeOK, Places
      <3>2. SameOf(c)
        BY DEF IndInv, TypeOK, SameOf
      <3> QED BY <3>1, <3>2, SameAnswers DEF IndInv
    <2> QED BY <2>1, <2>2, <2>3, <2>4, <2>5, <2>6 DEF IndInv
  <1> QED BY <1>0, <1>a, <1>b, <1>c DEF GetLength

LEMMA GetFirstKeeps ==
    ASSUME TransformerAssumption, IndInv, NEW c \in Callers, GetFirst(c)
    PROVE  IndInv'
  <1> DEFINE x == At(result[c], 1)
  <1>0. /\ pc[c] = "first" /\ Last(stack[c]) = result[c] /\ Len(stack[c]) = 3
        /\ x \in Inner \cup {Trap} /\ call[c] \in Nat /\ out[c].lines = <<>>
    BY AtType DEF IndInv, TypeOK, StackShape, ShapeAt, Places, Copying, GetFirst
  <1>a. CASE x = Trap /\ Ends
    BY <1>a, EndsKeeps DEF Unreadable
  <1>b. CASE FailsEarly(c)
    BY <1>0, <1>b, FailsKeeps DEF FailsEarly
  <1>c. CASE /\ x # Trap /\ x.type = "string"
             /\ out' = [out EXCEPT ![c].accumulator = Cut[x.text]]
             /\ Allocated({<<call[c], "out", "accumulator", 0>>})
             /\ Goes(c, "second")
             /\ UNCHANGED <<alive, argVars, jsVars, sound, misfreed, ti, seenVars>>
    <2> USE DEF argVars, jsVars, seenVars, Goes, Allocated
    <2>0. Cut[x.text] \in Strings
      BY <1>0, <1>c DEF Inner, Value, TransformerAssumption
    <2> HIDE DEF x
    <2>7. /\ out'[c] = [out[c] EXCEPT !.accumulator = Cut[x.text]]
          /\ \A d \in Callers \ {c} : out'[d] = out[d]
      BY <1>c DEF IndInv, TypeOK
    <2>1. TypeOK'
      <3>1. out' \in [Callers -> [accumulator : Strings, lines : Seq(Strings), nlines : Int]]
        <4>1. /\ out[c] \in [accumulator : Strings, lines : Seq(Strings), nlines : Int]
              /\ out \in [Callers -> [accumulator : Strings, lines : Seq(Strings), nlines : Int]]
          BY DEF IndInv, TypeOK
        <4>2. [out[c] EXCEPT !.accumulator = Cut[x.text]]
                 \in [accumulator : Strings, lines : Seq(Strings), nlines : Int]
          BY ONLY <4>1, <2>0
        <4>3. out' = [out EXCEPT ![c] = [out[c] EXCEPT !.accumulator = Cut[x.text]]]
          BY <1>c, <4>1
        <4> QED BY ONLY <4>1, <4>2, <4>3
      <3>2. <<call[c], "out", "accumulator", 0>>
              \in Nat \X {"src", "err", "in", "out"} \X Names \X Nat
        BY <1>0 DEF Names
      <3> QED BY <1>c, <3>1, <3>2 DEF IndInv, TypeOK, Labels
    <2>2. CallsDistinct'
      BY <1>0, <1>c, SameCalls DEF IndInv, Running
    <2>3. Places'
      BY <1>0, <1>c, <2>7 DEF IndInv, TypeOK, Places, Running, Copying
    <2>4. BlocksKept'
      <3>1. \A d \in Callers : (Running(d) <=> Running(d)') /\ Needed(d)' = Needed(d)
        BY <1>0, <1>c, <2>7 DEF IndInv, TypeOK, Places, Running, Needed, Owned
      <3>2. \A d \in Callers \ {c} : Copied(d)' = Copied(d)
        BY <1>c, <2>7 DEF IndInv, TypeOK, Copied
      <3>3. Copied(c)' = {<<call[c], "out", "accumulator", 0>>} /\ Copied(c) = {}
        BY <1>0, <1>c DEF IndInv, TypeOK, Copied, Copying
      <3>4. Running(c)'
        BY <1>0, <1>c DEF IndInv, TypeOK, Running
      <3> QED BY <1>c, <3>1, <3>2, <3>3, <3>4 DEF IndInv, BlocksKept
    <2>5. StackShape' /\ ResultCopied'
      <3>1. StackShape'
        BY <1>0, <1>c DEF IndInv, TypeOK, StackShape, ShapeAt
      <3>2. ResultCopied'
        <4>1. \A d \in Callers \ {c} :
                /\ out'[d] = out[d] /\ pc'[d] = pc[d] /\ result'[d] = result[d]
                /\ reply'[d] = reply[d]
          BY <1>c, <2>7 DEF IndInv, TypeOK
        <4>2. pc'[c] = "second" /\ GotFirst(c)'
          BY <1>0, <1>c, <2>7 DEF IndInv, TypeOK, GotFirst, x
        <4> QED BY <4>1, <4>2 DEF IndInv, ResultCopied, GotFirst, GotSecond, Copying
      <3> QED BY <3>1, <3>2
    <2>6. FreedOnce' /\ AnswerIsResult' /\ OnlyUnreadableEnds'
      <3>1. alive' /\ UNCHANGED <<sound, misfreed>> /\ pc'[c] # "idle"
        BY <1>0, <1>c DEF IndInv, TypeOK, Places
      <3>2. SameOf(c)
        BY <1>0, <1>c DEF IndInv, TypeOK, SameOf
      <3> QED BY <3>1, <3>2, SameAnswers DEF IndInv
    <2> QED BY <2>1, <2>2, <2>3, <2>4, <2>5, <2>6 DEF IndInv
  <1> QED BY <1>0, <1>a, <1>b, <1>c DEF GetFirst

LEMMA GetSecondKeeps ==
    ASSUME TransformerAssumption, IndInv, NEW c \in Callers, GetSecond(c)
    PROVE  IndInv'
  <1> DEFINE y == At(result[c], 2)
  <1>0. /\ pc[c] = "second" /\ Last(stack[c]) = result[c] /\ Len(stack[c]) = 3
        /\ y \in Inner \cup {Trap} /\ call[c] \in Nat /\ out[c].lines = <<>>
    BY AtType DEF IndInv, TypeOK, StackShape, ShapeAt, Places, Copying, GetSecond
  <1>a. CASE Ends /\ (y = Trap \/ (y.type = "array" /\ Length(y) = Trap))
    BY <1>a, EndsKeeps DEF Unreadable
  <1>b. CASE FailsLate(c)
    BY <1>0, <1>b, FailsKeeps DEF FailsLate
  <1>c. CASE y # Trap /\ y.type = "array" /\ Length(y) # Trap /\ SecondIs(c, y)
    <2> USE DEF argVars, seenVars, Goes, Allocated, Push
    <2>0. /\ Length(y) \in Int /\ y \in Result /\ Append(stack[c], y) \in Seq(Result)
          /\ Len(Append(stack[c], y)) = 4 /\ Last(Append(stack[c], y)) = y
      <3>1. y \in Result
        BY <1>0, <1>c, InnerIsResult
      <3>2. Length(y) \in Int
        BY <1>c, <3>1, LengthType
      <3>3. stack[c] \in Seq(Result)
        BY DEF IndInv, TypeOK
      <3>4. Len(stack[c]) = 3
        BY <1>0
      <3> HIDE DEF y
      <3>5. /\ Append(stack[c], y) \in Seq(Result) /\ Len(Append(stack[c], y)) = 4
            /\ Append(stack[c], y)[4] = y
        <4>1. /\ Append(stack[c], y) \in Seq(Result)
              /\ Len(Append(stack[c], y)) = Len(stack[c]) + 1
              /\ Append(stack[c], y)[Len(stack[c]) + 1] = y
          BY <3>1, <3>3, PushOne, Zenon
        <4> QED BY <3>4, <4>1
      <3> QED BY <3>1, <3>2, <3>5 DEF Last
    <2>8. y = result[c].items[2]
      BY <1>c DEF At, Undefined
    <2> HIDE DEF y
    <2> USE DEF SecondIs
    <2>7. /\ out'[c] = [out[c] EXCEPT !.nlines = Length(y)]
          /\ stack'[c] = Append(stack[c], y) /\ pc'[c] = "line"
          /\ \A d \in Callers \ {c} :
                out'[d] = out[d] /\ stack'[d] = stack[d] /\ pc'[d] = pc[d]
          /\ UNCHANGED <<result, method, reply, call, lines, acc, ti>>
      BY <1>c DEF IndInv, TypeOK
    <2>1. TypeOK'
      <3>1. out' \in [Callers -> [accumulator : Strings, lines : Seq(Strings), nlines : Int]]
        <4>1. /\ out[c] \in [accumulator : Strings, lines : Seq(Strings), nlines : Int]
              /\ out \in [Callers -> [accumulator : Strings, lines : Seq(Strings), nlines : Int]]
          BY DEF IndInv, TypeOK
        <4>2. [out[c] EXCEPT !.nlines = Length(y)]
                 \in [accumulator : Strings, lines : Seq(Strings), nlines : Int]
          BY ONLY <4>1, <2>0
        <4>3. out' = [out EXCEPT ![c] = [out[c] EXCEPT !.nlines = Length(y)]]
          BY <1>c, <4>1
        <4> QED BY ONLY <4>1, <4>2, <4>3
      <3>2. <<call[c], "out", "lines", 0>> \in Nat \X {"src", "err", "in", "out"} \X Names \X Nat
        BY <1>0 DEF Names
      <3>3. stack' \in [Callers -> Seq(Result)]
        BY <1>c, <2>0 DEF IndInv, TypeOK
      <3>4. pc' \in [Callers -> Labels]
        BY <1>c DEF IndInv, TypeOK, Labels
      <3> QED BY <1>c, <3>1, <3>2, <3>3, <3>4 DEF IndInv, TypeOK
    <2>2. CallsDistinct'
      BY <1>0, <1>c, SameCalls DEF IndInv, Running
    <2>3. Places'
      BY <1>0, <1>c DEF IndInv, TypeOK, Places, Running, Copying
    <2>4. BlocksKept'
      <3>1. \A d \in Callers : (Running(d) <=> Running(d)') /\ Needed(d)' = Needed(d)
        BY <1>0, <1>c, <2>7 DEF IndInv, TypeOK, Places, Running, Needed, Owned
      <3>2. \A d \in Callers \ {c} : Copied(d)' = Copied(d)
        BY <2>7 DEF Copied
      <3>3. Copied(c)' = Copied(c) \cup {<<call[c], "out", "lines", 0>>}
        BY <1>0, <2>7 DEF Copied, Copying
      <3>4. Running(c)' /\ blocks' = blocks \cup {<<call[c], "out", "lines", 0>>}
            /\ refused' = refused
        BY <1>0, <1>c, <2>7 DEF Running
      <3> QED BY <3>1, <3>2, <3>3, <3>4 DEF IndInv, BlocksKept
    <2>5. StackShape' /\ ResultCopied'
      <3>1. StackShape'
        <4>1. Len(stack'[c]) = 4 /\ Last(stack'[c]) = result'[c].items[2]
          BY <2>0, <2>7, <2>8
        <4>2. StackShape
          BY DEF IndInv
        <4>3. \A d \in Callers \ {c} :
                /\ stack'[d] = stack[d] /\ pc'[d] = pc[d] /\ result'[d] = result[d]
                /\ method'[d] = method[d]
          BY <2>7
        <4>4. \A d \in Callers \ {c} : ShapeAt(d)'
          BY ONLY <4>2, <4>3 DEF StackShape, ShapeAt
        <4>5. pc'[c] = "line"
          BY <2>7
        <4> QED BY ONLY <4>1, <4>4, <4>5 DEF StackShape, ShapeAt
      <3>2. ResultCopied'
        <4>1. \A d \in Callers \ {c} :
                /\ out'[d] = out[d] /\ pc'[d] = pc[d] /\ result'[d] = result[d]
                /\ reply'[d] = reply[d]
          BY <2>7
        <4>2. pc'[c] = "line" /\ GotFirst(c)'
          <5>1. GotFirst(c)
            BY <1>0 DEF IndInv, ResultCopied
          <5>2. out'[c].accumulator = out[c].accumulator
            BY <2>7 DEF IndInv, TypeOK
          <5> QED BY <2>7, <5>1, <5>2 DEF GotFirst
        <4>3. GotSecond(c)'
          <5>1. out'[c].nlines = Length(y) /\ out'[c].lines = <<>>
            BY <1>0, <2>7 DEF IndInv, TypeOK
          <5> QED BY <1>c, <2>0, <2>7, <5>1 DEF GotSecond, y
        <4> QED BY <4>1, <4>2, <4>3 DEF IndInv, ResultCopied, GotFirst, GotSecond, Copying
      <3> QED BY <3>1, <3>2
    <2>6. FreedOnce' /\ AnswerIsResult' /\ OnlyUnreadableEnds'
      <3>1. FreedOnce' /\ AnswerIsResult'
        BY <1>0, <1>c, <2>7 DEF IndInv, FreedOnce, AnswerIsResult
      <3>2. alive'
        BY <1>0, <1>c DEF IndInv, Places
      <3> QED BY <3>1, <3>2 DEF OnlyUnreadableEnds
    <2> QED BY <2>1, <2>2, <2>3, <2>4, <2>5, <2>6 DEF IndInv
  <1>d. \/ y = Trap /\ Ends
        \/ y # Trap /\ y.type # "array" /\ FailsLate(c)
        \/ y # Trap /\ y.type = "array" /\ Length(y) = Trap /\ Ends
        \/ y # Trap /\ y.type = "array" /\ Length(y) # Trap /\ SecondIs(c, y)
    BY <1>0, Zenon DEF GetSecond
  <1> HIDE DEF y
  <1> QED BY <1>a, <1>b, <1>c, <1>d

LEMMA GetLineKeeps ==
    ASSUME TransformerAssumption, IndInv, NEW c \in Callers, GetLine(c)
    PROVE  IndInv'
  <1> DEFINE y == At(result[c], 2)
             n == Len(out[c].lines) + 1
             x == At(y, n)
  <1>0. /\ pc[c] = "line" /\ Len(stack[c]) = 4 /\ call[c] \in Nat /\ n \in Nat
        /\ out[c].lines \in Seq(Strings) /\ n <= out[c].nlines
        /\ GotFirst(c) /\ GotSecond(c)
    BY DEF IndInv, TypeOK, StackShape, ShapeAt, ResultCopied, Copying, GetLine
  <1>1. y \in Inner /\ y # Trap /\ y.type = "array" /\ Last(stack[c]) = y
    <2>1. y # Trap /\ y.type = "array"
      BY <1>0 DEF GotSecond
    <2>2. y = result[c].items[2]
      BY <2>1 DEF At, Undefined
    <2>3. Last(stack[c]) = result[c].items[2]
      BY <1>0 DEF IndInv, StackShape, ShapeAt
    <2>4. y \in Inner \cup {Trap}
      BY AtType DEF IndInv, TypeOK
    <2> HIDE DEF y
    <2> QED BY <2>1, <2>2, <2>3, <2>4
  <1>2. x \in Inner \cup {Trap}
    BY <1>0, <1>1, AtType, InnerIsResult
  <1>3. \/ x = Trap /\ Ends
        \/ x # Trap /\ x.type # "string" /\ FailsLate(c)
        \/ x # Trap /\ x.type = "string" /\ LineIs(c, x) /\ UNCHANGED stack
    BY <1>1, Zenon DEF GetLine
  <1>a. CASE x = Trap /\ Ends
    <2>1. Undefined # Trap
      BY PlainValues, InnerIsResult DEF TransformerAssumption
    <2>2. n \in DOMAIN y.items /\ y.items[n] = Trap
      BY <1>a, <2>1 DEF At
    <2>3. Unreadable(result[c])
      BY <1>1, <2>2 DEF Unreadable
    <2> QED BY <1>a, <2>3, EndsKeeps
  <1>b. CASE FailsLate(c)
    BY <1>0, <1>b, FailsKeeps DEF FailsLate
  <1>c. CASE x # Trap /\ x.type = "string" /\ LineIs(c, x) /\ UNCHANGED stack
    <2> USE DEF LineIs, argVars, seenVars, Allocated
    <2>0. Cut[x.text] \in Strings
      BY <1>2, <1>c DEF Inner, Value, TransformerAssumption
    <2> HIDE DEF x
    <2> DEFINE grown == Append(out[c].lines, Cut[x.text])
    <2>8. /\ grown \in Seq(Strings) /\ Len(grown) = n /\ grown[n] = Cut[x.text]
          /\ \A i \in 1 .. n - 1 : grown[i] = out[c].lines[i]
          /\ DOMAIN grown = 1 .. n
      BY <1>0, <2>0
    <2>7. /\ out'[c] = [out[c] EXCEPT !.lines = grown]
          /\ \A d \in Callers \ {c} : out'[d] = out[d]
          /\ blocks' = blocks \cup {<<call[c], "out", "line", n>>}
          /\ UNCHANGED <<pc, result, method, stack, reply, call, lines, acc, ti, refused,
                         alive, sound, misfreed, spinning, calls>>
      BY <1>c DEF IndInv, TypeOK
    <2> HIDE DEF grown
    <2>9. /\ out'[c].lines = grown /\ out'[c].accumulator = out[c].accumulator
          /\ out'[c].nlines = out[c].nlines
      BY <2>7 DEF IndInv, TypeOK
    <2>1. TypeOK'
      <3>1. out' \in [Callers -> [accumulator : Strings, lines : Seq(Strings), nlines : Int]]
        <4>1. /\ out[c] \in [accumulator : Strings, lines : Seq(Strings), nlines : Int]
              /\ out \in [Callers -> [accumulator : Strings, lines : Seq(Strings), nlines : Int]]
          BY DEF IndInv, TypeOK
        <4>2. [out[c] EXCEPT !.lines = grown]
                 \in [accumulator : Strings, lines : Seq(Strings), nlines : Int]
          BY <4>1, <2>8
        <4>3. out' = [out EXCEPT ![c] = [out[c] EXCEPT !.lines = grown]]
          BY <1>c, <4>1 DEF grown
        <4> QED BY <4>1, <4>2, <4>3
      <3>2. <<call[c], "out", "line", n>> \in Nat \X {"src", "err", "in", "out"} \X Names \X Nat
        BY <1>0 DEF Names
      <3> QED BY <2>7, <3>1, <3>2 DEF IndInv, TypeOK
    <2>2. CallsDistinct'
      BY <2>7 DEF IndInv, CallsDistinct, Running
    <2>3. Places'
      <3>1. \A d \in Callers \ {c} : out'[d].lines = out[d].lines
        BY <2>7
      <3>2. pc'[c] \in Copying /\ pc[c] = "line"
        BY <1>0, <2>7 DEF Copying
      <3> QED BY <2>7, <3>1, <3>2 DEF IndInv, Places, Running
    <2>4. BlocksKept'
      <3>1. \A d \in Callers : (Running(d) <=> Running(d)') /\ Needed(d)' = Needed(d)
        BY <1>0, <2>7 DEF IndInv, Places, Running, Needed, Owned
      <3>2. \A d \in Callers \ {c} : Copied(d)' = Copied(d)
        BY <2>7 DEF Copied
      <3>3. Copied(c)' = Copied(c) \cup {<<call[c], "out", "line", n>>}
        <4>1. pc[c] \in Copying /\ pc'[c] \in Copying
          BY <1>0, <2>7 DEF Copying
        <4>2. 1 .. Len(out'[c].lines) = (1 .. Len(out[c].lines)) \cup {n}
          BY <1>0, <2>8, <2>9
        <4> QED BY <4>1, <4>2, <2>7 DEF Copied
      <3>4. Running(c)'
        BY <1>0, <2>7 DEF Running
      <3> QED BY <2>7, <3>1, <3>2, <3>3, <3>4 DEF IndInv, BlocksKept
    <2>5. StackShape' /\ ResultCopied'
      <3>1. StackShape'
        BY <2>7 DEF IndInv, StackShape, ShapeAt
      <3>2. GotFirst(c)' /\ GotSecond(c)'
        <4>1. GotFirst(c)'
          BY <1>0, <2>7, <2>9 DEF GotFirst
        <4>2. \A i \in 1 .. n : At(y, i) # Trap /\ At(y, i).type = "string"
                                   /\ grown[i] = Cut[At(y, i).text]
          <5>1. \A i \in 1 .. n - 1 : At(y, i) # Trap /\ At(y, i).type = "string"
                                   /\ out[c].lines[i] = Cut[At(y, i).text]
            BY <1>0 DEF GotSecond
          <5>2. At(y, n) # Trap /\ At(y, n).type = "string" /\ grown[n] = Cut[At(y, n).text]
            BY <1>c, <2>8 DEF x
          <5>3. \A i \in 1 .. n - 1 : grown[i] = out[c].lines[i]
            BY <2>8
          <5>4. \A i \in 1 .. n : i \in 1 .. n - 1 \/ i = n
            BY <1>0
          <5> QED BY ONLY <5>1, <5>2, <5>3, <5>4
        <4>3. out'[c].nlines = Length(y) /\ Len(out'[c].lines) <= out'[c].nlines
          BY <1>0, <2>8, <2>9 DEF GotSecond
        <4> QED BY <1>1, <2>7, <2>8, <2>9, <4>1, <4>2, <4>3 DEF GotSecond
      <3>3. pc'[c] = "line" /\ \A d \in Callers \ {c} :
                /\ out'[d] = out[d] /\ pc'[d] = pc[d] /\ result'[d] = result[d]
                /\ reply'[d] = reply[d]
        BY <1>0, <2>7
      <3>4. ResultCopied'
        BY <3>2, <3>3 DEF IndInv, ResultCopied, GotFirst, GotSecond, Copying
      <3> QED BY <3>1, <3>4
    <2>6. FreedOnce' /\ AnswerIsResult' /\ OnlyUnreadableEnds'
      BY <2>7 DEF IndInv, FreedOnce, AnswerIsResult, OnlyUnreadableEnds
    <2> QED BY <2>1, <2>2, <2>3, <2>4, <2>5, <2>6 DEF IndInv
  <1> HIDE DEF x
  <1> QED BY <1>3, <1>a, <1>b, <1>c

LEMMA LastLineKeeps ==
    ASSUME TransformerAssumption, IndInv, NEW c \in Callers, LastLine(c)
    PROVE  IndInv'
  <1> USE DEF LastLine, argVars, cVars, seenVars, Goes
  <1>1. TypeOK'
    <2>1. <<>> \in Seq(Result)
      OBVIOUS
    <2> QED BY <2>1 DEF IndInv, TypeOK, Labels
  <1>2. CallsDistinct'
    BY SameCalls DEF IndInv, Running
  <1>3. Places'
    BY DEF IndInv, TypeOK, Places, Running, Copying
  <1>4. BlocksKept'
    BY SameBlocks DEF IndInv, Running, Copying
  <1>5. StackShape'
    BY DEF IndInv, TypeOK, StackShape, ShapeAt
  <1>6. ResultCopied'
    <2>1. Len(out[c].lines) >= out[c].nlines /\ GotFirst(c) /\ GotSecond(c)
      BY DEF IndInv, ResultCopied, Copying
    <2>2. pc'[c] = "from" /\ \A d \in Callers \ {c} : pc'[d] = pc[d]
      BY DEF IndInv, TypeOK
    <2> QED BY <2>1, <2>2 DEF IndInv, ResultCopied, GotFirst, GotSecond, Copying
  <1>7. FreedOnce' /\ AnswerIsResult' /\ OnlyUnreadableEnds'
    <2>1. alive' /\ UNCHANGED <<sound, misfreed>> /\ pc'[c] # "idle"
      BY DEF IndInv, TypeOK, Places
    <2>2. SameOf(c)
      BY DEF IndInv, TypeOK, SameOf
    <2> QED BY <2>1, <2>2, SameAnswers DEF IndInv
  <1> QED BY <1>1, <1>2, <1>3, <1>4, <1>5, <1>6, <1>7 DEF IndInv

-----------------------------------------------------------------------------
(***************************************************************************)
(* JS.Transform after the call of transform.                               *)
(***************************************************************************)
\* A length that is none of an array has been left alone; any other has been copied.
LEMMA AllCopied ==
    ASSUME IndInv, NEW c \in Callers, Taken(c)
    PROVE  Len(out[c].lines) = out[c].nlines
  <1>1. /\ Len(out[c].lines) >= out[c].nlines /\ out[c].nlines >= 0
        /\ Len(out[c].lines) <= out[c].nlines \/ out[c].lines = <<>>
    BY DEF Taken, IndInv, ResultCopied, GotSecond, Copying
  <1>2. Len(out[c].lines) \in Nat /\ out[c].nlines \in Int
    BY DEF IndInv, TypeOK
  <1> QED BY <1>1, <1>2

LEMMA TakenKeeps ==
    ASSUME TransformerAssumption, IndInv, NEW c \in Callers, Taken(c), Freed(Owned(c))
    PROVE  IndInv'
  <1> USE DEF Taken, Freed, argVars, jsVars, Goes
  <1>0. /\ pc[c] = "from" /\ ti[c] = "in" /\ Running(c)
        /\ GotFirst(c) /\ GotSecond(c) /\ Len(out[c].lines) = out[c].nlines
    <2>1. /\ pc[c] = "from" /\ ti[c] = "in" /\ Running(c) /\ GotFirst(c) /\ GotSecond(c)
      BY DEF IndInv, Places, Running, ResultCopied, Copying
    <2> QED BY <2>1, AllCopied
  <1>9. /\ pc'[c] = "return" /\ ti'[c] = "out"
        /\ reply'[c] = [error |-> FALSE, acc |-> out[c].accumulator, lines |-> out[c].lines]
        /\ \A d \in Callers \ {c} : pc'[d] = pc[d] /\ ti'[d] = ti[d] /\ reply'[d] = reply[d]
    BY DEF IndInv, TypeOK
  <1>8. Owned(c) \subseteq blocks
    BY <1>0 DEF IndInv, BlocksKept, Needed
  <1>1. TypeOK'
    <2>1. [error |-> FALSE, acc |-> out[c].accumulator, lines |-> out[c].lines]
             \in [error : BOOLEAN, acc : Strings, lines : Seq(Strings)]
      BY DEF IndInv, TypeOK
    <2>2. misfreed' \in BOOLEAN
      BY <1>8 DEF IndInv, TypeOK, FreedOnce
    <2> QED BY <2>1, <2>2 DEF IndInv, TypeOK, Labels
  <1>2. CallsDistinct'
    BY <1>0, SameCalls DEF IndInv, Running
  <1>3. Places'
    BY <1>0 DEF IndInv, TypeOK, Places, Running, Copying
  <1>4. BlocksKept'
    <2>1. \A d \in Callers : Running(d) <=> Running(d)'
      BY <1>0, <1>9 DEF Running
    <2>2. \A d \in Callers \ {c} : Needed(d)' = Needed(d) /\ Copied(d)' = Copied(d)
      BY <1>9 DEF Needed, Owned, Copied
    <2>3. Copied(c)' = Copied(c)
      BY <1>0, <1>9 DEF Copied, Copying
    <2>4. Needed(c)' = Needed(c) \ Owned(c)
      BY <1>0, <1>9 DEF Needed, Owned, Param
    <2>5. Copied(c) \cap Owned(c) = {}
      BY <1>0 DEF Copied, Owned, Param
    <2>6. \A d \in Callers \ {c} : Running(d) => (Needed(d) \cup Copied(d)) \cap Owned(c) = {}
      <3>1. \A d \in Callers \ {c} : Running(d) => call[d] # call[c]
        BY <1>0 DEF IndInv, CallsDistinct
      <3> QED BY <3>1, BlocksNamed
    <2>7. \A d \in Callers : Running(d) => Needed(d) \cup Copied(d) \subseteq blocks
      BY DEF IndInv, BlocksKept
    <2>8. \A b \in blocks : \/ b[1] \in refused /\ b[2] = "out"
                            \/ \E d \in Callers : Running(d) /\ b \in Needed(d) \cup Copied(d)
      BY DEF IndInv, BlocksKept
    <2>9. blocks' = blocks \ Owned(c) /\ refused' = refused
      OBVIOUS
    <2>a. \A d \in Callers : Running(d)' => (Needed(d) \cup Copied(d))' \subseteq blocks'
      BY <2>1, <2>2, <2>3, <2>4, <2>5, <2>6, <2>7, <2>9
    <2>b. ASSUME NEW b \in blocks'
          PROVE  \/ b[1] \in refused' /\ b[2] = "out"
                 \/ \E d \in Callers : Running(d)' /\ b \in (Needed(d) \cup Copied(d))'
      <3>1. b \in blocks /\ b \notin Owned(c)
        BY <2>9, <2>b
      <3>2. \A d \in Callers : b \in Needed(d) \cup Copied(d) => b \in (Needed(d) \cup Copied(d))'
        BY <2>2, <2>3, <2>4, <3>1
      <3> QED BY <2>1, <2>8, <2>9, <3>1, <3>2
    <2> QED BY <2>a, <2>b DEF BlocksKept
  <1>5. StackShape'
    BY <1>0, <1>9 DEF IndInv, StackShape, ShapeAt
  <1>6. ResultCopied'
    <2>1. GotFirst(c)' /\ GotSecond(c)'
      BY <1>0 DEF GotFirst, GotSecond
    <2>2. \A d \in Callers : (GotFirst(d) => GotFirst(d)') /\ (GotSecond(d) => GotSecond(d)')
      BY DEF GotFirst, GotSecond
    <2>3. ResultCopied /\ UNCHANGED out
      BY DEF IndInv
    <2>4. \A d \in Callers \ {c} :
            /\ pc'[d] \in Copying \cup {"second"} => GotFirst(d)'
            /\ pc'[d] \in Copying => GotSecond(d)'
            /\ pc'[d] = "from" => Len(out'[d].lines) >= out'[d].nlines
            /\ pc'[d] = "return" =>
                  /\ Len(out'[d].lines) = out'[d].nlines
                  /\ reply'[d] = [error |-> FALSE, acc |-> out'[d].accumulator,
                                  lines |-> out'[d].lines]
      BY <1>9, <2>2, <2>3 DEF ResultCopied
    <2> QED BY <1>0, <1>9, <2>1, <2>3, <2>4 DEF ResultCopied
  <1>7. FreedOnce' /\ AnswerIsResult' /\ OnlyUnreadableEnds'
    <2>1. FreedOnce'
      BY <1>8 DEF IndInv, FreedOnce
    <2>2. AnswerIsResult' /\ OnlyUnreadableEnds'
      BY <1>9 DEF IndInv, AnswerIsResult, OnlyUnreadableEnds
    <2> QED BY <2>1, <2>2
  <1> QED BY <1>1, <1>2, <1>3, <1>4, <1>5, <1>6, <1>7 DEF IndInv

LEMMA FromKeeps ==
    ASSUME TransformerAssumption, IndInv, NEW c \in Callers, From(c)
    PROVE  IndInv'
  <1>1. CASE out[c].nlines < 0 /\ Ends
    <2>1. GotSecond(c)
      BY DEF From, Taken, IndInv, ResultCopied, Copying
    <2>2. Unreadable(result[c])
      BY <1>1, <2>1 DEF Unreadable, GotSecond
    <2> QED BY <1>1, <2>2, EndsKeeps
  <1> QED BY <1>1, TakenKeeps DEF From

\* When it returns, a call frees exactly what it still holds.
LEMMA ReturnKeeps ==
    ASSUME TransformerAssumption, IndInv, NEW c \in Callers, Return(c)
    PROVE  IndInv'
  <1> USE DEF Return, Freed, argVars, jsVars, Goes
  <1> DEFINE freed == Owned(c) \cup {<<call[c], "err", "text", 0>>, <<call[c], "src", "script", 0>>}
  <1>0. Running(c) /\ pc[c] \in {"return", "failed"}
    BY DEF Running
  <1>9. /\ pc'[c] = "idle" /\ ti'[c] = "none"
        /\ reply'[c] = IF pc[c] = "failed" THEN ErrorReply ELSE reply[c]
        /\ \A d \in Callers \ {c} : pc'[d] = pc[d] /\ ti'[d] = ti[d] /\ reply'[d] = reply[d]
    BY DEF IndInv, TypeOK
  <1>8. freed = Needed(c) \cup Copied(c)
    <2>1. CASE pc[c] = "failed"
      BY <2>1 DEF IndInv, Places, Needed, Copied, Copying
    <2>2. CASE pc[c] = "return"
      <3>1. ti[c] = "out" /\ Len(out[c].lines) = out[c].nlines
        BY <2>2 DEF IndInv, Places, ResultCopied
      <3>2. Owned(c) = Copied(c)
        BY <2>2, <3>1 DEF Owned, Param, Copied, Copying
      <3>3. Needed(c) = {<<call[c], "err", "text", 0>>, <<call[c], "src", "script", 0>>}
        BY <3>1 DEF Needed
      <3> QED BY <3>2, <3>3
    <2> QED BY <1>0, <2>1, <2>2
  <1>7. freed \subseteq blocks /\ blocks' = blocks \ freed /\ misfreed' = misfreed
    BY <1>0, <1>8 DEF IndInv, BlocksKept, TypeOK, FreedOnce
  <1>1. TypeOK'
    <2>1. ErrorReply \in [error : BOOLEAN, acc : Strings, lines : Seq(Strings)]
      BY ErrorReplyType
    <2>2. reply' \in [Callers -> [error : BOOLEAN, acc : Strings, lines : Seq(Strings)]]
      BY <2>1 DEF IndInv, TypeOK
    <2> QED BY <1>7, <2>2 DEF IndInv, TypeOK, Labels
  <1>2. CallsDistinct'
    BY <1>0, <1>9 DEF IndInv, CallsDistinct, Running
  <1>3. Places'
    BY <1>0 DEF IndInv, TypeOK, Places, Running, Copying
  <1>4. BlocksKept'
    <2>1. ~Running(c)' /\ \A d \in Callers \ {c} :
            (Running(d) <=> Running(d)') /\ Needed(d)' = Needed(d) /\ Copied(d)' = Copied(d)
      BY <1>9 DEF Running, Needed, Owned, Copied
    <2>2. \A d \in Callers \ {c} : Running(d) => (Needed(d) \cup Copied(d)) \cap freed = {}
      <3>1. \A d \in Callers \ {c} : Running(d) => call[d] # call[c]
        BY <1>0 DEF IndInv, CallsDistinct
      <3> QED BY <3>1, <1>8, BlocksNamed
    <2> HIDE DEF freed
    <2> QED BY <1>7, <1>8, <2>1, <2>2 DEF IndInv, BlocksKept
  <1>5. StackShape' /\ ResultCopied'
    <2>1. StackShape'
      BY <1>9 DEF IndInv, StackShape, ShapeAt
    <2>2. ResultCopied'
      BY <1>9 DEF IndInv, ResultCopied, GotFirst, GotSecond, Copying
    <2> QED BY <2>1, <2>2
  <1>6. FreedOnce' /\ AnswerIsResult' /\ OnlyUnreadableEnds'
    <2>1. AnswerIsResult'
      <3>1. CASE pc[c] = "failed"
        BY <1>9, <3>1 DEF IndInv, AnswerIsResult
      <3>2. CASE pc[c] = "return"
        <4>1. /\ reply[c] = [error |-> FALSE, acc |-> out[c].accumulator, lines |-> out[c].lines]
              /\ Len(out[c].lines) = out[c].nlines /\ GotFirst(c) /\ GotSecond(c)
          BY <3>2 DEF IndInv, ResultCopied, Copying
        <4> QED BY <1>9, <3>2, <4>1 DEF IndInv, AnswerIsResult, GotFirst, GotSecond
      <3> QED BY <1>0, <3>1, <3>2
    <2> QED BY <1>7, <2>1 DEF IndInv, FreedOnce, OnlyUnreadableEnds
  <1> QED BY <1>1, <1>2, <1>3, <1>4, <1>5, <1>6 DEF IndInv

-----------------------------------------------------------------------------
(***************************************************************************)
(* The theorems.                                                           *)
(***************************************************************************)
\* IndInv holds in every reachable state, for every value of the constants.
THEOREM Inductive == Spec => []IndInv
  <1>1. Init => IndInv
    BY InitInv, TransformerAssumption
  <1>2. IndInv /\ [Next]_vars => IndInv'
    <2> SUFFICES ASSUME IndInv, [Next]_vars PROVE IndInv'
      OBVIOUS
    <2> USE TransformerAssumption
    <2>1. CASE UNCHANGED vars
      BY <2>1 DEF vars, IndInv, TypeOK, CallsDistinct, Places, BlocksKept, StackShape, ShapeAt,
                  ResultCopied, FreedOnce, AnswerIsResult, OnlyUnreadableEnds, Running,
                  Needed, Copied, Owned, GotFirst, GotSecond
    <2>2. ASSUME NEW c \in Callers, NEW input \in Inputs, Begin(c, input) PROVE IndInv'
      BY <2>2, BeginKeeps
    <2>3. ASSUME NEW c \in Callers, Step(c) PROVE IndInv'
      <3>1. CASE \E m \in Methods : Eval(c, m)
        BY <3>1, EvalKeeps
      <3>2. CASE CopyIn(c) \/ GetMethod(c) \/ PushArgs(c)
        BY <3>2, CopyInKeeps, GetMethodKeeps, PushArgsKeeps
      <3>3. CASE \E v \in Results : CallReturns(c, v)
        BY <3>3, CallReturnsKeeps
      <3>4. CASE CallThrows(c) \/ Overruns(c)
        BY <3>4, CallThrowsKeeps, OverrunsKeeps
      <3>5. CASE GetLength(c) \/ GetFirst(c) \/ GetSecond(c) \/ GetLine(c) \/ LastLine(c)
        BY <3>5, GetLengthKeeps, GetFirstKeeps, GetSecondKeeps, GetLineKeeps, LastLineKeeps
      <3>6. CASE From(c) \/ Return(c)
        BY <3>6, FromKeeps, ReturnKeeps
      <3> QED BY <2>3, <3>1, <3>2, <3>3, <3>4, <3>5, <3>6 DEF Step
    <2>4. ASSUME NEW c \in Callers, Spins(c) PROVE IndInv'
      BY <2>4, SpinsKeeps
    <2>5. ASSUME NEW c \in Callers, WildReturns(c) PROVE IndInv'
      BY <2>5, WildReturnsKeeps
    <2>6. CASE WildEnds
      BY <2>6, EndsKeeps DEF WildEnds
    <2> QED BY <2>1, <2>2, <2>3, <2>4, <2>5, <2>6 DEF Next, Rest
  <1> QED BY <1>1, <1>2, PTL DEF Spec

\* The type invariant.
THEOREM TypeCorrect == Spec => []TypeOK
  <1>1. IndInv => TypeOK
    BY DEF IndInv
  <1> QED BY <1>1, Inductive, PTL

\* No block of the C heap is freed twice, or without having been allocated.
THEOREM NoDoubleFree == Spec => []FreedOnce
  <1>1. IndInv => FreedOnce
    BY DEF IndInv
  <1> QED BY <1>1, Inductive, PTL

\* What outlives its call was copied of a result that was then refused.
THEOREM LeaksAreRefused == Spec => []OnlyRefusedLeaks
  <1>1. IndInv => OnlyRefusedLeaks
    BY BlocksNamed DEF IndInv, BlocksKept, OnlyRefusedLeaks
  <1> QED BY <1>1, Inductive, PTL

\* Until an error text overruns its block, a call answers with an error or with
\* the whole result of the script.
THEOREM WholeAnswers == Spec => []AnswerIsResult
  <1>1. IndInv => AnswerIsResult
    BY DEF IndInv
  <1> QED BY <1>1, Inductive, PTL

\* Only a value that cannot be read, or an error text that has overrun its block,
\* ends the process.
THEOREM Survives == Spec => []OnlyUnreadableEnds
  <1>1. IndInv => OnlyUnreadableEnds
    BY DEF IndInv
  <1> QED BY <1>1, Inductive, PTL
-----------------------------------------------------------------------------
(***************************************************************************)
(* Transformer implements ScriptCalls.  Added to IndInv is that transform  *)
(* reads a result of the script, and only one that is long enough.         *)
(***************************************************************************)
Reading == {"result", "first", "second", "line", "from"}
LongEnough ==
    \A c \in Callers :
        /\ pc[c] \in Reading => result[c] \in Results
        /\ pc[c] \in Reading \ {"result"} => Length(result[c]) # Trap /\ Length(result[c]) >= 2

LEMMA NextLong ==
    ASSUME IndInv, LongEnough, [Next]_vars
    PROVE  LongEnough'
  <1> USE DEF LongEnough, Reading
  <1>1. ASSUME NEW c \in Callers, NEW l,
               pc' = [pc EXCEPT ![c] = l], UNCHANGED result,
               \/ l \notin Reading
               \/ pc[c] = "result" /\ l = "first" /\ Length(result[c]) # Trap /\ Length(result[c]) >= 2
               \/ pc[c] \in Reading \ {"result"} /\ l \in Reading \ {"result"}
        PROVE  LongEnough'
    <2>1. pc'[c] = l /\ \A d \in Callers \ {c} : pc'[d] = pc[d]
      BY <1>1 DEF IndInv, TypeOK
    <2> QED BY <1>1, <2>1
  <1>2. ASSUME NEW c \in Callers, Fails(c)
        PROVE  LongEnough'
    BY <1>1, <1>2 DEF Fails, Goes
  <1>3. ASSUME Ends
        PROVE  LongEnough'
    BY <1>3 DEF Ends
  <1>4. ASSUME NEW c \in Callers, NEW input \in Inputs, Begin(c, input)
        PROVE  LongEnough'
    <2>1. pc'[c] \in {"eval", "wild"} /\ \A d \in Callers \ {c} : pc'[d] = pc[d] /\ result'[d] = result[d]
      BY <1>4 DEF Begin, Goes, IndInv, TypeOK
    <2> QED BY <2>1
  <1>5. ASSUME NEW c \in Callers, NEW v \in Results, CallReturns(c, v)
        PROVE  LongEnough'
    <2>1. /\ pc'[c] = "result" /\ result'[c] = v
          /\ \A d \in Callers \ {c} : pc'[d] = pc[d] /\ result'[d] = result[d]
      BY <1>5 DEF CallReturns, Goes, IndInv, TypeOK
    <2> QED BY <2>1
  <1>6. ASSUME NEW c \in Callers,
               \/ \E m \in Methods : Eval(c, m)
               \/ CopyIn(c) \/ PushArgs(c) \/ Return(c) \/ WildReturns(c)
        PROVE  LongEnough'
    BY <1>1, <1>6 DEF Eval, CopyIn, PushArgs, Return, WildReturns, Goes, jsVars
  <1>b. ASSUME NEW c \in Callers, Overruns(c) \/ Spins(c)
        PROVE  LongEnough'
    <2>1. CASE Overruns(c)
      BY <2>1 DEF Overruns
    <2>2. CASE Spins(c)
      BY <2>2 DEF Spins
    <2> QED BY <1>b, <2>1, <2>2
  <1>7. ASSUME NEW c \in Callers, GetMethod(c) \/ CallThrows(c)
        PROVE  LongEnough'
    <2>1. CASE GetMethod(c)
      BY <1>1, <1>2, <1>3, <2>1 DEF GetMethod, FailsEarly, Goes
    <2> QED BY <1>2, <1>7, <2>1 DEF CallThrows, FailsEarly
  <1>8. ASSUME NEW c \in Callers, GetLength(c)
        PROVE  LongEnough'
    <2>1. pc[c] = "result" /\ Last(stack[c]) = result[c]
      BY <1>8 DEF GetLength, IndInv, StackShape, ShapeAt
    <2>2. \/ Ends \/ Fails(c)
          \/ /\ Length(result[c]) # Trap /\ Length(result[c]) >= 2
             /\ Goes(c, "first") /\ UNCHANGED result
      BY <1>8, <2>1 DEF GetLength, FailsEarly, jsVars
    <2> QED BY <1>1, <1>2, <1>3, <2>1, <2>2 DEF Goes
  <1>9. ASSUME NEW c \in Callers,
               GetFirst(c) \/ GetSecond(c) \/ GetLine(c) \/ LastLine(c) \/ From(c)
        PROVE  LongEnough'
    <2>1. \/ Ends \/ Fails(c)
          \/ /\ pc[c] \in Reading \ {"result"} /\ UNCHANGED result
             /\ \/ UNCHANGED pc
                \/ \E l \in (Reading \ {"result"}) \cup {"return"} : Goes(c, l)
      BY <1>9 DEF GetFirst, GetSecond, SecondIs, GetLine, LineIs, LastLine, From, Taken,
                  FailsEarly, FailsLate, jsVars
    <2> QED BY <1>1, <1>2, <1>3, <2>1 DEF Goes
  <1>a. CASE UNCHANGED vars
    BY <1>a DEF vars
  <1> QED
    BY <1>3, <1>4, <1>5, <1>6, <1>7, <1>8, <1>9, <1>a, <1>b DEF Next, Step, WildEnds, Rest

(***************************************************************************)
(* How a step looks to the handlers.                                       *)
(***************************************************************************)
LEMMA PhaseMoves ==
    ASSUME NEW c \in Callers, NEW p, Phase'[c] = p, \A d \in Callers \ {c} : pc'[d] = pc[d]
    PROVE  Phase' = [Phase EXCEPT ![c] = p]
  <1>1. \A d \in Callers \ {c} : Phase'[d] = Phase[d]
    BY DEF Phase
  <1>2. Phase = [d \in Callers |-> Phase[d]] /\ Phase' = [d \in Callers |-> Phase'[d]]
    BY DEF Phase
  <1> QED BY <1>1, <1>2
LEMMA AnswerMoves ==
    ASSUME NEW c \in Callers, NEW r, Answered'[c] = r,
           \A d \in Callers \ {c} : pc'[d] = pc[d] /\ reply'[d] = reply[d]
    PROVE  Answered' = [Answered EXCEPT ![c] = r]
  <1>1. \A d \in Callers \ {c} : Answered'[d] = Answered[d]
    BY DEF Answered
  <1>2. Answered = [d \in Callers |-> Answered[d]] /\ Answered' = [d \in Callers |-> Answered'[d]]
    BY DEF Answered
  <1> QED BY <1>1, <1>2

\* A step inside transform, or on the way to it, is not seen.
LEMMA StaysInside ==
    ASSUME IndInv, NEW c \in Callers, NEW l, pc' = [pc EXCEPT ![c] = l],
           UNCHANGED <<sound, result, reply>>,
           \/ pc[c] \in Reading /\ l \in Reading
           \/ /\ pc[c] \in {"eval", "copy", "method", "args", "call"}
              /\ l \in {"copy", "method", "args", "call"}
    PROVE  UNCHANGED Served!handlers
  <1>1. pc'[c] = l /\ \A d \in Callers \ {c} : pc'[d] = pc[d]
    BY DEF IndInv, TypeOK
  <1>2. Phase'[c] = Phase[c] /\ Answered'[c] = Answered[c]
    BY <1>1 DEF Phase, Answered, Reading
  <1>3. Phase' = [Phase EXCEPT ![c] = Phase[c]]
    BY <1>1, <1>2, PhaseMoves
  <1>4. Answered' = [Answered EXCEPT ![c] = Answered[c]]
    BY <1>1, <1>2, AnswerMoves
  <1>5. Phase' = Phase
    BY <1>3 DEF Phase
  <1>6. Answered' = Answered
    BY <1>4 DEF Answered
  <1> QED BY <1>5, <1>6 DEF Served!handlers

LEMMA FailsIsRefusal ==
    ASSUME IndInv, NEW c \in Callers, Fails(c), Served!NoGood(c)
    PROVE  Served!Next
  <1>1. /\ pc'[c] = "failed" /\ \A d \in Callers \ {c} : pc'[d] = pc[d]
        /\ UNCHANGED <<sound, result, reply>>
    BY DEF Fails, Goes, cVars, IndInv, TypeOK
  <1>2. Phase'[c] = "answered" /\ Answered'[c] = ErrorReply
    BY <1>1 DEF Phase, Answered
  <1>3. Phase' = [Phase EXCEPT ![c] = "answered"]
    BY <1>1, <1>2, PhaseMoves
  <1>4. Answered' = [Answered EXCEPT ![c] = ErrorReply]
    BY <1>1, <1>2, AnswerMoves
  <1>5. Served!Refuses(c)
    BY <1>1, <1>3, <1>4 DEF Served!Refuses
  <1> QED BY <1>5 DEF Served!Next

LEMMA EndsIsEnd ==
    ASSUME Ends, ~sound \/ \E c \in Callers : Served!NoGood(c)
    PROVE  Served!Next
  <1>1. pc' = [d \in Callers |-> "gone"] /\ UNCHANGED <<sound, result>>
    BY DEF Ends, jsVars
  <1>2. Phase' = [d \in Callers |-> "gone"] /\ Answered' = [d \in Callers |-> NoReply]
    BY <1>1 DEF Phase, Answered
  <1>3. Served!ProcessEnds
    BY <1>1, <1>2 DEF Served!ProcessEnds
  <1> QED BY <1>3 DEF Served!Next

\* Before the script has returned, or with a result of another shape, a call
\* may be refused.
LEMMA NoGoodWhen ==
    ASSUME NEW c \in Callers,
           \/ pc[c] \in {"method", "call"}
           \/ pc[c] \in Reading /\ ~WellShaped(result[c])
    PROVE  Served!NoGood(c)
  <1>1. CASE pc[c] \in {"method", "call"}
    BY <1>1 DEF Served!NoGood, Phase
  <1>2. CASE pc[c] \in Reading /\ ~WellShaped(result[c])
    BY <1>2 DEF Served!NoGood, Phase, Reading
  <1> QED BY <1>1, <1>2

LEMMA BeginServed ==
    ASSUME IndInv, NEW c \in Callers, NEW input \in Inputs, Begin(c, input)
    PROVE  Served!Next
  <1>1. /\ pc[c] = "idle" /\ reply'[c] = NoReply /\ UNCHANGED sound
        /\ pc'[c] = IF sound THEN "eval" ELSE "wild"
        /\ \A d \in Callers \ {c} : pc'[d] = pc[d] /\ reply'[d] = reply[d]
        /\ result' = [result EXCEPT ![c] = Object]
    BY DEF Begin, Goes, IndInv, TypeOK
  <1>2. /\ Phase[c] = "idle" /\ Answered'[c] = NoReply
        /\ Phase'[c] = IF sound THEN "running" ELSE "lost"
    BY <1>1 DEF Phase, Answered
  <1>3. Phase' = [Phase EXCEPT ![c] = IF sound THEN "running" ELSE "lost"]
    BY <1>1, <1>2, PhaseMoves
  <1>4. Answered' = [Answered EXCEPT ![c] = NoReply]
    BY <1>1, <1>2, AnswerMoves
  <1>5. Served!Call(c)
    BY <1>1, <1>2, <1>3, <1>4 DEF Served!Call
  <1> QED BY <1>5 DEF Served!Next

LEMMA ReturnsServed ==
    ASSUME IndInv, NEW c \in Callers, NEW v \in Results, CallReturns(c, v)
    PROVE  Served!Next
  <1>1. /\ pc[c] = "call" /\ pc'[c] = "result" /\ UNCHANGED <<sound, reply>>
        /\ \A d \in Callers \ {c} : pc'[d] = pc[d]
        /\ result' = [result EXCEPT ![c] = v]
    BY DEF CallReturns, Callable, Goes, IndInv, TypeOK, cVars, seenVars
  <1>2. /\ Phase[c] = "running" /\ Phase'[c] = "returned"
        /\ Answered[c] = NoReply /\ Answered'[c] = NoReply
    BY <1>1 DEF Phase, Answered
  <1>3. Phase' = [Phase EXCEPT ![c] = "returned"]
    BY <1>1, <1>2, PhaseMoves
  <1>4. Answered' = [Answered EXCEPT ![c] = NoReply]
    BY <1>1, <1>2, AnswerMoves
  <1>5. Answered' = Answered
    BY <1>2, <1>4 DEF Answered
  <1>6. Served!ScriptReturns(c, v)
    BY <1>1, <1>2, <1>3, <1>5 DEF Served!ScriptReturns
  <1> QED BY <1>6 DEF Served!Next

LEMMA MethodServed ==
    ASSUME IndInv, NEW c \in Callers, GetMethod(c) \/ CallThrows(c)
    PROVE  [Served!Next]_Served!handlers
  <1>1. CASE GetMethod(c)
    <2>1. pc[c] = "method" /\ Served!NoGood(c)
      BY <1>1, NoGoodWhen DEF GetMethod
    <2>2. \/ Ends \/ Fails(c) \/ (Goes(c, "args") /\ UNCHANGED <<sound, result, reply>>)
      BY <1>1 DEF GetMethod, FailsEarly, cVars, seenVars
    <2> QED BY <2>1, <2>2, EndsIsEnd, FailsIsRefusal, StaysInside DEF Goes
  <1>2. CASE CallThrows(c)
    BY <1>2, NoGoodWhen, FailsIsRefusal DEF CallThrows, FailsEarly
  <1> QED BY <1>1, <1>2

\* Only a script without a good result gives the text of an error; what it may
\* damage is all.
LEMMA DamageServed ==
    ASSUME IndInv, NEW c \in Callers, Overruns(c)
    PROVE  Served!Next
  <1>1. Served!NoGood(c)
    <2>1. CASE pc[c] \in {"method", "call"}
      BY <2>1, NoGoodWhen
    <2>2. CASE pc[c] = "result" /\ Length(Last(stack[c])) = 0
      <3>1. Length(result[c]) = 0
        BY <2>2 DEF IndInv, StackShape, ShapeAt
      <3>2. ~WellShaped(result[c])
        BY <3>1 DEF WellShaped
      <3> QED BY <2>2, <3>2, NoGoodWhen DEF Reading
    <2> QED BY <2>1, <2>2 DEF Overruns
  <1>2. /\ sound' = FALSE /\ result' = [d \in Callers |-> Object] /\ reply' = reply
        /\ \A d \in Callers : pc'[d] = IF pc[d] = "idle" THEN "idle" ELSE "wild"
    BY DEF Overruns
  <1>3. \A d \in Callers : Phase[d] = "idle" <=> pc[d] = "idle"
    BY DEF Phase
  <1>4. \A d \in Callers : Phase'[d] = IF Phase[d] = "idle" THEN "idle" ELSE "lost"
    BY <1>2, <1>3 DEF Phase
  <1>5. Phase' = [d \in Callers |-> IF Phase[d] = "idle" THEN "idle" ELSE "lost"]
    <2>1. Phase' = [d \in Callers |-> Phase'[d]]
      BY DEF Phase
    <2> QED BY <1>4, <2>1
  <1>6. \A d \in Callers : Answered'[d] = IF Phase[d] = "idle" THEN Answered[d] ELSE NoReply
    BY <1>2, <1>3 DEF Answered
  <1>7. Answered' = [d \in Callers |-> IF Phase[d] = "idle" THEN Answered[d] ELSE NoReply]
    <2>1. Answered' = [d \in Callers |-> Answered'[d]]
      BY DEF Answered
    <2> QED BY <1>6, <2>1
  <1>8. Served!Damage
    BY <1>1, <1>2, <1>5, <1>7 DEF Served!Damage
  <1> QED BY <1>8 DEF Served!Next

LEMMA WildServed ==
    ASSUME IndInv, NEW c \in Callers, WildReturns(c)
    PROVE  Served!Next
  <1>1. PICK r \in Anything : reply' = [reply EXCEPT ![c] = r]
    BY DEF WildReturns
  <1>2. /\ pc[c] = "wild" /\ pc'[c] = "idle" /\ UNCHANGED <<sound, result>> /\ reply'[c] = r
        /\ \A d \in Callers \ {c} : pc'[d] = pc[d] /\ reply'[d] = reply[d]
    BY <1>1 DEF WildReturns, Goes, jsVars, cVars, IndInv, TypeOK
  <1>3. Phase[c] = "lost" /\ Phase'[c] = "idle" /\ Answered'[c] = r
    BY <1>2 DEF Phase, Answered
  <1>4. Phase' = [Phase EXCEPT ![c] = "idle"]
    BY <1>2, <1>3, PhaseMoves
  <1>5. Answered' = [Answered EXCEPT ![c] = r]
    BY <1>2, <1>3, AnswerMoves
  <1>6. Served!AnswersAnyhow(c)
    BY <1>2, <1>3, <1>4, <1>5 DEF Served!AnswersAnyhow
  <1> QED BY <1>6 DEF Served!Next

LEMMA ReadServed ==
    ASSUME IndInv, NEW c \in Callers, GetLength(c) \/ GetFirst(c) \/ GetSecond(c)
    PROVE  [Served!Next]_Served!handlers
  <1>1. pc[c] \in Reading /\ Last(stack[c]) = result[c]
    BY DEF GetLength, GetFirst, GetSecond, IndInv, StackShape, ShapeAt, Reading
  <1>2. \/ ~WellShaped(result[c]) /\ (Ends \/ Fails(c))
        \/ \E l \in Reading : Goes(c, l) /\ UNCHANGED <<sound, result, reply>>
    <2>1. CASE GetLength(c)
      <3>1. \/ Length(result[c]) = Trap /\ Ends
            \/ Length(result[c]) # Trap /\ Length(result[c]) < 2 /\ Fails(c)
            \/ Goes(c, "first") /\ UNCHANGED <<sound, result, reply>>
        BY <1>1, <2>1 DEF GetLength, FailsEarly, jsVars, cVars, seenVars
      <3>2. CASE Length(result[c]) # Trap /\ Length(result[c]) < 2
        <4>1. Length(result[c]) \in Int
          BY <3>2, LengthType, TransformerAssumption DEF IndInv, TypeOK
        <4>2. \A k \in Int : k < 2 => ~(k >= 2)
          OBVIOUS
        <4>3. ~WellShaped(result[c])
          BY <3>2, <4>1, <4>2 DEF WellShaped
        <4> QED BY <3>1, <3>2, <4>3 DEF Reading
      <3>3. CASE Length(result[c]) = Trap
        BY <3>1, <3>3 DEF WellShaped, Reading
      <3>4. CASE Goes(c, "first") /\ UNCHANGED <<sound, result, reply>>
        BY <3>4 DEF Reading
      <3> QED BY <3>1, <3>2, <3>3, <3>4
    <2>2. CASE GetFirst(c)
      BY <1>1, <2>2 DEF GetFirst, FailsEarly, WellShaped, Reading, jsVars, seenVars
    <2>3. CASE GetSecond(c)
      BY <1>1, <2>3 DEF GetSecond, SecondIs, FailsLate, WellShaped, Reading, seenVars
    <2> QED BY <2>1, <2>2, <2>3
  <1>3. CASE ~WellShaped(result[c]) /\ (Ends \/ Fails(c))
    BY <1>1, <1>3, NoGoodWhen, EndsIsEnd, FailsIsRefusal
  <1>4. CASE \E l \in Reading : Goes(c, l) /\ UNCHANGED <<sound, result, reply>>
    BY <1>1, <1>4, StaysInside DEF Goes
  <1> QED BY <1>2, <1>3, <1>4

LEMMA LineServed ==
    ASSUME IndInv, NEW c \in Callers, GetLine(c) \/ LastLine(c)
    PROVE  [Served!Next]_Served!handlers
  <1>1. pc[c] = "line" /\ Last(stack[c]) = result[c].items[2] /\ GotSecond(c)
    BY DEF GetLine, LastLine, IndInv, StackShape, ShapeAt, ResultCopied, Copying
  <1>2. CASE LastLine(c)
    BY <1>1, <1>2, StaysInside DEF LastLine, Goes, cVars, seenVars, Reading
  <1>3. CASE GetLine(c)
    <2> DEFINE y == At(result[c], 2)
               n == Len(out[c].lines) + 1
    <2>1. y = Last(stack[c])
      <3>1. 2 \in DOMAIN result[c].items
        BY <1>1 DEF GotSecond, At, Undefined
      <3> QED BY <1>1, <3>1 DEF At
    <2>2. n \in 1 .. Length(y)
      <3>1. Len(out[c].lines) \in Nat /\ out[c].nlines \in Int
        BY DEF IndInv, TypeOK
      <3>2. Len(out[c].lines) < out[c].nlines /\ out[c].nlines = Length(y)
        BY <1>1, <1>3 DEF GetLine, GotSecond
      <3> QED BY <3>1, <3>2
    <2>3. CASE /\ At(y, n) = Trap \/ At(y, n).type # "string"
               /\ Ends \/ Fails(c)
      <3>1. ~WellShaped(result[c])
        BY <2>2, <2>3 DEF WellShaped
      <3> QED BY <1>1, <2>3, <3>1, NoGoodWhen, EndsIsEnd, FailsIsRefusal DEF Reading
    <2>4. CASE UNCHANGED <<sound, pc, result, reply>>
      BY <2>4 DEF Served!handlers, Phase, Answered
    <2> QED BY <1>3, <2>1, <2>3, <2>4 DEF GetLine, LineIs, FailsLate, seenVars
  <1> QED BY <1>2, <1>3

\* The answer is the whole of a result that has the right shape.
LEMMA TakenServed ==
    ASSUME IndInv, LongEnough, NEW c \in Callers, Taken(c)
    PROVE  Served!Next
  <1> DEFINE v == result[c]
             y == At(v, 2)
             w == [r \in {s \in Results : WellShaped(s)} |-> AnswerTo(r)]
  <1>1. /\ pc[c] = "from" /\ GotFirst(c) /\ GotSecond(c)
        /\ Len(out[c].lines) = out[c].nlines /\ out[c].nlines \in Nat
        /\ out[c].lines \in Seq(Strings)
    <2>1. pc[c] = "from" /\ GotFirst(c) /\ GotSecond(c) /\ out[c].nlines >= 0
      BY DEF Taken, IndInv, ResultCopied, Copying
    <2>2. out[c].nlines \in Int /\ out[c].lines \in Seq(Strings)
      BY DEF IndInv, TypeOK
    <2>3. Len(out[c].lines) = out[c].nlines
      BY AllCopied
    <2> QED BY <2>1, <2>2, <2>3
  <1>2. /\ pc'[c] = "return" /\ UNCHANGED <<sound, result>>
        /\ reply'[c] = [error |-> FALSE, acc |-> out[c].accumulator, lines |-> out[c].lines]
        /\ \A d \in Callers \ {c} : pc'[d] = pc[d] /\ reply'[d] = reply[d]
    BY DEF Taken, Goes, jsVars, IndInv, TypeOK
  <1>3. Len(out[c].lines) = Length(y)
    BY <1>1 DEF GotSecond
  <1>4. \A i \in 1 .. Length(y) : At(y, i) # Trap /\ At(y, i).type = "string"
                                  /\ out[c].lines[i] = Cut[At(y, i).text]
    BY <1>1, <1>3 DEF GotSecond
  <1>5. v \in Results /\ WellShaped(v)
    <2>1. v \in Results /\ Length(v) # Trap /\ Length(v) >= 2
      BY <1>1 DEF LongEnough, Reading
    <2>2. Length(y) # Trap /\ Length(y) >= 0
      BY <1>1, <1>3, TransformerAssumption DEF TransformerAssumption
    <2> QED BY <1>1, <1>4, <2>1, <2>2 DEF WellShaped, GotFirst, GotSecond
  <1>6. out[c].lines = [i \in 1 .. Length(y) |-> Cut[At(y, i).text]]
    BY <1>1, <1>3, <1>4
  <1>7. reply'[c] = AnswerTo(v)
    BY <1>1, <1>2, <1>6 DEF AnswerTo, GotFirst
  <1>8. v \in DOMAIN w /\ reply'[c] = w[v]
    BY <1>5, <1>7
  <1>9. Phase[c] = "returned" /\ Phase'[c] = "answered" /\ Answered'[c] = w[v]
    BY <1>1, <1>2, <1>8 DEF Phase, Answered
  <1> HIDE DEF w
  <1>a. Phase' = [Phase EXCEPT ![c] = "answered"]
    BY <1>2, <1>9, PhaseMoves
  <1>b. Answered' = [Answered EXCEPT ![c] = w[v]]
    BY <1>2, <1>9, AnswerMoves
  <1> USE DEF w
  <1>c. Served!Answers(c)
    BY <1>2, <1>8, <1>9, <1>a, <1>b DEF Served!Answers
  <1> QED BY <1>c DEF Served!Next

LEMMA FromServed ==
    ASSUME IndInv, LongEnough, NEW c \in Callers, From(c)
    PROVE  Served!Next
  <1>1. CASE out[c].nlines < 0 /\ Ends
    <2>1. pc[c] = "from" /\ GotSecond(c)
      BY DEF From, Taken, IndInv, ResultCopied, Copying
    <2>2. out[c].nlines \in Int /\ out[c].nlines = Length(At(result[c], 2))
      BY <2>1 DEF GotSecond, IndInv, TypeOK
    <2>3. ~(Length(At(result[c], 2)) >= 0)
      BY <1>1, <2>2
    <2>4. ~WellShaped(result[c])
      BY <2>3 DEF WellShaped
    <2> QED BY <1>1, <2>1, <2>4, NoGoodWhen, EndsIsEnd DEF Reading
  <1> QED BY <1>1, TakenServed DEF From

LEMMA BackServed ==
    ASSUME IndInv, NEW c \in Callers, Return(c)
    PROVE  Served!Next
  <1>1. /\ pc[c] \in {"return", "failed"} /\ pc'[c] = "idle" /\ UNCHANGED <<sound, result>>
        /\ reply'[c] = (IF pc[c] = "failed" THEN ErrorReply ELSE reply[c])
        /\ \A d \in Callers \ {c} : pc'[d] = pc[d] /\ reply'[d] = reply[d]
    BY DEF Return, Goes, jsVars, IndInv, TypeOK
  <1>2. Phase[c] = "answered" /\ Phase'[c] = "idle" /\ Answered'[c] = Answered[c]
    BY <1>1 DEF Phase, Answered
  <1>3. Phase' = [Phase EXCEPT ![c] = "idle"]
    BY <1>1, <1>2, PhaseMoves
  <1>4. Answered' = [Answered EXCEPT ![c] = Answered[c]]
    BY <1>1, <1>2, AnswerMoves
  <1>5. Answered' = Answered
    BY <1>4 DEF Answered
  <1>6. Served!Back(c)
    BY <1>1, <1>2, <1>3, <1>5 DEF Served!Back
  <1> QED BY <1>6 DEF Served!Next

\* JS.Transform serves its callers as ScriptCalls says: until an error text
\* overruns its block, a result of the right shape is always answered in full,
\* and only a script without one is refused or ends the process.
THEOREM CallsServed == Spec => ServesCalls
  <1>1. Init => Served!Init
    <2>1. ASSUME Init
          PROVE  /\ Phase = [c \in Callers |-> "idle"]
                 /\ Answered = [c \in Callers |-> NoReply]
      BY <2>1 DEF Init, Phase, Answered
    <2> QED BY <2>1 DEF Init, Served!Init
  <1>2. Init => LongEnough
    BY DEF Init, LongEnough, Reading
  <1>3. IndInv /\ LongEnough /\ [Next]_vars => LongEnough'
    BY NextLong
  <1>4. IndInv /\ LongEnough /\ [Next]_vars => [Served!Next]_Served!handlers
    <2> SUFFICES ASSUME IndInv, LongEnough, [Next]_vars
                 PROVE  [Served!Next]_Served!handlers
      OBVIOUS
    <2>1. ASSUME NEW c \in Callers, NEW input \in Inputs, Begin(c, input)
          PROVE  [Served!Next]_Served!handlers
      BY <2>1, BeginServed
    <2>2. ASSUME NEW c \in Callers,
                 \/ \E m \in Methods : Eval(c, m)
                 \/ CopyIn(c) \/ PushArgs(c)
          PROVE  [Served!Next]_Served!handlers
      <3>1. /\ pc[c] \in {"eval", "copy", "method", "args", "call"}
            /\ \E l \in {"copy", "method", "args", "call"} : Goes(c, l)
            /\ UNCHANGED <<sound, result, reply>>
        BY <2>2 DEF Eval, CopyIn, PushArgs, jsVars, cVars, seenVars
      <3> QED BY <3>1, StaysInside DEF Goes
    <2>3. ASSUME NEW c \in Callers, Step(c)
          PROVE  [Served!Next]_Served!handlers
      BY <2>2, <2>3, ReturnsServed, MethodServed, DamageServed, ReadServed, LineServed,
         FromServed, BackServed DEF Step
    <2>5. ASSUME NEW c \in Callers, Spins(c)
          PROVE  [Served!Next]_Served!handlers
      BY <2>5 DEF Spins, cVars, seenVars, Served!handlers, Phase, Answered
    <2>6. CASE WildEnds
      BY <2>6, EndsIsEnd DEF WildEnds
    <2>4. CASE UNCHANGED vars
      BY <2>4 DEF vars, Served!handlers, Phase, Answered
    <2> QED BY <2>1, <2>3, <2>4, <2>5, <2>6, WildServed DEF Next, Rest
  <1> QED
    BY <1>1, <1>2, <1>3, <1>4, Inductive, PTL DEF Spec, ServesCalls, Served!Spec
=============================================================================
