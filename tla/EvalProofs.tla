----------------------------- MODULE EvalProofs -----------------------------
(***************************************************************************)
(* Theorems about Eval, for any programs the parser can build, any number  *)
(* of them and any names: pointers stay inside the heap, Contexts match    *)
(* the calls that are under way, every body finds its arguments, a scope   *)
(* is written by its own call only, and environments are used only as Env  *)
(* says.                                                                   *)
(***************************************************************************)
EXTENDS EvalMemoryProofs

Kinds == {"head", "again", "and", "or", "if", "FUNCALL", "APPLY", "args", "car", "cdr",
          "call", "program"}

Frames == [k : Kinds, a : Ref, args : Ref]

ControlOK == ctl \in [op : Steps, a : Ref, b : Ref] /\ kont \in Seq(Frames)

ContextsOK == ctxs \in Seq(Envs) /\ ContextsMatchCalls

(* The parameters and the arguments of the innermost call, and what the    *)
(* i-th parameter is called.                                               *)
Params == Cells(First(Top.a))
Args   == Cells(Top.args)
Name(i) == heap[First(Params[i])].symbol

(* The first n parameters have been bound: each name finds the last of     *)
(* their arguments.                                                        *)
Bound(n) ==
    \A i \in 1 .. n :
      (\A j \in i + 1 .. n : Name(j) # Name(i)) =>
        Binder(CurEnv, Name(i)) # NoEnv /\ EnvLookup(CurEnv, Name(i)) = First(Args[i])

(* A call that is binding its parameters has walked both lists to the same *)
(* position.                                                               *)
Binding ==
    /\ kont # <<>> /\ Top.k = "call" /\ Kind(Top.a) = "LAMBDA"
    /\ First(Top.a) \in DOMAIN heap /\ Top.args \in DOMAIN heap
    /\ Len(Params) = Len(Args)
    /\ \E j \in 1 .. Len(Params) : ctl.a = Params[j] /\ ctl.b = Args[j] /\ Bound(j - 1)

BindOK == At("bind") => Binding

(* The expressions of a body that are still to come are behind its first.  *)
WaitsInBody(i) == i > 1 /\ kont[i].k = "program" /\ kont[i - 1].k = "call"

BodyOK ==
    /\ BodySeesItsArguments
    /\ At("program") /\ kont # <<>> /\ Top.k = "call" => ctl.a <= Rest(Top.a)
    /\ \A i \in DOMAIN kont : WaitsInBody(i) => kont[i].a <= Rest(kont[i - 1].a)

SessionOK == files \in 0 .. MaxFiles /\ lines \in 0 .. MaxLines /\ interactive \in BOOLEAN

EvalInv ==
    /\ MemOK
    /\ ControlOK
    /\ ContextsOK
    /\ BindOK
    /\ BodyOK
    /\ SessionOK

-----------------------------------------------------------------------------
(* The initial state.                                                      *)
LEMMA EvalInitOK == EvalInit => EvalInv
<1> SUFFICES ASSUME EvalInit PROVE EvalInv
  OBVIOUS
<1> USE DEF EvalInit
<1>1. HeapOK
  <2>1. heap = StaticNodes /\ Len(heap) = 2 /\ DOMAIN heap = {1, 2}
    BY DEF StaticNodes
  <2>2. IsSequence(heap)
    BY <2>1 DEF IsSequence, StaticNodes
  <2>3. heap[1].type = "NIL" /\ heap[2].type = "SYMBOL"
    BY DEF StaticNodes, ConsSymbol
  <2>4. \A r \in DOMAIN heap : NodeOK(heap[r], r)
    BY <2>1, <2>3 DEF NodeOK, Types, NIL, T
  <2>5. ProperLists(heap, {})
    BY DEF ProperLists
  <2>6. \A r \in DOMAIN heap : heap[r].type # "LAMBDA"
    BY <2>1, <2>3
  <2> QED
    BY <2>1, <2>2, <2>4, <2>5, <2>6 DEF HeapOK, NIL, T
<1>2. EnvsOK
  <2>1. <<1>> \o <<>> = <<1>>
    OBVIOUS
  <2>2. envs = <<[chain |-> <<1>>, vals |-> [s \in {} |-> s]]>>
    BY <2>1 DEF EnvInit, NewEnv
  <2>3. [s \in {} |-> s] \in Bindings(Nat)
    <3>1. [s \in {} |-> s] \in [{} -> Nat]
      OBVIOUS
    <3> QED
      BY <3>1 DEF Bindings
  <2>4. [chain |-> <<1>>, vals |-> [s \in {} |-> s]] \in Environment
    BY <2>3 DEF Environment
  <2>5. envs \in Seq(Environment) /\ Len(envs) = 1
    BY <2>2, <2>4
  <2>6. envs[1].chain = <<1>> /\ DOMAIN envs[1].vals = {}
    BY <2>2
  <2> QED
    BY <2>5, <2>6 DEF EnvsOK, Envs, ActivationsBelowGlobal, Global
<1>3. MemOK
  BY <1>1, <1>2 DEF MemOK, FreedOK
<1>4. ControlOK
  <2>1. <<>> \in Seq(Frames)
    OBVIOUS
  <2> QED
    BY <1>1, <2>1, HeapFacts DEF ControlOK, Idle, Ctl, Steps, Ref, NULL
<1>5. ContextsOK
  <2>1. ctxs = <<Global>> /\ kont = <<>> /\ Global \in Envs
    BY <1>2 DEF EnvsOK
  <2>2. Activations = {}
    BY <2>1 DEF Activations
  <2>3. Cardinality(Activations) = 0
    BY <2>2, FS_EmptySet
  <2> QED
    BY <2>1, <2>3 DEF ContextsOK, ContextsMatchCalls
<1>6. BindOK /\ BodyOK
  BY DEF BindOK, BodyOK, BodySeesItsArguments, At, Idle, Ctl
<1>7. SessionOK
  BY SessionAssumption DEF SessionOK
<1> QED
  BY <1>3, <1>4, <1>5, <1>6, <1>7 DEF EvalInv

-----------------------------------------------------------------------------
(* Frames.                                                                 *)

(* The innermost frame is one.                                             *)
LEMMA TopFacts ==
    ASSUME ControlOK, kont # <<>>
    PROVE  /\ Len(kont) \in Nat \ {0} /\ DOMAIN kont = 1 .. Len(kont)
           /\ Top \in Frames /\ Top = kont[Len(kont)]
           /\ Pop \in Seq(Frames) /\ Len(Pop) = Len(kont) - 1
           /\ \A i \in 1 .. Len(kont) - 1 : Pop[i] = kont[i]
<1>1. kont \in Seq(Frames)
  BY DEF ControlOK
<1>2. Len(kont) \in Nat \ {0} /\ DOMAIN kont = 1 .. Len(kont)
  BY <1>1, EmptySeq, LenProperties
<1>3. Top \in Frames
  BY <1>1, <1>2, ElementOfSeq DEF Top
<1> QED
  BY <1>1, <1>2, <1>3, PopFacts DEF Top, Pop

CallsOf(frames) == {i \in DOMAIN frames : frames[i].k = "call"}

(* What most steps do with the frames: keep them, add one, return from one *)
(* or put another in its place, none of them a call of a lambda.           *)
Reframes(frames) ==
    \/ frames = kont
    \/ \E f \in Frames : f.k \notin {"call", "program"} /\ frames = Append(kont, f)
    \/ /\ kont # <<>> /\ Top.k # "call"
       /\ \/ frames = Pop
          \/ \E f \in Frames : f.k \notin {"call", "program"} /\ frames = Append(Pop, f)

(* Then the calls stay, and so do the expressions of their bodies.         *)
LEMMA ReframesOK ==
    ASSUME ControlOK, NEW frames, Reframes(frames)
    PROVE  /\ frames \in Seq(Frames)
           /\ CallsOf(frames) = Activations
           /\ \A i \in DOMAIN frames :
                i > 1 /\ frames[i].k = "program" /\ frames[i - 1].k = "call" =>
                  i \in DOMAIN kont /\ i - 1 \in DOMAIN kont
                  /\ frames[i] = kont[i] /\ frames[i - 1] = kont[i - 1]
<1>1. kont \in Seq(Frames) /\ Len(kont) \in Nat /\ DOMAIN kont = 1 .. Len(kont)
  BY LenProperties DEF ControlOK
<1>2. CASE frames = kont
  BY <1>1, <1>2 DEF CallsOf, Activations
<1>3. ASSUME NEW f \in Frames, f.k \notin {"call", "program"}, frames = Append(kont, f)
      PROVE  /\ frames \in Seq(Frames) /\ CallsOf(frames) = Activations
             /\ DOMAIN frames = 1 .. Len(kont) + 1 /\ frames[Len(kont) + 1] = f
             /\ \A i \in 1 .. Len(kont) : frames[i] = kont[i]
  <2>1. /\ frames \in Seq(Frames) /\ Len(frames) = Len(kont) + 1
        /\ frames[Len(kont) + 1] = f
        /\ \A i \in 1 .. Len(kont) : frames[i] = kont[i]
    BY <1>1, <1>3, AppendFacts
  <2>2. DOMAIN frames = 1 .. Len(kont) + 1
    BY <2>1, LenProperties
  <2> QED
    BY <1>1, <1>3, <2>1, <2>2 DEF CallsOf, Activations
<1>4. ASSUME kont # <<>>, Top.k # "call", frames = Pop
      PROVE  frames \in Seq(Frames) /\ CallsOf(frames) = Activations
  <2>1. /\ frames \in Seq(Frames) /\ Len(frames) = Len(kont) - 1 /\ Len(kont) \in Nat \ {0}
        /\ \A i \in 1 .. Len(kont) - 1 : frames[i] = kont[i]
        /\ kont[Len(kont)].k # "call"
    BY <1>4, TopFacts
  <2>2. DOMAIN frames = 1 .. Len(kont) - 1
    BY <2>1, LenProperties
  <2> QED
    BY <1>1, <2>1, <2>2 DEF CallsOf, Activations
<1>5. ASSUME kont # <<>>, Top.k # "call",
             NEW f \in Frames, f.k \notin {"call", "program"}, frames = Append(Pop, f)
      PROVE  /\ frames \in Seq(Frames) /\ CallsOf(frames) = Activations
             /\ DOMAIN frames = 1 .. Len(kont) /\ frames[Len(kont)] = f
             /\ \A i \in 1 .. Len(kont) - 1 : frames[i] = kont[i]
  <2>1. /\ Pop \in Seq(Frames) /\ Len(Pop) = Len(kont) - 1 /\ Len(kont) \in Nat \ {0}
        /\ \A i \in 1 .. Len(kont) - 1 : Pop[i] = kont[i]
        /\ kont[Len(kont)].k # "call"
    BY <1>5, TopFacts
  <2>2. /\ frames \in Seq(Frames) /\ Len(frames) = Len(Pop) + 1
        /\ frames[Len(Pop) + 1] = f
        /\ \A i \in 1 .. Len(Pop) : frames[i] = Pop[i]
    BY <1>5, <2>1, AppendFacts
  <2>3. DOMAIN frames = 1 .. Len(kont) /\ frames[Len(kont)] = f
        /\ \A i \in 1 .. Len(kont) - 1 : frames[i] = kont[i]
    BY <2>1, <2>2, LenProperties
  <2>4. \A i \in 1 .. Len(kont) : frames[i].k = "call" <=> kont[i].k = "call"
    <3> TAKE i \in 1 .. Len(kont)
    <3>1. CASE i = Len(kont)
      BY <1>5, <2>1, <2>3, <3>1
    <3>2. CASE i # Len(kont)
      BY <2>1, <2>3, <3>2
    <3> QED
      BY <3>1, <3>2
  <2>5. CallsOf(frames) = Activations
    BY <1>1, <2>3, <2>4 DEF CallsOf, Activations
  <2> QED
    BY <2>2, <2>3, <2>5
<1> DEFINE Below == \A i \in DOMAIN frames :
                      i > 1 /\ frames[i].k = "program" /\ frames[i - 1].k = "call" =>
                        i \in DOMAIN kont /\ i - 1 \in DOMAIN kont
                        /\ frames[i] = kont[i] /\ frames[i - 1] = kont[i - 1]
           Fine == frames \in Seq(Frames) /\ CallsOf(frames) = Activations /\ Below
<1>6. frames = kont => Fine
  BY <1>1, <1>2
<1>7. ASSUME NEW f \in Frames, f.k \notin {"call", "program"}, frames = Append(kont, f)
      PROVE  Fine
  BY <1>1, <1>3, <1>7
<1>8. kont # <<>> /\ Top.k # "call" /\ frames = Pop => Fine
  <2> SUFFICES ASSUME kont # <<>>, Top.k # "call", frames = Pop PROVE Below
    BY <1>4
  <2>1. /\ Len(frames) = Len(kont) - 1 /\ frames \in Seq(Frames)
        /\ \A i \in 1 .. Len(kont) - 1 : frames[i] = kont[i]
    BY TopFacts
  <2>2. DOMAIN frames = 1 .. Len(kont) - 1
    BY <2>1, LenProperties
  <2> QED
    BY <1>1, <2>1, <2>2
<1>9. ASSUME kont # <<>>, Top.k # "call",
             NEW f \in Frames, f.k \notin {"call", "program"}, frames = Append(Pop, f)
      PROVE  Fine
  <2>1. /\ frames \in Seq(Frames) /\ CallsOf(frames) = Activations
        /\ DOMAIN frames = 1 .. Len(kont) /\ frames[Len(kont)] = f
        /\ \A i \in 1 .. Len(kont) - 1 : frames[i] = kont[i]
    BY <1>5, <1>9
  <2>2. ASSUME NEW i \in DOMAIN frames, i > 1, frames[i].k = "program"
        PROVE  i \in 1 .. Len(kont) - 1 /\ i - 1 \in 1 .. Len(kont) - 1
    <3>1. i # Len(kont)
      BY <1>9, <2>1, <2>2
    <3> QED
      BY <1>1, <2>1, <2>2, <3>1
  <2>3. Below
    BY <1>1, <2>1, <2>2
  <2> QED
    BY <2>1, <2>3
<1> QED
  BY <1>6, <1>7, <1>8, <1>9 DEF Reframes

-----------------------------------------------------------------------------
(* The kinds of step.                                                      *)

Running == Steps \ {"prompt", "undefined", "exit", "bind", "program"}

(* The evaluator goes on somewhere, in the same call.                      *)
GoesOn ==
    \E op \in Running : \E a \in MaybeRef' : \E b \in MaybeRef' : \E frames :
      Reframes(frames) /\ Go(op, a, b, frames)

(* Such a step keeps everything.                                           *)
LEMMA GoesOnOK ==
    ASSUME EvalInv, MemOK', Grown, Len(envs') = Len(envs), GoesOn
    PROVE  EvalInv'
<1>0. PICK op \in Running, a \in MaybeRef', b \in MaybeRef' :
             \E frames : Reframes(frames) /\ Go(op, a, b, frames)
  BY DEF GoesOn
<1>1. PICK frames : Reframes(frames) /\ Go(op, a, b, frames)
  BY <1>0
<1>2. /\ ctl' = IF Undef \in {a, b} THEN Crashed ELSE Ctl(op, a, b)
      /\ kont' = frames /\ ctxs' = ctxs
      /\ files' = files /\ lines' = lines /\ interactive' = interactive
  BY <1>1 DEF Go, session
<1>3. Len(heap) \in Nat /\ Len(heap') \in Nat /\ Ref \subseteq Ref' /\ Len(heap') >= Len(heap)
  <2>1. Len(heap) \in Nat
    BY HeapFacts DEF EvalInv, MemOK
  <2>2. Len(heap') \in Nat
    BY LenProperties DEF MemOK, HeapOK, IsSequence
  <2> QED
    BY <2>1, <2>2 DEF Grown, Ref
<1>4. /\ frames \in Seq(Frames) /\ CallsOf(frames) = Activations
      /\ \A i \in DOMAIN frames :
            i > 1 /\ frames[i].k = "program" /\ frames[i - 1].k = "call" =>
              i \in DOMAIN kont /\ i - 1 \in DOMAIN kont
              /\ frames[i] = kont[i] /\ frames[i - 1] = kont[i - 1]
  BY <1>1, ReframesOK DEF EvalInv
<1>5. /\ ctl' \in [op : Steps, a : Ref', b : Ref']
      /\ ctl'.op \notin {"prompt", "exit", "bind", "program"}
      /\ ctl' \notin {Idle, Exited}
  <2>1. CASE Undef \in {a, b}
    <3>1. ctl' = Crashed /\ NULL \in Ref'
      BY <1>2, <1>3, <2>1 DEF Ref, NULL
    <3> QED
      BY <3>1 DEF Crashed, Idle, Exited, Ctl, Steps
  <2>2. CASE Undef \notin {a, b}
    <3>1. ctl' = Ctl(op, a, b) /\ a \in Ref' /\ b \in Ref'
      BY <1>2, <2>2 DEF MaybeRef, Ref
    <3> QED
      BY <3>1 DEF Idle, Exited, Ctl, Running
  <2> QED
    BY <2>1, <2>2
<1>6. ControlOK'
  <2>1. Frames \subseteq Frames'
    BY <1>3 DEF Frames
  <2>2. kont' \in Seq(Frames')
    BY <1>2, <1>4, <2>1, SeqMonotonic
  <2> QED
    BY <1>5, <2>2 DEF ControlOK
<1>7. ContextsOK'
  <2>1. Activations' = Activations
    BY <1>2, <1>4 DEF CallsOf, Activations
  <2>2. Envs' = Envs
    BY DEF Envs
  <2> QED
    BY <1>2, <1>5, <2>1, <2>2 DEF EvalInv, ContextsOK, ContextsMatchCalls
<1>8. BindOK'
  BY <1>5 DEF BindOK, At
<1>9. BodyOK'
  <2>1. ~ At("program")'
    BY <1>5 DEF At
  <2>2. ASSUME NEW i \in DOMAIN kont', WaitsInBody(i)'
        PROVE  (kont[i].a <= Rest(kont[i - 1].a))'
    <3>1. /\ i \in DOMAIN kont /\ i - 1 \in DOMAIN kont
          /\ kont'[i] = kont[i] /\ kont'[i - 1] = kont[i - 1]
      BY <1>2, <1>4, <2>2 DEF WaitsInBody
    <3>2. kont[i].a <= Rest(kont[i - 1].a)
      BY <2>2, <3>1 DEF EvalInv, BodyOK, WaitsInBody
    <3>3. kont[i - 1].a \in Ref
      <4>1. kont[i - 1] \in Frames
        BY <3>1, ElementOfSeq, LenProperties DEF EvalInv, ControlOK
      <4> QED
        BY <4>1 DEF Frames
    <3>4. PICK r \in Ref : r = kont[i - 1].a
      BY <3>3
    <3>5. Rest(r)' = Rest(r)
      BY NodesStay DEF EvalInv, MemOK
    <3>6. Rest(kont[i - 1].a)' = Rest(r)'
      BY <3>1, <3>4 DEF Rest, Kind
    <3> QED
      BY <3>1, <3>2, <3>4, <3>5, <3>6
  <2> QED
    BY <2>1, <2>2 DEF BodyOK, BodySeesItsArguments
<1>10. SessionOK'
  BY <1>2 DEF EvalInv, SessionOK
<1> QED
  BY <1>6, <1>7, <1>8, <1>9, <1>10 DEF EvalInv

(* raise() keeps everything: it unwinds to the state between two programs. *)
LEMMA RaiseOK ==
    ASSUME EvalInv, UNCHANGED mem, NEW e, Raise(e)
    PROVE  EvalInv'
<1>1. /\ ctl' = Idle /\ kont' = <<>> /\ ctxs' = <<Global>> /\ files' = 0
      /\ lines' = lines /\ interactive' = interactive
  BY DEF Raise
<1>2. MemOK' /\ Grown /\ Len(envs') = Len(envs)
  BY MemStays DEF EvalInv
<1>3. ControlOK'
  <2>1. <<>> \in Seq(Frames')
    OBVIOUS
  <2>2. NULL \in Ref'
    BY <1>2, HeapFacts DEF Ref, NULL, MemOK, Grown, EvalInv, HeapOK, mem
  <2> QED
    BY <1>1, <2>1, <2>2 DEF ControlOK, Idle, Ctl, Steps
<1>4. ContextsOK'
  <2>1. Activations' = {}
    BY <1>1 DEF Activations
  <2>2. Cardinality(Activations') = 0
    BY <2>1, FS_EmptySet
  <2>3. Global \in Envs'
    BY <1>2 DEF MemOK, EnvsOK
  <2>4. ctxs' \in Seq(Envs') /\ Len(ctxs') = 1 /\ DOMAIN ctxs' = {1} /\ ctxs'[1] = Global
    BY <1>1, <2>3
  <2> QED
    BY <1>1, <2>2, <2>4 DEF ContextsOK, ContextsMatchCalls
<1>5. BindOK' /\ BodyOK'
  BY <1>1 DEF BindOK, BodyOK, BodySeesItsArguments, At, Idle, Ctl, WaitsInBody
<1>6. SessionOK'
  BY <1>1, SessionAssumption DEF SessionOK, EvalInv
<1> QED
  BY <1>2, <1>3, <1>4, <1>5, <1>6 DEF EvalInv

(* So does stopping in undefined behaviour.                                *)
LEMMA CrashOK ==
    ASSUME EvalInv, Crash
    PROVE  EvalInv'
<1>1. /\ ctl' = Crashed /\ kont' = kont /\ ctxs' = ctxs
      /\ files' = files /\ lines' = lines /\ interactive' = interactive
      /\ heap' = heap /\ freed' = freed /\ envs' = envs
  BY DEF Crash, session, mem
<1>2. MemOK'
  BY <1>1, MemStays DEF EvalInv, mem
<1>3. Ref' = Ref /\ Envs' = Envs /\ NULL \in Ref
  BY <1>1, HeapFacts DEF Ref, Envs, NULL, EvalInv, MemOK
<1>4. ctl' \in [op : Steps, a : Ref', b : Ref'] /\ ctl'.op = "undefined" /\ ctl' \notin {Idle, Exited}
  BY <1>1, <1>3 DEF Crashed, Idle, Exited, Ctl, Steps
<1>5. ControlOK'
  BY <1>1, <1>3, <1>4 DEF EvalInv, ControlOK, Frames
<1>6. ContextsOK'
  BY <1>1, <1>3, <1>4 DEF EvalInv, ContextsOK, ContextsMatchCalls, Activations
<1>7. BindOK'
  BY <1>4 DEF BindOK, At
<1>8. BodyOK'
  <2>1. \A i : WaitsInBody(i)' = WaitsInBody(i) /\ Rest(kont[i - 1].a)' = Rest(kont[i - 1].a)
    BY <1>1 DEF WaitsInBody, Rest, Kind
  <2> QED
    BY <1>1, <1>4, <2>1 DEF EvalInv, BodyOK, BodySeesItsArguments, At
<1>9. SessionOK'
  BY <1>1 DEF EvalInv, SessionOK
<1> QED
  BY <1>2, <1>5, <1>6, <1>7, <1>8, <1>9 DEF EvalInv

-----------------------------------------------------------------------------
(* The steps that leave memory alone.                                      *)

(* Whatever the machine holds is a pointer to a node, NULL or garbage.     *)
LEMMA Pointers ==
    ASSUME EvalInv
    PROVE  /\ Ref \subseteq MaybeRef /\ {NULL, NIL, T, Undef} \subseteq MaybeRef
           /\ ctl.a \in Ref /\ ctl.b \in Ref /\ Undef \notin Ref
           /\ \A r : First(r) \in MaybeRef /\ Rest(r) \in MaybeRef
           /\ kont # <<>> => Top.k \in Kinds /\ Top.a \in Ref /\ Top.args \in Ref
<1>1. HeapOK /\ ControlOK
  BY DEF EvalInv, MemOK
<1>2. \A r : First(r) \in MaybeRef /\ Rest(r) \in MaybeRef
  BY <1>1, FirstRest DEF MaybeRef
<1>3. kont # <<>> => Top \in Frames
  BY <1>1, TopFacts
<1> QED
  BY <1>1, <1>2, <1>3, HeapFacts DEF Ref, MaybeRef, NULL, NIL, T, Undef, ControlOK, Frames

(* The environment of the innermost call exists.                           *)
LEMMA CurEnvOK ==
    ASSUME EvalInv
    PROVE  /\ Len(ctxs) \in Nat \ {0} /\ DOMAIN ctxs = 1 .. Len(ctxs) /\ ctxs[1] = Global
           /\ CurEnv \in Envs
<1>1. Activations \subseteq 1 .. Len(kont) /\ Len(kont) \in Nat
  BY LenProperties DEF EvalInv, ControlOK, Activations
<1>2. Cardinality(Activations) \in Nat
  <2>1. IsFiniteSet(1 .. Len(kont))
    BY <1>1, FS_Interval
  <2>2. IsFiniteSet(Activations)
    BY <1>1, <2>1, FS_Subset
  <2> QED
    BY <2>2, FS_CardinalityType
<1>3. ctxs \in Seq(Envs) /\ Len(ctxs) = 1 + Cardinality(Activations) /\ ctxs[1] = Global
  BY DEF EvalInv, ContextsOK, ContextsMatchCalls
<1> QED
  BY <1>2, <1>3, ElementOfSeq, LenProperties DEF CurEnv

(* What the actions that only move control add up to.                      *)
Moves == UNCHANGED mem /\ (GoesOn \/ (\E e : Raise(e)) \/ Crash)

(* Those keep everything.                                                  *)
LEMMA MovesOK ==
    ASSUME EvalInv, Moves
    PROVE  EvalInv'
  BY MemStays, GoesOnOK, RaiseOK, CrashOK DEF Moves, EvalInv

(* A frame that is no call and no program.                                 *)
LEMMA NewFrame ==
    ASSUME EvalInv, NEW k \in Kinds \ {"call", "program"}, NEW a \in Ref
    PROVE  /\ Frame(k, a) \in Frames /\ Frame(k, a).k \notin {"call", "program"}
           /\ Reframes(Append(kont, Frame(k, a)))
           /\ kont # <<>> /\ Top.k # "call" => Reframes(Append(Pop, Frame(k, a)))
<1>1. NULL \in Ref
  BY HeapFacts DEF Ref, NULL, EvalInv, MemOK
<1>2. Frame(k, a) \in Frames /\ Frame(k, a).k = k
  BY <1>1 DEF Frame, Frames
<1> QED
  BY <1>2 DEF Reframes

(* A step that goes on, where memory stays.                                *)
LEMMA Going1 ==
    ASSUME EvalInv, UNCHANGED mem, NEW op \in Running, NEW a \in MaybeRef, NEW b \in MaybeRef,
           NEW frames, Reframes(frames), Go(op, a, b, frames)
    PROVE  Moves
<1>1. MaybeRef' = MaybeRef
  BY DEF MaybeRef, mem
<1> QED
  BY <1>1 DEF Moves, GoesOn

(* A function returns.                                                     *)
LEMMA ReturnMoves ==
    ASSUME EvalInv, UNCHANGED mem, NEW v \in MaybeRef, Return(v)
    PROVE  Moves
<1>1. NULL \in MaybeRef /\ "return" \in Running /\ Reframes(kont)
  BY Pointers DEF Running, Steps, Reframes
<1> QED
  BY <1>1, Going1 DEF Return

(* A function calls another one.                                           *)
LEMMA CallMoves ==
    ASSUME EvalInv, UNCHANGED mem, NEW k \in Kinds \ {"call", "program"}, NEW a \in Ref,
           NEW op \in Running, NEW x \in MaybeRef, Call(k, a, op, x)
    PROVE  Moves
<1>1. NULL \in MaybeRef /\ Reframes(Append(kont, Frame(k, a)))
  BY Pointers, NewFrame
<1> QED
  BY <1>1, Going1 DEF Call

(* A function gets what it has waited for and goes on.                     *)
LEMMA ResumeMoves ==
    ASSUME EvalInv, UNCHANGED mem, NEW w \in Kinds \ {"call"}, Resume(w),
           NEW op \in Running, NEW a \in MaybeRef, NEW b \in MaybeRef, NEW frames,
           \/ frames = Pop
           \/ \E k \in Kinds \ {"call", "program"} : \E r \in Ref : frames = Append(Pop, Frame(k, r)),
           Go(op, a, b, frames)
    PROVE  Moves
<1>1. kont # <<>> /\ Top.k # "call"
  BY DEF Resume
<1>2. Reframes(frames)
  <2>1. CASE frames = Pop
    BY <1>1, <2>1 DEF Reframes
  <2>2. CASE \E k \in Kinds \ {"call", "program"} : \E r \in Ref : frames = Append(Pop, Frame(k, r))
    BY <1>1, <2>2, NewFrame
  <2> QED
    BY <2>1, <2>2
<1> QED
  BY <1>2, Going1

(* What a symbol resolves to is a node.                                    *)
LEMMA LookupFacts ==
    ASSUME EvalInv, NEW s, Binder(CurEnv, s) # NoEnv
    PROVE  EnvLookup(CurEnv, s) \in Ref
<1>1. EnvsOK /\ CurEnv \in Envs /\ Global \in Envs
  BY CurEnvOK DEF EvalInv, MemOK, EnvsOK
<1>2. Binder(CurEnv, s) \in Envs /\ s \in DOMAIN envs[Binder(CurEnv, s)].vals
  BY <1>1, BinderIsOwnOrGlobal DEF BinderRule
<1> QED
  BY <1>1, <1>2 DEF EnvsOK, EnvLookup

-----------------------------------------------------------------------------
(* eval and the special forms only move control.                           *)
LEMMA EvalMoves ==
    ASSUME EvalInv,
           \/ LookupSymbol \/ EvalAtom \/ EvalLambda \/ EvalHead \/ HeadIsNull
           \/ EvalQuote \/ EvalEval \/ EvalAnd \/ EvalOr \/ EvalIf
    PROVE  Moves
<1>0. /\ Ref \subseteq MaybeRef /\ {NULL, NIL, T, Undef} \subseteq MaybeRef
      /\ ctl.a \in Ref /\ ctl.b \in Ref
      /\ \A r : First(r) \in MaybeRef /\ Rest(r) \in MaybeRef
      /\ kont # <<>> => Top.a \in Ref /\ Top.args \in Ref
  BY Pointers
<1>1. {"eval", "return", "and", "or"} \subseteq Running
  BY DEF Running, Steps
<1>2. {"head", "again", "and", "or", "if"} \subseteq Kinds \ {"call", "program"}
  BY DEF Kinds
<1>3. NULL \in Ref
  BY HeapFacts DEF Ref, NULL, EvalInv, MemOK
<1>a. CASE LookupSymbol
  <2>1. UNCHANGED mem
    BY <1>a DEF LookupSymbol
  <2>2. \/ \E e : Raise(e)
        \/ \E v \in MaybeRef : Return(v)
    BY <1>0, <1>a, LookupFacts DEF LookupSymbol
  <2> QED
    BY <2>1, <2>2, ReturnMoves DEF Moves
<1>b. CASE EvalAtom
  BY <1>0, <1>b, ReturnMoves DEF EvalAtom
<1>c. CASE EvalLambda
  BY <1>0, <1>c, ReturnMoves DEF EvalLambda
<1>d. CASE EvalHead
  <2>1. UNCHANGED mem /\ Call("head", ctl.a, "eval", First(ctl.a))
    BY <1>d DEF EvalHead
  <2> QED
    BY <1>0, <1>1, <1>2, <2>1, CallMoves
<1>e. CASE HeadIsNull
  BY <1>e DEF HeadIsNull, Crash, Moves, mem
<1>f. CASE EvalQuote
  <2>1. UNCHANGED mem /\ Resume("head") /\ Go("return", First(Rest(Top.a)), NULL, Pop)
    BY <1>f DEF EvalQuote
  <2> QED
    BY <1>0, <1>1, <1>2, <2>1, ResumeMoves
<1>g. CASE EvalEval
  <2>1. CASE Resume("head") /\ UNCHANGED mem
             /\ Go("eval", First(Rest(Top.a)), NULL, Append(Pop, Frame("again", NULL)))
    BY <1>0, <1>1, <1>2, <1>3, <2>1, ResumeMoves
  <2>2. CASE Resume("again") /\ UNCHANGED mem /\ Go("eval", ctl.a, NULL, Pop)
    BY <1>0, <1>1, <1>2, <2>2, ResumeMoves
  <2> QED
    BY <1>g, <2>1, <2>2 DEF EvalEval
<1>h. ASSUME NEW form, NEW op \in {"and", "or"}, NEW result \in {T, NULL},
             StartAndOr(form, op, result)
      PROVE  Moves
  <2>1. UNCHANGED mem /\ Resume("head") /\ Go(op, Rest(Top.a), result, Pop)
    BY <1>h DEF StartAndOr
  <2> QED
    BY <1>0, <1>1, <1>2, <2>1, ResumeMoves
<1>i. ASSUME UNCHANGED mem, NEW op \in {"and", "or"}, Call(op, ctl.a, "eval", First(ctl.a))
      PROVE  Moves
  BY <1>0, <1>1, <1>2, <1>i, CallMoves
<1>j. ASSUME UNCHANGED mem, NEW w \in {"and", "or", "if"}, Resume(w), NEW op \in {"and", "or", "return", "eval"},
             NEW a \in MaybeRef, NEW b \in MaybeRef, Go(op, a, b, Pop)
      PROVE  Moves
  BY <1>1, <1>2, <1>j, ResumeMoves
<1>k. CASE EvalAnd
  <2>1. CASE StartAndOr("AND", "and", T)
    BY <1>h, <2>1
  <2>2. CASE UNCHANGED mem /\ Return(ctl.b)
    BY <1>0, <2>2, ReturnMoves
  <2>3. CASE UNCHANGED mem /\ Call("and", ctl.a, "eval", First(ctl.a))
    BY <1>i, <2>3
  <2>4. CASE UNCHANGED mem /\ Resume("and") /\ Go("return", NIL, NULL, Pop)
    BY <1>0, <1>j, <2>4
  <2>5. CASE UNCHANGED mem /\ Resume("and") /\ Go("and", Rest(Top.a), ctl.a, Pop)
    BY <1>0, <1>j, <2>5
  <2> QED
    BY <1>k, <2>1, <2>2, <2>3, <2>4, <2>5 DEF EvalAnd
<1>l. CASE EvalOr
  <2>1. CASE StartAndOr("OR", "or", NULL)
    BY <1>h, <2>1
  <2>2. CASE UNCHANGED mem /\ Return(NIL)
    BY <1>0, <2>2, ReturnMoves
  <2>3. CASE UNCHANGED mem /\ Call("or", ctl.a, "eval", First(ctl.a))
    BY <1>i, <2>3
  <2>4. CASE UNCHANGED mem /\ Resume("or") /\ Go("return", ctl.a, NULL, Pop)
    BY <1>0, <1>j, <2>4
  <2>5. CASE UNCHANGED mem /\ Resume("or") /\ Go("or", Rest(Top.a), NULL, Pop)
    BY <1>0, <1>j, <2>5
  <2> QED
    BY <1>l, <2>1, <2>2, <2>3, <2>4, <2>5 DEF EvalOr
<1>m. CASE EvalIf
  <2>0. UNCHANGED mem
    BY <1>m DEF EvalIf
  <2>1. CASE Resume("head")
             /\ Go("eval", First(Rest(Top.a)), NULL, Append(Pop, Frame("if", Top.a)))
    <3>1. Top.a \in Ref
      BY <1>0, <2>1 DEF Resume
    <3> QED
      BY <1>0, <1>1, <1>2, <2>0, <2>1, <3>1, ResumeMoves
  <2>2. CASE Resume("if") /\ Go("eval", First(Rest(Rest(Top.a))), NULL, Pop)
    BY <1>0, <1>j, <2>0, <2>2
  <2>3. CASE Resume("if") /\ Go("return", NIL, NULL, Pop)
    BY <1>0, <1>j, <2>0, <2>3
  <2>4. CASE Resume("if") /\ Go("eval", First(Rest(Rest(Rest(Top.a)))), NULL, Pop)
    BY <1>0, <1>j, <2>0, <2>4
  <2> QED
    BY <1>m, <2>1, <2>2, <2>3, <2>4 DEF EvalIf
<1> QED
  BY <1>a, <1>b, <1>c, <1>d, <1>e, <1>f, <1>g, <1>k, <1>l, <1>m

(* So do apply() and the refusals of funcall, and the primitives that hand *)
(* on what they are given.                                                 *)
LEMMA ApplyMoves ==
    ASSUME EvalInv,
           \/ Apply \/ ApplyFunction \/ NotAFunction \/ NoArglist
           \/ BuiltinRefused \/ BuiltinList \/ BuiltinFuncall
    PROVE  Moves
<1>0. /\ Ref \subseteq MaybeRef /\ {NULL, NIL, T, Undef} \subseteq MaybeRef
      /\ ctl.a \in Ref /\ ctl.b \in Ref
      /\ \A r : First(r) \in MaybeRef /\ Rest(r) \in MaybeRef
      /\ kont # <<>> => Top.a \in Ref /\ Top.args \in Ref
  BY Pointers
<1>1. {"eval", "return", "list", "funcall"} \subseteq Running
  BY DEF Running, Steps
<1>2. {"head", "args", "FUNCALL", "APPLY"} \subseteq Kinds \ {"call", "program"}
  BY DEF Kinds
<1>a. CASE Apply
  <2>1. UNCHANGED mem /\ Resume("head") /\ Top.a \in Ref
    BY <1>0, <1>a DEF Apply, Resume
  <2>2. CASE \E p \in {"FUNCALL", "APPLY"} : IsPrim(ctl.a, p)
    <3>1. heap[ctl.a].primitive \in {"FUNCALL", "APPLY"}
      BY <2>2 DEF IsPrim
    <3>2. Go("eval", First(Rest(Top.a)), NULL, Append(Pop, Frame(heap[ctl.a].primitive, Top.a)))
      BY <1>a, <2>2 DEF Apply
    <3> QED
      BY <1>0, <1>1, <1>2, <2>1, <3>1, <3>2, ResumeMoves
  <2>3. CASE ~ \E p \in {"FUNCALL", "APPLY"} : IsPrim(ctl.a, p)
    <3>1. Go("list", Rest(Top.a), NULL, Append(Pop, Frame("args", ctl.a)))
      BY <1>a, <2>3 DEF Apply
    <3> QED
      BY <1>0, <1>1, <1>2, <2>1, <3>1, ResumeMoves
  <2> QED
    BY <2>2, <2>3
<1>b. CASE ApplyFunction
  <2>0. UNCHANGED mem
    BY <1>b DEF ApplyFunction
  <2>1. CASE Resume("FUNCALL")
             /\ Go("list", Rest(Rest(Top.a)), NULL, Append(Pop, Frame("args", ctl.a)))
    BY <1>0, <1>1, <1>2, <2>0, <2>1, ResumeMoves
  <2>2. CASE Resume("APPLY")
             /\ Go("eval", First(Rest(Rest(Top.a))), NULL, Append(Pop, Frame("args", ctl.a)))
    BY <1>0, <1>1, <1>2, <2>0, <2>2, ResumeMoves
  <2>3. CASE Resume("args") /\ Go("funcall", Top.a, ctl.a, Pop)
    <3>1. Top.a \in MaybeRef /\ ctl.a \in MaybeRef
      BY <1>0, <2>3 DEF Resume
    <3> QED
      BY <1>1, <1>2, <2>0, <2>3, <3>1, ResumeMoves
  <2> QED
    BY <1>b, <2>1, <2>2, <2>3 DEF ApplyFunction
<1>c. CASE NotAFunction
  BY <1>c DEF NotAFunction, Crash, Moves, mem
<1>d. CASE NoArglist
  BY <1>d DEF NoArglist, Crash, Moves, mem
<1>e. CASE BuiltinRefused
  BY <1>e DEF BuiltinRefused, Moves
<1>f. CASE BuiltinList
  BY <1>0, <1>f, ReturnMoves DEF BuiltinList
<1>g. CASE BuiltinFuncall
  <2>0. UNCHANGED mem
    BY <1>g DEF BuiltinFuncall, Crash, mem
  <2>1. CASE Go("funcall", First(ctl.b), Rest(ctl.b), kont)
    <3>1. Reframes(kont)
      BY DEF Reframes
    <3> QED
      BY <1>0, <1>1, <2>0, <2>1, <3>1, Going1
  <2>2. CASE Raise("INVALID_ARG")
    BY <2>0, <2>2 DEF Moves
  <2>3. CASE Crash
    BY <2>3 DEF Crash, Moves, mem
  <2> QED
    BY <1>g, <2>1, <2>2, <2>3 DEF BuiltinFuncall
<1> QED
  BY <1>a, <1>b, <1>c, <1>d, <1>e, <1>f, <1>g

-----------------------------------------------------------------------------
(* The steps that write memory.                                            *)

(* A step that goes on, where memory has grown.                            *)
LEMMA GoesOnInMemory ==
    ASSUME EvalInv, MemOK', Grown, Len(envs') = Len(envs),
           NEW op \in Running, NEW a \in MaybeRef', NEW frames, Reframes(frames),
           Go(op, a, NULL, frames)
    PROVE  EvalInv'
<1>1. NULL \in MaybeRef'
  BY HeapFacts DEF EvalInv, MemOK, Grown, MaybeRef, NULL, HeapOK, IsSequence
<1>2. GoesOn
  BY <1>1 DEF GoesOn
<1> QED
  BY <1>2, GoesOnOK

(* eval_list conses its cells on the way back.                             *)
LEMMA EvalListOK ==
    ASSUME EvalInv, EvalList
    PROVE  EvalInv'
<1>0. /\ Ref \subseteq MaybeRef /\ {NULL, NIL, T, Undef} \subseteq MaybeRef
      /\ ctl.a \in Ref /\ ctl.b \in Ref
      /\ \A r : First(r) \in MaybeRef /\ Rest(r) \in MaybeRef
      /\ kont # <<>> => Top.a \in Ref /\ Top.args \in Ref
  BY Pointers
<1>1. {"eval", "return", "list"} \subseteq Running
  BY DEF Running, Steps
<1>2. {"car", "cdr"} \subseteq Kinds \ {"call", "program"}
  BY DEF Kinds
<1>a. CASE UNCHANGED mem /\ Return(NIL)
  BY <1>0, <1>a, ReturnMoves, MovesOK
<1>b. CASE UNCHANGED mem /\ Call("car", ctl.a, "eval", First(ctl.a))
  BY <1>0, <1>1, <1>2, <1>b, CallMoves, MovesOK
<1>c. CASE UNCHANGED mem /\ Resume("car")
           /\ Go("list", Rest(Top.a), NULL, Append(Pop, Frame("cdr", ctl.a)))
  BY <1>0, <1>1, <1>2, <1>c, ResumeMoves, MovesOK
<1>d. CASE /\ Resume("cdr")
           /\ heap' = Append(heap, ConsList(Top.a, ctl.a))
           /\ Go("return", Len(heap) + 1, NULL, Pop)
           /\ UNCHANGED <<freed, envs>>
  <2>1. HeapOK /\ MemOK /\ Len(heap) \in Nat
    BY HeapFacts DEF EvalInv, MemOK
  <2>2. Top.a \in Ref /\ ctl.a \in Ref /\ kont # <<>> /\ Top.k # "call"
    BY <1>0, <1>d DEF Resume
  <2> DEFINE n == ConsList(Top.a, ctl.a)
  <2>3. NodeOK(n, Len(heap) + 1) /\ n.type # "LAMBDA"
    BY <2>1, <2>2 DEF NodeOK, Types, ConsList, Ref
  <2>4. heap' = Append(heap, n)
    BY <1>d
  <2> HIDE DEF n
  <2>5. HeapOK' /\ Grown /\ Len(heap') = Len(heap) + 1
    BY <2>1, <2>3, <2>4, NodeAdded
  <2>6. MemOK' /\ Len(envs') = Len(envs)
    BY <1>d, <2>1, <2>5, MemGrows
  <2>7. Len(heap) + 1 \in MaybeRef'
    BY <2>1, <2>5 DEF MaybeRef
  <2>8. Reframes(Pop)
    BY <2>2 DEF Reframes
  <2> QED
    BY <1>1, <1>d, <2>5, <2>6, <2>7, <2>8, GoesOnInMemory
<1> QED
  BY <1>a, <1>b, <1>c, <1>d DEF EvalList

(* A name that may be set is one the environments know.                    *)
LEMMA SettableIsSymbol ==
    ASSUME HeapOK, NEW r, Settable(r)
    PROVE  heap[r].symbol \in Symbols
<1>1. r \in DOMAIN heap /\ heap[r].type = "SYMBOL" /\ r # T
  BY DEF Settable, Kind
<1> QED
  BY <1>1 DEF HeapOK, NodeOK

(* set() writes a node into a name.                                        *)
LEMMA SetWrites ==
    ASSUME EvalInv, BuiltinSet, Settable(First(ctl.b))
    PROVE  heap[First(ctl.b)].symbol \in Symbols /\ First(Rest(ctl.b)) \in Ref
<1>1. HeapOK
  BY DEF EvalInv, MemOK
<1>2. Length(ctl.b) = 2
  BY DEF BuiltinSet, Builtin, Arity
<1>3. ctl.b \in DOMAIN heap
  BY <1>2 DEF Length, Undef
<1>4. Rest(ctl.b) \in DOMAIN heap /\ Rest(Rest(ctl.b)) # NULL
  BY <1>1, <1>2, <1>3, TwoCells
<1>5. Kind(Rest(ctl.b)) \in {"LIST", "LAMBDA"}
  BY <1>1, <1>4, FirstRest
<1>6. First(Rest(ctl.b)) \in 0 .. Rest(ctl.b) - 1
  BY <1>1, <1>5, FirstRest
<1>7. First(Rest(ctl.b)) \in Ref
  BY <1>1, <1>4, <1>6, HeapFacts DEF Ref
<1> QED
  BY <1>1, <1>7, SettableIsSymbol

(* set() writes one binding.                                               *)
LEMMA BuiltinSetOK ==
    ASSUME EvalInv, BuiltinSet
    PROVE  EvalInv'
<1> DEFINE name == First(ctl.b)
           value == First(Rest(ctl.b))
<1>1. HeapOK /\ FreedOK /\ EnvsOK /\ CurEnv \in Envs
  BY CurEnvOK DEF EvalInv, MemOK
<1>2. CASE Raise("INVALID_ARG") /\ UNCHANGED mem
  BY <1>2, RaiseOK
<1>3. CASE /\ Settable(name)
           /\ EnvSet(CurEnv, heap[name].symbol, value) /\ Return(value)
  <2>1. heap' = heap /\ freed' = freed
    BY DEF BuiltinSet
  <2>2. heap[name].symbol \in Symbols /\ value \in Ref
    BY <1>3, SetWrites
  <2> HIDE DEF name, value
  <2>4. EnvsOK' /\ Len(envs') = Len(envs)
    BY <1>1, <1>3, <2>1, <2>2, EnvSetOK
  <2>5. HeapOK' /\ FreedOK' /\ Grown
    BY <1>1, <2>1, HeapFacts DEF HeapOK, FreedOK, Grown
  <2>6. value \in MaybeRef'
    BY <2>1, <2>2 DEF MaybeRef, Ref
  <2>7. "return" \in Running /\ Reframes(kont)
    BY DEF Running, Steps, Reframes
  <2> QED
    BY <1>3, <2>4, <2>5, <2>6, <2>7, GoesOnInMemory DEF MemOK, Return
<1>4. (Raise("INVALID_ARG") /\ UNCHANGED mem)
      \/ (Settable(name) /\ EnvSet(CurEnv, heap[name].symbol, value) /\ Return(value))
  BY DEF BuiltinSet, mem
<1> QED
  BY <1>2, <1>3, <1>4

(* PRINT frees the buffer of the string it is given.                       *)
LEMMA BuiltinPrintOK ==
    ASSUME EvalInv, BuiltinPrint
    PROVE  EvalInv'
<1>1. CASE Raise("INVALID_ARG") /\ UNCHANGED mem
  BY <1>1, RaiseOK
<1>2. CASE Crash
  BY <1>2, CrashOK
<1>3. CASE /\ freed' = freed \cup FreedByShowing(First(ctl.b))
           /\ Return(T) /\ UNCHANGED <<heap, envs>>
  <2>1. HeapOK /\ FreedOK /\ EnvsOK
    BY DEF EvalInv, MemOK
  <2>2. HeapOK' /\ EnvsOK' /\ Grown /\ Len(envs') = Len(envs)
    BY <1>3, <2>1, HeapFacts DEF HeapOK, EnvsOK, ActivationsBelowGlobal, Envs, Ref, Grown
  <2>3. FreedOK'
    BY <1>3, <2>1 DEF FreedOK, FreedByShowing, Kind
  <2>4. T \in MaybeRef' /\ "return" \in Running /\ Reframes(kont)
    BY <1>3, <2>1, HeapFacts DEF MaybeRef, T, Running, Steps, Reframes
  <2> QED
    BY <1>3, <2>2, <2>3, <2>4, GoesOnInMemory DEF MemOK, Return
<1> QED
  BY <1>1, <1>2, <1>3 DEF BuiltinPrint

(* STR makes a string node.                                                *)
LEMMA BuiltinStrOK ==
    ASSUME EvalInv, BuiltinStr
    PROVE  EvalInv'
<1>1. CASE Crash
  BY <1>1, CrashOK
<1>2. CASE /\ heap' = Append(heap, ConsString(Text(ctl.b)))
           /\ Return(Len(heap) + 1) /\ UNCHANGED <<freed, envs>>
  <2>1. HeapOK /\ MemOK /\ Len(heap) \in Nat
    BY HeapFacts DEF EvalInv, MemOK
  <2> DEFINE n == ConsString(Text(ctl.b))
  <2>2. NodeOK(n, Len(heap) + 1) /\ n.type # "LAMBDA"
    BY DEF NodeOK, Types, ConsString
  <2>3. heap' = Append(heap, n)
    BY <1>2
  <2> HIDE DEF n
  <2>4. HeapOK' /\ Grown /\ Len(heap') = Len(heap) + 1
    BY <2>1, <2>2, <2>3, NodeAdded
  <2>5. MemOK' /\ Len(envs') = Len(envs)
    BY <1>2, <2>1, <2>4, MemGrows
  <2>6. Len(heap) + 1 \in MaybeRef' /\ "return" \in Running /\ Reframes(kont)
    BY <2>1, <2>4 DEF MaybeRef, Running, Steps, Reframes
  <2> QED
    BY <1>2, <2>4, <2>5, <2>6, GoesOnInMemory DEF Return
<1> QED
  BY <1>1, <1>2 DEF BuiltinStr

(* The other primitives make whatever nodes their result needs.            *)
LEMMA BuiltinPureOK ==
    ASSUME EvalInv, BuiltinPure
    PROVE  EvalInv'
<1>1. PICK p \in PureBuiltins :
        LET r == Result(p, ctl.b) IN
          \/ r.err # "none" /\ Raise(r.err) /\ UNCHANGED mem
          \/ /\ r.err = "none"
             /\ heap' = heap \o r.new
             /\ Return(r.ref)
             /\ UNCHANGED <<freed, envs>>
          \/ ArithmeticOverflows(p, ctl.b) /\ Crash
  BY DEF BuiltinPure
<1> DEFINE r == Result(p, ctl.b)
<1>2. HeapOK /\ MemOK /\ Len(heap) \in Nat
  BY HeapFacts DEF EvalInv, MemOK
<1>3. ResultOK(r)
  BY <1>2, ResultsOK
<1>4. \/ Raise(r.err) /\ UNCHANGED mem
      \/ Crash
      \/ heap' = heap \o r.new /\ Return(r.ref) /\ UNCHANGED <<freed, envs>>
  BY <1>1
<1> HIDE DEF r
<1>5. CASE heap' = heap \o r.new /\ Return(r.ref) /\ UNCHANGED <<freed, envs>>
  <2> DEFINE Q == {}
  <2>1. /\ IsSequence(r.new)
        /\ \A j \in 1 .. Len(r.new) : NodeOK(r.new[j], Len(heap) + j) /\ r.new[j].type # "LAMBDA"
        /\ r.ref \in (0 .. Len(heap) + Len(r.new)) \cup {Undef}
    BY <1>3, <1>5 DEF ResultOK
  <2>2. Q \subseteq Len(heap) + 1 .. Len(heap) + Len(r.new) /\ \A x \in Q : FALSE
    OBVIOUS
  <2> HIDE DEF Q
  <2>3. /\ HeapOK' /\ Len(heap') = Len(heap) + Len(r.new)
        /\ \A x \in DOMAIN heap : x \in DOMAIN heap' /\ heap'[x] = heap[x]
    BY <1>2, <1>5, <2>1, <2>2, HeapGrows
  <2>4. Len(r.new) \in Nat
    BY <2>1, LenProperties DEF IsSequence
  <2>5. Grown
    BY <1>2, <2>3, <2>4 DEF Grown
  <2>6. MemOK' /\ Len(envs') = Len(envs)
    BY <1>2, <1>5, <2>3, <2>5, MemGrows
  <2>7. r.ref \in MaybeRef' /\ "return" \in Running /\ Reframes(kont)
    BY <2>1, <2>3 DEF MaybeRef, Running, Steps, Reframes
  <2> QED
    BY <1>5, <2>5, <2>6, <2>7, GoesOnInMemory DEF Return
<1> QED
  BY <1>4, <1>5, RaiseOK, CrashOK

-----------------------------------------------------------------------------
(* Calls of lambdas and their bodies.                                      *)

(* What waits in a body keeps waiting behind its first expression.         *)
LEMMA WaitsStay ==
    ASSUME EvalInv, MemOK', Grown, NEW i, i \in DOMAIN kont, i - 1 \in DOMAIN kont,
           kont'[i] = kont[i], kont'[i - 1] = kont[i - 1], WaitsInBody(i)'
    PROVE  (kont[i].a <= Rest(kont[i - 1].a))'
<1>1. kont[i].a <= Rest(kont[i - 1].a)
  BY DEF EvalInv, BodyOK, WaitsInBody
<1>2. kont[i - 1].a \in Ref
  <2>1. kont[i - 1] \in Frames
    BY ElementOfSeq, LenProperties DEF EvalInv, ControlOK
  <2> QED
    BY <2>1 DEF Frames
<1>3. PICK r \in Ref : r = kont[i - 1].a
  BY <1>2
<1>4. Rest(r)' = Rest(r)
  BY NodesStay DEF EvalInv, MemOK
<1>5. Rest(kont[i - 1].a)' = Rest(r)'
  BY <1>3 DEF Rest, Kind
<1> QED
  BY <1>1, <1>3, <1>4, <1>5

(* funcall_lambda: one more call, with one more Context and environment.   *)
LEMMA CallLambdaOK ==
    ASSUME EvalInv, CallLambda
    PROVE  EvalInv'
<1> DEFINE params == First(ctl.a)
           f == CallFrame(ctl.a, ctl.b)
<1>1. CASE \E e : Raise(e) /\ UNCHANGED mem
  BY <1>1, RaiseOK
<1>2. CASE /\ Length(params) = Length(ctl.b)
           /\ NewScope(ctl.a)
           /\ ctxs' = Append(ctxs, Len(envs) + 1)
           /\ kont' = Append(kont, f)
           /\ ctl' = Ctl("bind", params, ctl.b)
           /\ UNCHANGED <<heap, freed, out, session>>
  <2>1. HeapOK /\ FreedOK /\ EnvsOK /\ ControlOK /\ Kind(ctl.a) = "LAMBDA"
    BY DEF EvalInv, MemOK, CallLambda, Calling
  <2>2. /\ ctl.a \in DOMAIN heap /\ params \in DOMAIN heap /\ heap[ctl.a].env = Global
    BY <2>1, ParamsEnd
  <2>3. EnvNew(Global)
    BY <1>2, <2>2 DEF NewScope
  <2>4. EnvsOK' /\ Len(envs') = Len(envs) + 1 /\ HeapOK' /\ FreedOK' /\ Grown
    BY <1>2, <2>1, <2>3, EnvNewOK, HeapFacts DEF HeapOK, FreedOK, Grown
  <2>5. MemOK'
    BY <2>4 DEF MemOK
  <2>6. /\ ctl.b \in DOMAIN heap
        /\ Len(Cells(params)) = Len(Cells(ctl.b)) /\ Len(Cells(params)) \in Nat \ {0}
        /\ Cells(params)[1] = params /\ Cells(ctl.b)[1] = ctl.b
    <3>1. CellsOK(params)
      BY <2>1, <2>2, CellsFacts
    <3>2. Length(params) = Len(Cells(params)) - 1 /\ Len(Cells(params)) \in Nat \ {0}
          /\ Cells(params)[1] = params
      BY <2>2, <3>1 DEF Length, CellsOK
    <3>3. ctl.b \in DOMAIN heap
      <4>1. Length(params) \in Nat
        BY <3>2
      <4>2. Length(ctl.b) \in Nat
        BY <1>2, <4>1
      <4> QED
        BY <4>2 DEF Length, Undef
    <3>4. CellsOK(ctl.b)
      BY <2>1, <3>3, CellsFacts
    <3>5. Length(ctl.b) = Len(Cells(ctl.b)) - 1 /\ Len(Cells(ctl.b)) \in Nat \ {0}
          /\ Cells(ctl.b)[1] = ctl.b
      BY <3>3, <3>4 DEF Length, CellsOK
    <3>6. Len(Cells(params)) = Len(Cells(ctl.b))
      <4> DEFINE n == Len(Cells(params))
                 m == Len(Cells(ctl.b))
      <4>1. n - 1 = m - 1
        BY <1>2, <3>2, <3>5
      <4>2. n \in Nat /\ m \in Nat
        BY <3>2, <3>5
      <4> HIDE DEF n, m
      <4>3. n = m
        BY <4>1, <4>2
      <4> QED
        BY <4>3 DEF n, m
    <3> QED
      BY <3>2, <3>3, <3>5, <3>6
  <2> HIDE DEF params
  <2>7. Ref' = Ref /\ Frames' = Frames /\ DOMAIN heap \subseteq Ref /\ NULL \in Ref
    BY <1>2, <2>1, HeapFacts DEF Ref, Frames, NULL
  <2>8. f \in Frames /\ f.k = "call" /\ f.a = ctl.a /\ f.args = ctl.b
    BY <2>2, <2>6, <2>7 DEF CallFrame, Frames, Kinds
  <2> HIDE DEF f
  <2>9. /\ kont \in Seq(Frames) /\ kont' \in Seq(Frames) /\ Len(kont) \in Nat
        /\ Len(kont') = Len(kont) + 1 /\ kont' # <<>> /\ kont'[Len(kont) + 1] = f
        /\ \A i \in 1 .. Len(kont) : kont'[i] = kont[i]
        /\ DOMAIN kont = 1 .. Len(kont) /\ DOMAIN kont' = 1 .. Len(kont) + 1
    <3>1. kont \in Seq(Frames)
      BY <2>1 DEF ControlOK
    <3>2. /\ kont' \in Seq(Frames) /\ Len(kont) \in Nat
          /\ Len(kont') = Len(kont) + 1 /\ kont' # <<>> /\ kont'[Len(kont) + 1] = f
          /\ \A i \in 1 .. Len(kont) : kont'[i] = kont[i]
      BY <1>2, <2>8, <3>1, AppendFacts
    <3> QED
      BY <3>1, <3>2, LenProperties
  <2>10. Top' = f
    BY <2>9 DEF Top
  <2>11. ctl'.op = "bind" /\ ctl'.a = params /\ ctl'.b = ctl.b /\ ctl' \notin {Idle, Exited}
    BY <1>2 DEF Ctl, Idle, Exited
  <2>12. ControlOK'
    <3>1. ctl' \in [op : Steps, a : Ref, b : Ref]
      BY <1>2, <2>2, <2>6, <2>7 DEF Ctl, Steps
    <3> QED
      BY <2>7, <2>9, <3>1 DEF ControlOK
  <2>13. ContextsOK'
    <3>1. Activations' = Activations \cup {Len(kont) + 1} /\ Len(kont) + 1 \notin Activations
      BY <2>8, <2>9 DEF Activations
    <3>2. IsFiniteSet(Activations)
      <4>1. Activations \subseteq 1 .. Len(kont) /\ IsFiniteSet(1 .. Len(kont))
        BY <2>9, FS_Interval DEF Activations
      <4> QED
        BY <4>1, FS_Subset
    <3>3. Cardinality(Activations') = Cardinality(Activations) + 1
      BY <3>1, <3>2, FS_AddElement
    <3>4. Cardinality(Activations) \in Nat
      BY <3>2, FS_CardinalityType
    <3>5. /\ ctxs \in Seq(Envs) /\ ctxs[1] = Global /\ Len(ctxs) = 1 + Cardinality(Activations)
          /\ \A i, j \in DOMAIN ctxs : i < j => ctxs[i] < ctxs[j]
      BY DEF EvalInv, ContextsOK, ContextsMatchCalls
    <3>6. Len(envs) \in Nat /\ Envs = 1 .. Len(envs) /\ Envs' = 1 .. Len(envs) + 1
      BY <2>1, <2>4, EnvironmentFacts DEF Envs
    <3>7. ctxs \in Seq(Envs') /\ Len(envs) + 1 \in Envs'
      BY <3>5, <3>6, SeqMonotonic
    <3>8. /\ ctxs' \in Seq(Envs') /\ Len(ctxs') = Len(ctxs) + 1
          /\ ctxs'[Len(ctxs) + 1] = Len(envs) + 1
          /\ \A i \in 1 .. Len(ctxs) : ctxs'[i] = ctxs[i]
      BY <1>2, <3>7, AppendFacts
    <3>9. Len(ctxs) \in Nat \ {0} /\ DOMAIN ctxs = 1 .. Len(ctxs) /\ DOMAIN ctxs' = 1 .. Len(ctxs) + 1
      BY <3>4, <3>5, <3>8, LenProperties
    <3>10. \A i \in 1 .. Len(ctxs) : ctxs[i] \in 1 .. Len(envs)
      BY <3>5, <3>6, <3>9, ElementOfSeq
    <3>11. \A i, j \in DOMAIN ctxs' : i < j => ctxs'[i] < ctxs'[j]
      <4> SUFFICES ASSUME NEW i \in 1 .. Len(ctxs) + 1, NEW j \in 1 .. Len(ctxs) + 1, i < j
                   PROVE  ctxs'[i] < ctxs'[j]
        BY <3>9
      <4>1. i \in 1 .. Len(ctxs) /\ ctxs'[i] = ctxs[i]
        BY <3>8, <3>9
      <4>2. CASE j \in 1 .. Len(ctxs)
        BY <3>5, <3>8, <3>9, <4>1, <4>2
      <4>3. CASE j = Len(ctxs) + 1
        BY <3>6, <3>8, <3>10, <4>1, <4>3
      <4> QED
        BY <3>9, <4>2, <4>3
    <3>12. ctxs'[1] = Global
      BY <3>5, <3>8, <3>9
    <3> QED
      BY <2>11, <3>3, <3>4, <3>5, <3>8, <3>11, <3>12 DEF ContextsOK, ContextsMatchCalls
  <2>14. BindOK'
    <3>1. Kind(Top.a)' = "LAMBDA"
      BY <1>2, <2>1, <2>8, <2>10 DEF Kind
    <3>2. First(Top.a)' = params /\ Top'.args = ctl.b
      BY <1>2, <2>8, <2>10 DEF First, Kind, params
    <3>3. PICK p, b : p = params /\ b = ctl.b
      OBVIOUS
    <3>4. Cells(p)' = Cells(p) /\ Cells(b)' = Cells(b)
      BY <1>2, SameCells
    <3>5. Params' = Cells(p)' /\ Args' = Cells(b)'
      BY <3>2, <3>3 DEF Params, Args
    <3>6. Params' = Cells(p) /\ Args' = Cells(b)
      BY <3>4, <3>5
    <3>7. Bound(0)'
      BY DEF Bound
    <3>8. 1 \in 1 .. Len(Params') /\ ctl'.a = Params'[1] /\ ctl'.b = Args'[1] /\ Bound(1 - 1)'
      BY <2>6, <2>11, <3>3, <3>6, <3>7
    <3>9. Len(Params') = Len(Args')
      BY <2>6, <3>3, <3>6
    <3> QED
      BY <1>2, <2>2, <2>6, <2>8, <2>9, <2>10, <3>1, <3>2, <3>8, <3>9 DEF BindOK, Binding
  <2>15. BodyOK'
    <3>1. ~ At("program")'
      BY <2>11 DEF At
    <3>2. ASSUME NEW i \in DOMAIN kont', WaitsInBody(i)'
          PROVE  (kont[i].a <= Rest(kont[i - 1].a))'
      <4>1. i # Len(kont) + 1 /\ i > 1
        BY <2>8, <2>9, <3>2 DEF WaitsInBody
      <4>2. i \in 1 .. Len(kont) /\ i - 1 \in 1 .. Len(kont)
        BY <2>9, <4>1
      <4> QED
        BY <2>4, <2>5, <2>9, <3>2, <4>2, WaitsStay
    <3> QED
      BY <3>1, <3>2 DEF BodyOK, BodySeesItsArguments
  <2>16. SessionOK'
    BY <1>2 DEF EvalInv, SessionOK, session
  <2> QED
    BY <2>5, <2>12, <2>13, <2>14, <2>15, <2>16 DEF EvalInv
<1>3. \/ \E e : Raise(e) /\ UNCHANGED mem
      \/ /\ Length(params) = Length(ctl.b)
         /\ NewScope(ctl.a)
         /\ ctxs' = Append(ctxs, Len(envs) + 1)
         /\ kont' = Append(kont, f)
         /\ ctl' = Ctl("bind", params, ctl.b)
         /\ UNCHANGED <<heap, freed, out, session>>
  BY DEF CallLambda
<1> QED
  BY <1>1, <1>2, <1>3

(* As long as neither nodes nor frames change, neither do the parameters   *)
(* and the arguments of the call.                                          *)
LEMMA NamesStay ==
    ASSUME UNCHANGED heap, UNCHANGED kont
    PROVE  /\ Top' = Top /\ Params' = Params /\ Args' = Args
           /\ \A i : Name(i)' = Name(i) /\ First(Args[i])' = First(Args[i])
<1>1. Top' = Top
  BY DEF Top
<1>2. Params' = Params
  <2>1. PICK p : p = First(Top.a)
    OBVIOUS
  <2>2. First(Top.a)' = p
    BY <1>1, <2>1 DEF First, Kind
  <2>3. Cells(p)' = Cells(p)
    BY SameCells
  <2>4. Params' = Cells(p)'
    BY <2>2 DEF Params
  <2> QED
    BY <2>1, <2>3, <2>4 DEF Params
<1>3. Args' = Args
  <2>1. PICK p : p = Top.args
    OBVIOUS
  <2>2. Cells(p)' = Cells(p)
    BY SameCells
  <2>3. Args' = Cells(p)'
    BY <1>1, <2>1 DEF Args
  <2> QED
    BY <2>1, <2>2, <2>3 DEF Args
<1>4. ASSUME NEW i PROVE Name(i)' = Name(i) /\ First(Args[i])' = First(Args[i])
  <2>1. PICK p, b : p = Params[i] /\ b = Args[i]
    OBVIOUS
  <2>2. First(p)' = First(p) /\ First(b)' = First(b)
    BY SameCells
  <2>3. First(Params[i])' = First(p)' /\ First(Args[i])' = First(b)'
    BY <1>2, <1>3, <2>1 DEF First, Kind
  <2> QED
    BY <2>1, <2>2, <2>3 DEF Name
<1> QED
  BY <1>1, <1>2, <1>3, <1>4

(* What a body is to find when it starts: what BodySeesItsArguments asks.  *)
BodyParams == Items(First(Top.a))
BodyArgs   == Items(Top.args)
BodyName(i) == heap[First(BodyParams[i])].symbol
FindsArguments ==
    \A i \in DOMAIN BodyParams :
      (\A j \in DOMAIN BodyParams : j > i => BodyName(j) # BodyName(i)) =>
        /\ Binder(CurEnv, BodyName(i)) # NoEnv
        /\ EnvLookup(CurEnv, BodyName(i)) = First(BodyArgs[i])

(* It finds them as long as neither nodes, environments nor calls change.  *)
LEMMA FindsArgumentsStays ==
    ASSUME FindsArguments, UNCHANGED <<heap, envs, kont, ctxs>>
    PROVE  FindsArguments'
<1>1. Top' = Top /\ CurEnv' = CurEnv
  BY DEF Top, CurEnv
<1>2. BodyParams' = BodyParams /\ BodyArgs' = BodyArgs
  <2>1. PICK p, b : p = First(Top.a) /\ b = Top.args
    OBVIOUS
  <2>2. First(Top.a)' = p /\ Top'.args = b
    BY <1>1, <2>1 DEF First, Kind
  <2>3. Items(p)' = Items(p) /\ Items(b)' = Items(b)
    BY SameCells
  <2>4. BodyParams' = Items(p)' /\ BodyArgs' = Items(b)'
    BY <2>2 DEF BodyParams, BodyArgs
  <2> QED
    BY <2>1, <2>3, <2>4 DEF BodyParams, BodyArgs
<1>3. \A i : BodyName(i)' = BodyName(i) /\ First(BodyArgs[i])' = First(BodyArgs[i])
  <2> TAKE i
  <2>1. PICK p, b : p = BodyParams[i] /\ b = BodyArgs[i]
    OBVIOUS
  <2>2. First(p)' = First(p) /\ First(b)' = First(b)
    BY SameCells
  <2>3. First(BodyParams[i])' = First(p)' /\ First(BodyArgs[i])' = First(b)'
    BY <1>2, <2>1 DEF First, Kind
  <2> QED
    BY <2>1, <2>2, <2>3 DEF BodyName
<1>4. ASSUME NEW i
      PROVE  /\ Binder(CurEnv, BodyName(i))' = Binder(CurEnv, BodyName(i))
             /\ EnvLookup(CurEnv, BodyName(i))' = EnvLookup(CurEnv, BodyName(i))
  <2>1. PICK e, x : e = CurEnv /\ x = BodyName(i)
    OBVIOUS
  <2>2. BodyName(i)' = x /\ CurEnv' = e
    BY <1>1, <1>3, <2>1
  <2>3. Binder(e, x)' = Binder(e, x)
    BY DEF Binder, Hits, FirstHit
  <2>4. Binder(CurEnv, BodyName(i))' = Binder(e, x)'
    BY <2>2 DEF Binder, Hits, FirstHit
  <2>5. EnvLookup(CurEnv, BodyName(i))' = EnvLookup(e, x)
    BY <2>2, <2>3, <2>4 DEF EnvLookup
  <2> QED
    BY <2>1, <2>3, <2>4, <2>5
<1> QED
  BY <1>2, <1>3, <1>4 DEF FindsArguments

(* What a name resolves to, seen from where the step goes.                 *)
LEMMA LookupAfter ==
    ASSUME NEW e, CurEnv' = e, NEW x, NEW i, Name(i)' = x
    PROVE  /\ Binder(CurEnv, Name(i))' = Binder(e, x)'
           /\ EnvLookup(CurEnv, Name(i))' = EnvLookup(e, x)'
<1>1. Binder(CurEnv, Name(i))' = Binder(e, x)'
  BY DEF Binder, Hits, FirstHit
<1> QED
  BY <1>1 DEF EnvLookup

(* Where a call is that binds its parameters.                              *)
LEMMA BindingFacts ==
    ASSUME EvalInv, At("bind")
    PROVE  /\ kont # <<>> /\ Top.k = "call" /\ Kind(Top.a) = "LAMBDA"
           /\ Rest(Top.a) \in Ref
           /\ Len(Params) \in Nat \ {0} /\ Len(Args) = Len(Params)
           /\ CellsOK(First(Top.a)) /\ CellsOK(Top.args)
           /\ \A i \in 1 .. Len(Params) : Params[i] = NIL <=> i = Len(Params)
           /\ \E j \in 1 .. Len(Params) : ctl.a = Params[j] /\ ctl.b = Args[j] /\ Bound(j - 1)
<1>1. Binding /\ HeapOK
  BY DEF EvalInv, BindOK, MemOK
<1>2. /\ kont # <<>> /\ Top.k = "call" /\ Kind(Top.a) = "LAMBDA"
      /\ First(Top.a) \in DOMAIN heap /\ Top.args \in DOMAIN heap
      /\ Len(Params) = Len(Args)
      /\ \E j \in 1 .. Len(Params) : ctl.a = Params[j] /\ ctl.b = Args[j] /\ Bound(j - 1)
  BY <1>1 DEF Binding
<1>3. CellsOK(First(Top.a)) /\ CellsOK(Top.args)
  BY <1>1, <1>2, CellsFacts
<1>4. Len(Params) \in Nat \ {0}
  BY <1>3 DEF CellsOK, Params
<1>5. \A i \in 1 .. Len(Params) : Params[i] = NIL <=> i = Len(Params)
  BY <1>1, <1>2, ParamsEnd DEF Params
<1>6. Rest(Top.a) \in Ref
  <2>1. Rest(Top.a) \in 0 .. Top.a - 1 /\ Top.a \in DOMAIN heap
    BY <1>1, <1>2, FirstRest
  <2> QED
    BY <1>1, <2>1, HeapFacts DEF Ref
<1> QED
  BY <1>2, <1>3, <1>4, <1>5, <1>6

(* A parameter is a name and its argument a node.                          *)
LEMMA BindWrites ==
    ASSUME EvalInv, At("bind"), NIL \notin {ctl.a, ctl.b}, Settable(First(ctl.a))
    PROVE  heap[First(ctl.a)].symbol \in Symbols /\ First(ctl.b) \in Ref
<1>1. HeapOK
  BY DEF EvalInv, MemOK
<1>2. PICK j \in 1 .. Len(Params) : ctl.a = Params[j] /\ ctl.b = Args[j]
  BY BindingFacts
<1>3. /\ Len(Params) \in Nat \ {0} /\ Len(Args) = Len(Params) /\ CellsOK(Top.args)
      /\ \A i \in 1 .. Len(Params) : Params[i] = NIL <=> i = Len(Params)
  BY BindingFacts
<1>4. j # Len(Params)
  BY <1>2, <1>3
<1>5. j \in 1 .. Len(Args) - 1 /\ j \in 1 .. Len(Args)
  BY <1>3, <1>4
<1>6. Rest(ctl.b) # NULL /\ ctl.b \in DOMAIN heap
  BY <1>2, <1>3, <1>5 DEF CellsOK, Args
<1>7. Kind(ctl.b) \in {"LIST", "LAMBDA"}
  BY <1>1, <1>6, FirstRest
<1>8. First(ctl.b) \in 0 .. ctl.b - 1
  BY <1>1, <1>7, FirstRest
<1>9. First(ctl.b) \in Ref
  BY <1>1, <1>6, <1>8, HeapFacts DEF Ref
<1> QED
  BY <1>1, <1>9, SettableIsSymbol

(* A step inside a call that leaves nodes, frames and Contexts alone.      *)
LEMMA InSameCall ==
    ASSUME EvalInv, MemOK', Grown, Len(envs') = Len(envs),
           UNCHANGED <<kont, ctxs, files, lines, interactive>>,
           ctl' \in [op : Steps, a : Ref', b : Ref'], ctl' \notin {Idle, Exited},
           BindOK', BodySeesItsArguments',
           (At("program") /\ kont # <<>> /\ Top.k = "call" => ctl.a <= Rest(Top.a))'
    PROVE  EvalInv'
<1>1. ControlOK'
  <2>1. Ref \subseteq Ref'
    BY LenProperties, HeapFacts DEF EvalInv, MemOK, HeapOK, IsSequence, Grown, Ref
  <2>2. Frames \subseteq Frames'
    BY <2>1 DEF Frames
  <2>3. kont' \in Seq(Frames')
    BY <2>2, SeqMonotonic DEF EvalInv, ControlOK
  <2> QED
    BY <2>3 DEF ControlOK
<1>2. ContextsOK'
  <2>1. Activations' = Activations /\ Envs' = Envs
    BY DEF Activations, Envs
  <2> QED
    BY <2>1 DEF EvalInv, ContextsOK, ContextsMatchCalls
<1>3. BodyOK'
  <2>1. ASSUME NEW i \in DOMAIN kont', WaitsInBody(i)'
        PROVE  (kont[i].a <= Rest(kont[i - 1].a))'
    <3>1. DOMAIN kont = 1 .. Len(kont) /\ Len(kont) \in Nat
      BY LenProperties DEF EvalInv, ControlOK
    <3>2. i \in DOMAIN kont /\ i - 1 \in DOMAIN kont
      BY <2>1, <3>1 DEF WaitsInBody
    <3> QED
      BY <2>1, <3>2, WaitsStay
  <2> QED
    BY <2>1 DEF BodyOK
<1>4. SessionOK'
  BY DEF EvalInv, SessionOK
<1> QED
  BY <1>1, <1>2, <1>3, <1>4 DEF EvalInv

(* Each parameter in turn is set to its argument, then the body starts.    *)
LEMMA BindParamOK ==
    ASSUME EvalInv, BindParam
    PROVE  EvalInv'
<1>1. At("bind") /\ HeapOK /\ FreedOK /\ EnvsOK /\ MemOK /\ CurEnv \in Envs
  BY CurEnvOK DEF EvalInv, MemOK, BindParam
<1>2. PICK j \in 1 .. Len(Params) : ctl.a = Params[j] /\ ctl.b = Args[j] /\ Bound(j - 1)
  BY <1>1, BindingFacts
<1>3. /\ kont # <<>> /\ Top.k = "call" /\ Kind(Top.a) = "LAMBDA"
      /\ Rest(Top.a) \in Ref
      /\ Len(Params) \in Nat \ {0} /\ Len(Args) = Len(Params)
      /\ CellsOK(First(Top.a)) /\ CellsOK(Top.args)
      /\ \A i \in 1 .. Len(Params) : Params[i] = NIL <=> i = Len(Params)
  BY <1>1, BindingFacts
<1>4. NULL \in Ref /\ DOMAIN heap \subseteq Ref /\ Undef \notin Ref /\ Len(heap) \in Nat
  BY <1>1, HeapFacts DEF Ref, NULL, Undef
<1>a. CASE Raise("INVALID_ARG") /\ UNCHANGED mem
  BY <1>a, RaiseOK
<1>b. CASE /\ NIL \notin {ctl.a, ctl.b} /\ Settable(First(ctl.a))
           /\ EnvSet(CurEnv, heap[First(ctl.a)].symbol, First(ctl.b))
           /\ Go("bind", Rest(ctl.a), Rest(ctl.b), kont)
           /\ UNCHANGED <<heap, freed>>
  <2>1. j < Len(Params) /\ j + 1 \in 1 .. Len(Params) /\ j \in 1 .. Len(Params) - 1
    <3>1. j # Len(Params)
      BY <1>2, <1>3, <1>b
    <3> QED
      BY <1>3, <3>1
  <2>2. Rest(ctl.a) = Params[j + 1] /\ Rest(ctl.b) = Args[j + 1] /\ Rest(ctl.b) # NULL
        /\ Params[j + 1] \in DOMAIN heap /\ Args[j + 1] \in DOMAIN heap /\ ctl.b \in DOMAIN heap
    <3>1. Params[j + 1] = Rest(Params[j]) /\ Params[j + 1] \in DOMAIN heap
      BY <1>3, <2>1 DEF CellsOK, Params
    <3>2. Len(Cells(Top.args)) = Len(Params)
      BY <1>3 DEF Args
    <3>3. Args[j + 1] = Rest(Args[j]) /\ Rest(Args[j]) # NULL /\ Args[j + 1] \in DOMAIN heap
          /\ Args[j] \in DOMAIN heap
      BY <1>3, <2>1, <3>2 DEF CellsOK, Args
    <3> QED
      BY <1>2, <3>1, <3>3
  <2>3. heap[First(ctl.a)].symbol \in Symbols /\ First(ctl.b) \in Ref
    BY <1>1, <1>b, BindWrites
  <2>4. heap[First(ctl.a)].symbol = Name(j) /\ Name(j) \in Symbols /\ First(ctl.b) = First(Args[j])
    BY <1>2, <2>3 DEF Name
  <2>5. PICK e \in Envs, s \in Symbols, v \in Ref :
               e = CurEnv /\ s = Name(j) /\ v = First(Args[j])
    BY <1>1, <2>3, <2>4
  <2>6. EnvSet(e, s, v)
    BY <1>b, <2>4, <2>5
  <2>7. /\ EnvsOK' /\ Len(envs') = Len(envs)
        /\ Binder(e, s)' # NoEnv /\ EnvLookup(e, s)' = v
        /\ \A x : x # s => Binder(e, x)' = Binder(e, x)
        /\ \A x : x # s /\ Binder(e, x) # NoEnv => EnvLookup(e, x)' = EnvLookup(e, x)
    BY <1>1, <1>b, <2>6, EnvSetOK
  <2>8. MemOK' /\ Grown
    BY <1>1, <1>b, <2>7, HeapFacts DEF MemOK, HeapOK, FreedOK, Grown
  <2>9. /\ ctl' = Ctl("bind", Params[j + 1], Args[j + 1])
        /\ kont' = kont /\ ctxs' = ctxs
        /\ files' = files /\ lines' = lines /\ interactive' = interactive
    <3>1. Undef \notin {Rest(ctl.a), Rest(ctl.b)}
      BY <1>4, <2>2
    <3> QED
      BY <1>b, <2>2, <3>1 DEF Go, session
  <2>10. Ref' = Ref /\ CurEnv' = e
    BY <1>b, <2>5, <2>9 DEF Ref, CurEnv
  <2>11. /\ ctl' \in [op : Steps, a : Ref', b : Ref'] /\ ctl' \notin {Idle, Exited}
         /\ ctl'.op = "bind" /\ ctl'.a = Params[j + 1] /\ ctl'.b = Args[j + 1]
    <3>1. Params[j + 1] \in Ref /\ Args[j + 1] \in Ref
      BY <1>4, <2>2
    <3> QED
      BY <2>9, <2>10, <3>1 DEF Ctl, Steps, Idle, Exited
  <2>12. /\ Top' = Top /\ Params' = Params /\ Args' = Args
         /\ \A i : Name(i)' = Name(i) /\ First(Args[i])' = First(Args[i])
    BY <1>b, <2>9, NamesStay
  <2>13. Bound(j)'
    <3> SUFFICES ASSUME NEW i \in 1 .. j, \A m \in i + 1 .. j : Name(m)' # Name(i)'
                 PROVE  /\ Binder(CurEnv, Name(i))' # NoEnv
                        /\ EnvLookup(CurEnv, Name(i))' = First(Args[i])'
      BY DEF Bound
    <3>1. PICK x : x = Name(i)
      OBVIOUS
    <3>2. Name(i)' = x
      BY <2>12, <3>1
    <3>3. /\ Binder(CurEnv, Name(i))' = Binder(e, x)'
          /\ EnvLookup(CurEnv, Name(i))' = EnvLookup(e, x)'
      BY <2>10, <3>2, LookupAfter
    <3>4. CASE i = j
      <4>1. x = s /\ First(Args[i]) = v
        BY <2>5, <3>1, <3>4
      <4> QED
        BY <2>7, <2>12, <3>3, <4>1
    <3>5. CASE i # j
      <4>1. i \in 1 .. j - 1 /\ j \in i + 1 .. j
        BY <1>3, <3>5
      <4>2. \A m \in i + 1 .. j - 1 : Name(m) # Name(i)
        BY <1>3, <2>12, <4>1
      <4>3. Binder(CurEnv, Name(i)) # NoEnv /\ EnvLookup(CurEnv, Name(i)) = First(Args[i])
        BY <1>2, <4>1, <4>2 DEF Bound
      <4>4. Binder(e, x) # NoEnv /\ EnvLookup(e, x) = First(Args[i])
        BY <2>5, <3>1, <4>3
      <4>5. x # s
        BY <2>5, <2>12, <3>1, <4>1
      <4> QED
        BY <2>7, <2>12, <3>3, <4>4, <4>5
    <3> QED
      BY <3>4, <3>5
  <2>14. BindOK'
    <3>1. /\ Kind(Top.a)' = "LAMBDA"
          /\ First(Top.a)' \in DOMAIN heap' /\ Top'.args \in DOMAIN heap'
      <4>1. First(Top.a) \in DOMAIN heap /\ Top.args \in DOMAIN heap
        BY <1>1 DEF EvalInv, BindOK, Binding
      <4>2. First(Top.a)' = First(Top.a) /\ Kind(Top.a)' = Kind(Top.a)
        BY <1>b, <2>12 DEF First, Kind
      <4> QED
        BY <1>3, <1>b, <2>12, <4>1, <4>2
    <3>2. j + 1 - 1 = j
      BY <1>3
    <3>3. Bound((j + 1) - 1)'
      BY <2>13, <3>2
    <3>4. \E i \in 1 .. Len(Params') : ctl'.a = Params'[i] /\ ctl'.b = Args'[i] /\ Bound(i - 1)'
      BY <2>1, <2>11, <2>12, <3>3
    <3> QED
      BY <1>3, <2>9, <2>12, <3>1, <3>4 DEF BindOK, Binding
  <2>15. ~ At("program")'
    BY <2>11 DEF At
  <2>16. BodySeesItsArguments'
    BY <2>15 DEF BodySeesItsArguments
  <2>17. UNCHANGED <<kont, ctxs, files, lines, interactive>>
    BY <2>9
  <2> QED
    BY <2>7, <2>8, <2>11, <2>14, <2>15, <2>16, <2>17, InSameCall
<1>c. CASE /\ NIL \in {ctl.a, ctl.b}
           /\ Go("program", Rest(Top.a), NULL, kont)
           /\ UNCHANGED mem
  <2>1. /\ heap' = heap /\ envs' = envs /\ kont' = kont /\ ctxs' = ctxs
        /\ files' = files /\ lines' = lines /\ interactive' = interactive
        /\ ctl' = Ctl("program", Rest(Top.a), NULL)
    <3>1. Undef \notin {Rest(Top.a), NULL}
      BY <1>3, <1>4
    <3> QED
      BY <1>c, <3>1 DEF mem, Go, session
  <2>2. MemOK' /\ Grown /\ Len(envs') = Len(envs) /\ Ref' = Ref /\ CurEnv' = CurEnv
    BY <1>1, <1>c, <2>1, MemStays DEF Ref, CurEnv
  <2>3. /\ ctl' \in [op : Steps, a : Ref', b : Ref'] /\ ctl' \notin {Idle, Exited}
        /\ ctl'.op = "program" /\ ctl'.a = Rest(Top.a)
    BY <1>3, <1>4, <2>1, <2>2 DEF Ctl, Steps, Idle, Exited
  <2>4. BindOK'
    BY <2>3 DEF BindOK, At
  <2>5. /\ Top' = Top /\ Params' = Params /\ Args' = Args
        /\ \A i : Name(i)' = Name(i) /\ First(Args[i])' = First(Args[i])
    BY <2>1, NamesStay
  <2>6. Rest(Top.a)' = Rest(Top.a)
    BY <2>1, <2>5 DEF Rest, Kind
  <2>7. j = Len(Params)
    <3>1. Params[j] = NIL \/ Args[j] = NIL
      BY <1>2, <1>c
    <3>2. CASE Params[j] = NIL
      BY <1>3, <3>2
    <3>3. CASE Args[j] = NIL
      <4>1. Rest(NIL) = NULL
        BY <1>1, HeapFacts DEF Rest
      <4>2. \A i \in 1 .. Len(Args) - 1 : Rest(Args[i]) # NULL
        BY <1>3 DEF CellsOK, Args
      <4>3. j \notin 1 .. Len(Params) - 1
        BY <1>3, <3>3, <4>1, <4>2
      <4>4. PICK n : n = Len(Params)
        OBVIOUS
      <4>5. j \in 1 .. n /\ n \in Nat /\ j \notin 1 .. n - 1
        BY <1>3, <4>3, <4>4
      <4>6. j = n
        BY <4>5
      <4> QED
        BY <4>4, <4>6
    <3> QED
      BY <3>1, <3>2, <3>3
  <2>8. Bound(Len(Params) - 1)
    BY <1>2, <2>7
  <2>9. BodySeesItsArguments'
    <3>1. First(Top.a) \in DOMAIN heap /\ Top.args \in DOMAIN heap
      BY <1>1 DEF EvalInv, BindOK, Binding
    <3>2. /\ BodyParams \in Seq(DOMAIN heap) /\ Len(BodyParams) = Len(Params) - 1
          /\ \A i \in 1 .. Len(BodyParams) : BodyParams[i] = Params[i]
      <4>1. /\ BodyParams \in Seq(DOMAIN heap) /\ Len(BodyParams) \in Nat
            /\ Len(BodyParams) = IF Params[Len(Params)] = NIL THEN Len(Params) - 1 ELSE Len(Params)
            /\ \A i \in 1 .. Len(BodyParams) : BodyParams[i] = Params[i]
        BY <1>1, <3>1, ItemsFacts DEF Params, BodyParams
      <4> QED
        BY <1>3, <4>1
    <3>3. \A i \in 1 .. Len(Params) - 1 : BodyArgs[i] = Args[i]
      <4>1. /\ Len(BodyArgs) = IF Args[Len(Args)] = NIL THEN Len(Args) - 1 ELSE Len(Args)
            /\ \A i \in 1 .. Len(BodyArgs) : BodyArgs[i] = Args[i]
        BY <1>1, <3>1, ItemsFacts DEF Args, BodyArgs
      <4> QED
        BY <1>3, <4>1
    <3>4. DOMAIN BodyParams = 1 .. Len(Params) - 1
      BY <3>2, LenProperties
    <3>5. \A i \in 1 .. Len(Params) - 1 : BodyName(i) = Name(i)
      BY <3>2 DEF Name, BodyName
    <3>6. FindsArguments
      <4> SUFFICES ASSUME NEW i \in 1 .. Len(Params) - 1,
                          \A m \in 1 .. Len(Params) - 1 : m > i => BodyName(m) # BodyName(i)
                   PROVE  /\ Binder(CurEnv, BodyName(i)) # NoEnv
                          /\ EnvLookup(CurEnv, BodyName(i)) = First(BodyArgs[i])
        BY <3>4 DEF FindsArguments
      <4>1. \A m \in i + 1 .. Len(Params) - 1 : Name(m) # Name(i)
        BY <1>3, <3>5
      <4>2. Binder(CurEnv, Name(i)) # NoEnv /\ EnvLookup(CurEnv, Name(i)) = First(Args[i])
        BY <2>8, <4>1 DEF Bound
      <4> QED
        BY <3>3, <3>5, <4>2
    <3>7. FindsArguments'
      BY <2>1, <3>6, FindsArgumentsStays
    <3> QED
      BY <3>7 DEF BodySeesItsArguments, FindsArguments, BodyParams, BodyArgs, BodyName
  <2>10. (At("program") /\ kont # <<>> /\ Top.k = "call" => ctl.a <= Rest(Top.a))'
    <3>1. Rest(Top.a) \in Nat
      BY <1>3, <1>4 DEF Ref
    <3>2. ctl'.a <= Rest(Top.a)'
      BY <2>3, <2>6, <3>1
    <3> QED
      BY <3>2
  <2>11. UNCHANGED <<kont, ctxs, files, lines, interactive>>
    BY <2>1
  <2> QED
    BY <2>2, <2>3, <2>4, <2>9, <2>10, <2>11, InSameCall
<1>5. \/ Raise("INVALID_ARG") /\ UNCHANGED mem
      \/ /\ NIL \notin {ctl.a, ctl.b} /\ Settable(First(ctl.a))
         /\ EnvSet(CurEnv, heap[First(ctl.a)].symbol, First(ctl.b))
         /\ Go("bind", Rest(ctl.a), Rest(ctl.b), kont)
         /\ UNCHANGED <<heap, freed>>
      \/ /\ NIL \in {ctl.a, ctl.b}
         /\ Go("program", Rest(Top.a), NULL, kont)
         /\ UNCHANGED mem
  BY DEF BindParam, mem
<1> QED
  BY <1>5, <1>a, <1>b, <1>c

(* A call returns: its frame and its Context go together.                  *)
LEMMA ReturnFromCallOK ==
    ASSUME EvalInv, ReturnFromCall
    PROVE  EvalInv'
<1>1. /\ At("return") /\ kont # <<>> /\ Top.k = "call"
      /\ ctxs' = SubSeq(ctxs, 1, Len(ctxs) - 1) /\ kont' = Pop
      /\ ctl' = ctl /\ files' = files /\ lines' = lines /\ interactive' = interactive
      /\ UNCHANGED mem
  BY DEF ReturnFromCall, Resume, session
<1>2. MemOK' /\ Grown /\ Len(envs') = Len(envs) /\ Ref' = Ref /\ Envs' = Envs /\ Frames' = Frames
  BY <1>1, MemStays DEF EvalInv, Ref, Envs, Frames, mem
<1>3. /\ Len(kont) \in Nat \ {0} /\ DOMAIN kont = 1 .. Len(kont)
      /\ Top = kont[Len(kont)]
      /\ kont' \in Seq(Frames) /\ Len(kont') = Len(kont) - 1
      /\ \A i \in 1 .. Len(kont) - 1 : kont'[i] = kont[i]
  BY <1>1, TopFacts DEF EvalInv
<1>4. DOMAIN kont' = 1 .. Len(kont) - 1
  BY <1>3, LenProperties
<1>5. ctl \notin {Idle, Exited} /\ ctl'.op = "return"
  BY <1>1 DEF At, Idle, Exited, Ctl
<1>6. ControlOK'
  BY <1>1, <1>2, <1>3 DEF EvalInv, ControlOK
<1>7. ContextsOK'
  <2>1. Activations' = Activations \ {Len(kont)} /\ Len(kont) \in Activations
    BY <1>1, <1>3, <1>4 DEF Activations
  <2>2. IsFiniteSet(Activations)
    <3>1. Activations \subseteq 1 .. Len(kont) /\ IsFiniteSet(1 .. Len(kont))
      BY <1>3, FS_Interval DEF Activations
    <3> QED
      BY <3>1, FS_Subset
  <2>3. Cardinality(Activations') = Cardinality(Activations) - 1
    BY <2>1, <2>2, FS_RemoveElement
  <2>4. Cardinality(Activations) \in Nat /\ Cardinality(Activations') \in Nat
    <3>1. IsFiniteSet(Activations')
      BY <2>1, <2>2, FS_Subset
    <3> QED
      BY <2>2, <3>1, FS_CardinalityType
  <2>5. /\ ctxs \in Seq(Envs) /\ ctxs[1] = Global /\ Len(ctxs) = 1 + Cardinality(Activations)
        /\ \A i, j \in DOMAIN ctxs : i < j => ctxs[i] < ctxs[j]
    BY DEF EvalInv, ContextsOK, ContextsMatchCalls
  <2>6. ctxs # <<>> /\ DOMAIN ctxs = 1 .. Len(ctxs)
    <3>1. Len(ctxs) # 0
      BY <2>4, <2>5
    <3> QED
      BY <2>5, <3>1, LenProperties
  <2>7. /\ ctxs' \in Seq(Envs) /\ Len(ctxs') = Len(ctxs) - 1
        /\ \A i \in 1 .. Len(ctxs) - 1 : ctxs'[i] = ctxs[i]
    BY <1>1, <2>5, <2>6, PopFacts
  <2>8. Len(ctxs) >= 2 /\ Len(ctxs) \in Nat
    BY <2>3, <2>4, <2>5
  <2>9. DOMAIN ctxs' = 1 .. Len(ctxs) - 1
    BY <2>7, LenProperties
  <2>10. ctxs'[1] = Global
    BY <2>5, <2>7, <2>8
  <2>11. \A i, j \in DOMAIN ctxs' : i < j => ctxs'[i] < ctxs'[j]
    BY <2>5, <2>6, <2>7, <2>8, <2>9
  <2>12. Len(ctxs') = 1 + Cardinality(Activations')
    BY <2>3, <2>4, <2>5, <2>7
  <2> QED
    BY <1>1, <1>2, <1>5, <2>7, <2>10, <2>11, <2>12 DEF ContextsOK, ContextsMatchCalls
<1>8. BindOK' /\ ~ At("program")'
  BY <1>5 DEF BindOK, At
<1>9. BodyOK'
  <2>1. ASSUME NEW i \in DOMAIN kont', WaitsInBody(i)'
        PROVE  (kont[i].a <= Rest(kont[i - 1].a))'
    <3>1. i \in 1 .. Len(kont) - 1 /\ i - 1 \in 1 .. Len(kont) - 1
      BY <1>3, <1>4, <2>1 DEF WaitsInBody
    <3> QED
      BY <1>2, <1>3, <2>1, <3>1, WaitsStay
  <2> QED
    BY <1>8, <2>1 DEF BodyOK, BodySeesItsArguments
<1>10. SessionOK'
  BY <1>1 DEF EvalInv, SessionOK
<1> QED
  BY <1>2, <1>6, <1>7, <1>8, <1>9, <1>10 DEF EvalInv

(* The expressions of a program, or of a body, in turn.                    *)
LEMMA EvalProgramOK ==
    ASSUME EvalInv, EvalProgram
    PROVE  EvalInv'
<1>1. /\ UNCHANGED mem /\ heap' = heap
      /\ MemOK' /\ Grown /\ Len(envs') = Len(envs) /\ Ref' = Ref /\ Envs' = Envs /\ Frames' = Frames
  BY MemStays DEF EvalInv, EvalProgram, Ref, Envs, Frames, mem
<1>2. /\ Ref \subseteq MaybeRef /\ {NULL, NIL, T, Undef} \subseteq MaybeRef
      /\ ctl.a \in Ref /\ ctl.b \in Ref /\ NULL \in Ref
      /\ \A r : First(r) \in MaybeRef /\ Rest(r) \in MaybeRef
      /\ kont # <<>> => Top.a \in Ref /\ Top.args \in Ref
  BY Pointers, HeapFacts DEF EvalInv, MemOK, Ref, NULL
<1>3. ASSUME NEW op \in Steps \ {"prompt", "exit", "undefined"}, NEW x \in MaybeRef,
             NEW c, c = IF Undef \in {x, NULL} THEN Crashed ELSE Ctl(op, x, NULL)
      PROVE  /\ c \in [op : Steps, a : Ref, b : Ref] /\ c \notin {Idle, Exited}
             /\ c.op \in {op, "undefined"} /\ (c.op = op => c.a = x)
  <2>1. CASE x = Undef
    BY <1>2, <1>3, <2>1 DEF Crashed, Ctl, Idle, Exited, Steps
  <2>2. CASE x # Undef
    <3>1. x \in Ref /\ Undef # NULL
      BY <2>2 DEF MaybeRef, Ref, Undef, NULL
    <3> QED
      BY <1>2, <1>3, <2>2, <3>1 DEF Ctl, Idle, Exited
  <2> QED
    BY <2>1, <2>2
<1>a. CASE At("program") /\ Call("program", ctl.a, "eval", First(ctl.a))
  <2> DEFINE f == Frame("program", ctl.a)
  <2>1. /\ ctl' = IF Undef \in {First(ctl.a), NULL} THEN Crashed ELSE Ctl("eval", First(ctl.a), NULL)
        /\ kont' = Append(kont, f) /\ ctxs' = ctxs
        /\ files' = files /\ lines' = lines /\ interactive' = interactive
    BY <1>a DEF Call, Go, session
  <2>2. f \in Frames /\ f.k = "program" /\ f.a = ctl.a
    BY <1>2 DEF Frame, Frames, Kinds
  <2> HIDE DEF f
  <2>3. /\ ctl' \in [op : Steps, a : Ref, b : Ref] /\ ctl' \notin {Idle, Exited}
        /\ ctl'.op \in {"eval", "undefined"}
    BY <1>2, <1>3, <2>1 DEF Steps
  <2>4. /\ kont \in Seq(Frames) /\ kont' \in Seq(Frames) /\ Len(kont) \in Nat
        /\ Len(kont') = Len(kont) + 1 /\ kont'[Len(kont) + 1] = f
        /\ \A i \in 1 .. Len(kont) : kont'[i] = kont[i]
        /\ DOMAIN kont = 1 .. Len(kont) /\ DOMAIN kont' = 1 .. Len(kont) + 1
    <3>1. kont \in Seq(Frames)
      BY DEF EvalInv, ControlOK
    <3>2. /\ kont' \in Seq(Frames) /\ Len(kont) \in Nat
          /\ Len(kont') = Len(kont) + 1 /\ kont'[Len(kont) + 1] = f
          /\ \A i \in 1 .. Len(kont) : kont'[i] = kont[i]
      BY <2>1, <2>2, <3>1, AppendFacts
    <3> QED
      BY <3>1, <3>2, LenProperties
  <2>5. ControlOK'
    BY <1>1, <2>3, <2>4 DEF ControlOK
  <2>6. ContextsOK'
    <3>1. Activations' = Activations
      BY <2>2, <2>4 DEF Activations
    <3> QED
      BY <1>1, <2>1, <2>3, <3>1 DEF EvalInv, ContextsOK, ContextsMatchCalls
  <2>7. BindOK' /\ ~ At("program")'
    BY <2>3 DEF BindOK, At
  <2>8. BodyOK'
    <3>1. ASSUME NEW i \in DOMAIN kont', WaitsInBody(i)'
          PROVE  (kont[i].a <= Rest(kont[i - 1].a))'
      <4>1. CASE i = Len(kont) + 1
        <5>1. Len(kont) >= 1 /\ kont'[i - 1] = kont[Len(kont)] /\ kont[Len(kont)].k = "call"
          BY <2>4, <3>1, <4>1 DEF WaitsInBody
        <5>2. kont # <<>> /\ Top = kont[Len(kont)]
          BY <5>1, <2>4 DEF Top
        <5>3. ctl.a <= Rest(Top.a)
          BY <1>a, <5>1, <5>2 DEF EvalInv, BodyOK
        <5>4. Rest(kont[i - 1].a)' = Rest(Top.a)
          BY <1>1, <5>1, <5>2 DEF Rest, Kind
        <5>5. kont'[i].a = ctl.a
          BY <2>2, <2>4, <4>1
        <5> QED
          BY <5>3, <5>4, <5>5
      <4>2. CASE i # Len(kont) + 1
        <5>1. i \in 1 .. Len(kont) /\ i - 1 \in 1 .. Len(kont)
          BY <2>4, <3>1, <4>2 DEF WaitsInBody
        <5> QED
          BY <1>1, <2>4, <3>1, <5>1, WaitsStay
      <4> QED
        BY <4>1, <4>2
    <3> QED
      BY <2>7, <3>1 DEF BodyOK, BodySeesItsArguments
  <2>9. SessionOK'
    BY <2>1 DEF EvalInv, SessionOK
  <2> QED
    BY <1>1, <2>5, <2>6, <2>7, <2>8, <2>9 DEF EvalInv
<1>b. CASE Resume("program") /\ Go("return", ctl.a, NULL, Pop)
  <2>1. "program" \in Kinds \ {"call"} /\ "return" \in Running
    BY DEF Kinds, Running, Steps
  <2> QED
    BY <1>1, <1>2, <1>b, <2>1, ResumeMoves, MovesOK
<1>c. CASE Resume("program") /\ Go("program", Rest(Top.a), NULL, Pop)
  <2>1. /\ ctl' = IF Undef \in {Rest(Top.a), NULL} THEN Crashed ELSE Ctl("program", Rest(Top.a), NULL)
        /\ kont' = Pop /\ ctxs' = ctxs
        /\ files' = files /\ lines' = lines /\ interactive' = interactive
        /\ kont # <<>> /\ Top.k = "program"
    BY <1>c DEF Go, session, Resume
  <2>2. /\ ctl' \in [op : Steps, a : Ref, b : Ref] /\ ctl' \notin {Idle, Exited}
        /\ ctl'.op \in {"program", "undefined"} /\ (ctl'.op = "program" => ctl'.a = Rest(Top.a))
    BY <1>2, <1>3, <2>1 DEF Steps
  <2>3. Reframes(Pop)
    BY <2>1 DEF Reframes
  <2>4. /\ kont' \in Seq(Frames) /\ CallsOf(kont') = Activations
        /\ \A i \in DOMAIN kont' :
              i > 1 /\ kont'[i].k = "program" /\ kont'[i - 1].k = "call" =>
                i \in DOMAIN kont /\ i - 1 \in DOMAIN kont
                /\ kont'[i] = kont[i] /\ kont'[i - 1] = kont[i - 1]
    BY <2>1, <2>3, ReframesOK DEF EvalInv
  <2>5. /\ Len(kont) \in Nat \ {0} /\ DOMAIN kont = 1 .. Len(kont) /\ Top = kont[Len(kont)]
        /\ Len(kont') = Len(kont) - 1
        /\ \A i \in 1 .. Len(kont) - 1 : kont'[i] = kont[i]
    BY <2>1, TopFacts DEF EvalInv
  <2>6. ControlOK'
    BY <1>1, <2>2, <2>4 DEF ControlOK
  <2>7. ContextsOK'
    <3>1. Activations' = Activations
      BY <2>4 DEF CallsOf, Activations
    <3> QED
      BY <1>1, <2>1, <2>2, <3>1 DEF EvalInv, ContextsOK, ContextsMatchCalls
  <2>8. BindOK'
    BY <2>2 DEF BindOK, At
  <2>9. ASSUME At("program")', kont' # <<>>, Top'.k = "call"
        PROVE  ctl'.a < Rest(Top.a)' /\ ctl'.a \in Nat /\ Rest(Top.a)' \in Nat
    <3>1. Len(kont) - 1 \in 1 .. Len(kont) - 1 /\ Len(kont) > 1
      <4>1. Len(kont') # 0
        BY <2>4, <2>9, EmptySeq
      <4> QED
        BY <2>5, <4>1
    <3>2. Top' = kont[Len(kont) - 1]
      BY <2>5, <3>1 DEF Top
    <3>3. Top.a <= Rest(kont[Len(kont) - 1].a)
      <4>1. Len(kont) \in DOMAIN kont /\ WaitsInBody(Len(kont))
        BY <2>1, <2>5, <2>9, <3>1, <3>2 DEF WaitsInBody
      <4> QED
        BY <2>5, <4>1 DEF EvalInv, BodyOK
    <3>4. ctl'.a = Rest(Top.a) /\ ctl'.a \in Ref
      BY <2>2, <2>9 DEF At
    <3>5. Top.a \in DOMAIN heap /\ Rest(Top.a) \in 0 .. Top.a - 1
      <4>1. HeapOK /\ Rest(Top.a) # Undef
        BY <3>4 DEF EvalInv, MemOK, Ref, Undef
      <4>2. Top.a \in DOMAIN heap
        BY <4>1 DEF Rest, Kind
      <4> QED
        BY <4>1, <4>2, FirstRest
    <3>6. Rest(Top.a)' = Rest(kont[Len(kont) - 1].a)
      BY <1>1, <3>2 DEF Rest, Kind
    <3>7. Rest(kont[Len(kont) - 1].a) \in MaybeRef
      BY <1>2
    <3>8. Top.a \in Nat \ {0}
      BY <3>5, HeapFacts DEF EvalInv, MemOK
    <3>9. Rest(kont[Len(kont) - 1].a) \in Nat
      BY <3>3, <3>7, <3>8 DEF MaybeRef, Undef
    <3> QED
      BY <3>3, <3>4, <3>5, <3>6, <3>8, <3>9
  <2>10. BodyOK'
    <3>1. ASSUME NEW i \in DOMAIN kont', WaitsInBody(i)'
          PROVE  (kont[i].a <= Rest(kont[i - 1].a))'
      <4>1. /\ i \in DOMAIN kont /\ i - 1 \in DOMAIN kont
            /\ kont'[i] = kont[i] /\ kont'[i - 1] = kont[i - 1]
        BY <2>4, <3>1 DEF WaitsInBody
      <4> QED
        BY <1>1, <3>1, <4>1, WaitsStay
    <3>2. BodySeesItsArguments'
      <4>1. ~ (At("program") /\ kont # <<>> /\ Top.k = "call" /\ ctl.a = Rest(Top.a))'
        BY <2>9
      <4> QED
        BY <4>1 DEF BodySeesItsArguments
    <3>3. (At("program") /\ kont # <<>> /\ Top.k = "call" => ctl.a <= Rest(Top.a))'
      BY <2>9
    <3> QED
      BY <3>1, <3>2, <3>3 DEF BodyOK
  <2>11. SessionOK'
    BY <2>1 DEF EvalInv, SessionOK
  <2> QED
    BY <1>1, <2>6, <2>7, <2>8, <2>10, <2>11 DEF EvalInv
<1> QED
  BY <1>a, <1>b, <1>c DEF EvalProgram

-----------------------------------------------------------------------------
(* The session.                                                            *)

(* A step between two programs.                                            *)
LEMMA BetweenPrograms ==
    ASSUME EvalInv, MemOK', Grown, Len(envs') = Len(envs), kont = <<>>,
           UNCHANGED <<kont, ctxs>>, SessionOK',
           ctl' \in {Idle, Exited} \cup {Ctl("program", r, NULL) : r \in Ref'}
    PROVE  EvalInv'
<1>1. NULL \in Ref'
  BY LenProperties DEF MemOK, HeapOK, IsSequence, Ref, NULL
<1>2. ControlOK'
  <2>1. ctl' \in [op : Steps, a : Ref', b : Ref']
    BY <1>1 DEF Idle, Exited, Ctl, Steps
  <2>2. kont' \in Seq(Frames')
    OBVIOUS
  <2> QED
    BY <2>1, <2>2 DEF ControlOK
<1>3. ContextsOK'
  <2>1. Activations' = Activations /\ Envs' = Envs
    BY DEF Activations, Envs
  <2> QED
    BY <2>1 DEF EvalInv, ContextsOK, ContextsMatchCalls
<1>4. BindOK'
  BY DEF BindOK, At, Idle, Exited, Ctl
<1>5. BodyOK'
  BY DEF BodyOK, BodySeesItsArguments, WaitsInBody
<1> QED
  BY <1>2, <1>3, <1>4, <1>5 DEF EvalInv

(* The value of a program is shown and the buffer that showed it freed.    *)
LEMMA ShowResultOK ==
    ASSUME EvalInv, ShowResult
    PROVE  EvalInv'
<1>1. CASE Crash
  BY <1>1, CrashOK
<1>2. CASE /\ heap' = Append(heap, ConsString(Text(ctl.a)))
           /\ freed' = freed \cup {Len(heap) + 1} \cup FreedByShowing(ctl.a)
           /\ ctl' = Idle
           /\ UNCHANGED <<envs, kont, ctxs, session>>
  <2>1. HeapOK /\ FreedOK /\ EnvsOK /\ MemOK /\ Len(heap) \in Nat /\ DOMAIN heap = 1 .. Len(heap)
    BY HeapFacts DEF EvalInv, MemOK
  <2> DEFINE n == ConsString(Text(ctl.a))
  <2>2. NodeOK(n, Len(heap) + 1) /\ n.type = "STRING"
    BY DEF NodeOK, Types, ConsString
  <2>3. heap' = Append(heap, n)
    BY <1>2
  <2> HIDE DEF n
  <2>4. HeapOK' /\ Grown /\ Len(heap') = Len(heap) + 1 /\ heap'[Len(heap) + 1] = n
    BY <2>1, <2>2, <2>3, NodeAdded
  <2>5. DOMAIN heap' = 1 .. Len(heap) + 1 /\ Ref \subseteq Ref'
    BY <2>1, <2>4, LenProperties DEF HeapOK, IsSequence, Ref
  <2>6. EnvsOK'
    BY <1>2, <2>1, <2>5 DEF EnvsOK, ActivationsBelowGlobal, Envs
  <2>7. FreedOK'
    <3>1. \A i \in FreedByShowing(ctl.a) : i \in DOMAIN heap /\ heap[i].type = "STRING"
      BY DEF FreedByShowing, Kind
    <3>2. \A i \in freed' : i = Len(heap) + 1 \/ (i \in DOMAIN heap /\ heap[i].type = "STRING")
      BY <1>2, <2>1, <3>1 DEF FreedOK
    <3> QED
      BY <2>1, <2>2, <2>4, <2>5, <3>2 DEF FreedOK, Grown
  <2>8. SessionOK'
    BY <1>2 DEF EvalInv, SessionOK, session
  <2>9. kont = <<>> /\ Len(envs') = Len(envs) /\ MemOK'
    BY <1>2, <2>4, <2>6, <2>7 DEF ShowResult, MemOK
  <2> QED
    BY <1>2, <2>4, <2>8, <2>9, BetweenPrograms
<1> QED
  BY <1>1, <1>2 DEF ShowResult

(* What one of the inputs does, read from a file or at the prompt.         *)
LEMMA InputOK ==
    ASSUME EvalInv, ctl = Idle, NEW i \in DOMAIN Inputs,
           ParseFailed(Inputs[i]) \/ ParseDone(Inputs[i]),
           UNCHANGED <<kont, ctxs>>, SessionOK'
    PROVE  EvalInv'
<1>1. kont = <<>>
  BY DEF EvalInv, ContextsOK, ContextsMatchCalls
<1>2. CASE ParseFailed(Inputs[i])
  <2>1. ctl' = Idle /\ UNCHANGED mem
    BY <1>2 DEF ParseFailed
  <2>2. MemOK' /\ Grown /\ Len(envs') = Len(envs)
    BY <2>1, MemStays DEF EvalInv
  <2> QED
    BY <1>1, <2>1, <2>2, BetweenPrograms
<1>3. CASE ParseDone(Inputs[i])
  <2> DEFINE nodes == Inputs[i].nodes
             root == Inputs[i].root
  <2>1. BuiltByParser(nodes) /\ root \in 1 .. Len(StaticNodes) + Len(nodes)
    BY InputsAssumption
  <2>2. /\ Load(nodes) /\ ctl' = Ctl("program", Relocated(root), NULL)
        /\ UNCHANGED <<freed, envs>>
    BY <1>3 DEF ParseDone
  <2> HIDE DEF nodes, root
  <2>3. MemOK /\ HeapOK /\ Len(heap) \in Nat /\ Len(heap) >= 2
    BY HeapFacts DEF EvalInv, MemOK
  <2>4. /\ HeapOK' /\ Len(heap') = Len(heap) + Len(nodes)
        /\ \A r \in DOMAIN heap : r \in DOMAIN heap' /\ heap'[r] = heap[r]
    BY <2>1, <2>2, <2>3, LoadOK
  <2>5. Len(nodes) \in Nat
    BY <2>1, LenProperties DEF BuiltByParser
  <2>6. Grown
    BY <2>3, <2>4, <2>5 DEF Grown
  <2>7. MemOK' /\ Len(envs') = Len(envs)
    BY <2>2, <2>3, <2>4, <2>6, MemGrows
  <2>8. Len(StaticNodes) = 2
    BY DEF StaticNodes
  <2>9. Relocated(root) \in Ref'
    BY <2>1, <2>3, <2>4, <2>5, <2>8 DEF Relocated, Ref, T
  <2> QED
    BY <1>1, <2>2, <2>6, <2>7, <2>9, BetweenPrograms
<1> QED
  BY <1>2, <1>3

(* Files, lines and the end.                                               *)
LEMMA SessionStepOK ==
    ASSUME EvalInv, ReadFile \/ ReadLine \/ Leave
    PROVE  EvalInv'
<1>0. /\ MaxFiles \in Nat /\ MaxLines \in Nat
      /\ files \in 0 .. MaxFiles /\ lines \in 0 .. MaxLines /\ interactive \in BOOLEAN
  BY SessionAssumption DEF EvalInv, SessionOK
<1>1. CASE ReadFile
  <2>1. PICK i \in DOMAIN Inputs :
             ParseFailed(Inputs[i]) \/ (ParseDone(Inputs[i]) /\ files' = files - 1)
    BY <1>1 DEF ReadFile
  <2>2. files > 0 /\ ctl = Idle /\ UNCHANGED <<kont, ctxs, interactive, lines>>
    BY <1>1 DEF ReadFile
  <2>3. files' = 0 \/ files' = files - 1
    BY <2>1 DEF ParseFailed
  <2>4. SessionOK'
    BY <1>0, <2>2, <2>3 DEF SessionOK
  <2> QED
    BY <2>1, <2>2, <2>4, InputOK
<1>2. CASE ReadLine
  <2>1. PICK i \in DOMAIN Inputs :
             ParseFailed(Inputs[i]) \/ (ParseDone(Inputs[i]) /\ files' = files)
    BY <1>2 DEF ReadLine
  <2>2. ctl = Idle /\ lines < MaxLines /\ lines' = lines + 1 /\ UNCHANGED <<kont, ctxs, interactive>>
    BY <1>2 DEF ReadLine
  <2>3. files' = 0 \/ files' = files
    BY <2>1 DEF ParseFailed
  <2>4. SessionOK'
    BY <1>0, <2>2, <2>3 DEF SessionOK
  <2> QED
    BY <2>1, <2>2, <2>4, InputOK
<1>3. CASE Leave
  <2>1. ctl = Idle /\ ctl' = Exited /\ UNCHANGED <<mem, kont, ctxs, session>>
    BY <1>3 DEF Leave
  <2>2. kont = <<>>
    BY <2>1 DEF EvalInv, ContextsOK, ContextsMatchCalls
  <2>3. MemOK' /\ Grown /\ Len(envs') = Len(envs)
    BY <2>1, MemStays DEF EvalInv
  <2>4. SessionOK'
    BY <1>0, <2>1 DEF SessionOK, session
  <2> QED
    BY <2>1, <2>2, <2>3, <2>4, BetweenPrograms
<1> QED
  BY <1>1, <1>2, <1>3

(* A step that changes nothing.                                            *)
LEMMA StutterOK ==
    ASSUME EvalInv, UNCHANGED vars
    PROVE  EvalInv'
<1>1. /\ heap' = heap /\ freed' = freed /\ envs' = envs /\ ctl' = ctl /\ kont' = kont
      /\ ctxs' = ctxs /\ files' = files /\ lines' = lines /\ interactive' = interactive
      /\ UNCHANGED mem
  BY DEF vars, mem, machine, session
<1>2. MemOK'
  BY <1>1, MemStays DEF EvalInv
<1>3. Ref' = Ref /\ Envs' = Envs /\ Frames' = Frames /\ Activations' = Activations
      /\ CurEnv' = CurEnv
  BY <1>1 DEF Ref, Envs, Frames, Activations, CurEnv
<1>4. ControlOK' /\ ContextsOK' /\ SessionOK'
  BY <1>1, <1>3 DEF EvalInv, ControlOK, ContextsOK, ContextsMatchCalls, SessionOK
<1>5. /\ Top' = Top /\ Params' = Params /\ Args' = Args
      /\ \A i : Name(i)' = Name(i) /\ First(Args[i])' = First(Args[i])
  BY <1>1, NamesStay
<1>6. \A i : /\ Binder(CurEnv, Name(i))' = Binder(CurEnv, Name(i))
             /\ EnvLookup(CurEnv, Name(i))' = EnvLookup(CurEnv, Name(i))
  <2> TAKE i
  <2>1. PICK e, x : e = CurEnv /\ x = Name(i)
    OBVIOUS
  <2>2. CurEnv' = e /\ Name(i)' = x
    BY <1>3, <1>5, <2>1
  <2>3. /\ Binder(CurEnv, Name(i))' = Binder(e, x)'
        /\ EnvLookup(CurEnv, Name(i))' = EnvLookup(e, x)'
    BY <2>2, LookupAfter
  <2>4. Binder(e, x)' = Binder(e, x)
    BY <1>1 DEF Binder, Hits, FirstHit
  <2>5. EnvLookup(e, x)' = EnvLookup(e, x)
    BY <1>1, <2>4 DEF EnvLookup
  <2> QED
    BY <2>1, <2>3, <2>4, <2>5
<1>7. BindOK'
  <2>1. \A n : Bound(n)' = Bound(n)
    BY <1>5, <1>6 DEF Bound
  <2>2. First(Top.a)' = First(Top.a) /\ Kind(Top.a)' = Kind(Top.a)
    BY <1>1, <1>5 DEF First, Kind
  <2> QED
    BY <1>1, <1>5, <2>1, <2>2 DEF EvalInv, BindOK, Binding, At
<1>8. BodyOK'
  <2>1. \A i : WaitsInBody(i)' = WaitsInBody(i) /\ Rest(kont[i - 1].a)' = Rest(kont[i - 1].a)
    BY <1>1 DEF WaitsInBody, Rest, Kind
  <2>2. Rest(Top.a)' = Rest(Top.a)
    BY <1>1, <1>5 DEF Rest, Kind
  <2>3. BodySeesItsArguments'
    <3>1. BodySeesItsArguments
      BY DEF EvalInv, BodyOK
    <3>2. CASE At("program") /\ kont # <<>> /\ Top.k = "call" /\ ctl.a = Rest(Top.a)
      <4>1. FindsArguments
        BY <3>1, <3>2 DEF BodySeesItsArguments, FindsArguments, BodyParams, BodyArgs, BodyName
      <4>2. FindsArguments'
        BY <1>1, <4>1, FindsArgumentsStays
      <4> QED
        BY <4>2 DEF BodySeesItsArguments, FindsArguments, BodyParams, BodyArgs, BodyName
    <3>3. CASE ~ (At("program") /\ kont # <<>> /\ Top.k = "call" /\ ctl.a = Rest(Top.a))
      <4>1. ~ (At("program") /\ kont # <<>> /\ Top.k = "call" /\ ctl.a = Rest(Top.a))'
        BY <1>1, <1>5, <2>2, <3>3 DEF At
      <4> QED
        BY <4>1 DEF BodySeesItsArguments
    <3> QED
      BY <3>2, <3>3
  <2> QED
    BY <1>1, <1>5, <2>1, <2>2, <2>3 DEF EvalInv, BodyOK, At
<1> QED
  BY <1>2, <1>4, <1>7, <1>8 DEF EvalInv

-----------------------------------------------------------------------------
(* The invariant.                                                          *)

(* Every step keeps it.                                                    *)
LEMMA EvalNextOK ==
    ASSUME EvalInv, EvalNext
    PROVE  EvalInv'
<1>1. CASE \/ LookupSymbol \/ EvalAtom \/ EvalLambda \/ EvalHead \/ HeadIsNull
           \/ EvalQuote \/ EvalEval \/ EvalAnd \/ EvalOr \/ EvalIf
  BY <1>1, EvalMoves, MovesOK
<1>2. CASE \/ Apply \/ ApplyFunction \/ NotAFunction \/ NoArglist
           \/ BuiltinRefused \/ BuiltinList \/ BuiltinFuncall
  BY <1>2, ApplyMoves, MovesOK
<1>3. CASE EvalList \/ BuiltinSet \/ BuiltinPrint \/ BuiltinStr \/ BuiltinPure
  BY <1>3, EvalListOK, BuiltinSetOK, BuiltinPrintOK, BuiltinStrOK, BuiltinPureOK
<1>4. CASE CallLambda \/ BindParam \/ ReturnFromCall \/ EvalProgram \/ ShowResult
  BY <1>4, CallLambdaOK, BindParamOK, ReturnFromCallOK, EvalProgramOK, ShowResultOK
<1>5. CASE ReadFile \/ ReadLine \/ Leave
  BY <1>5, SessionStepOK
<1> QED
  BY <1>1, <1>2, <1>3, <1>4, <1>5 DEF EvalNext, EvalStep

(* So it always holds, whatever programs are read: memory is sound, the    *)
(* frames and the Contexts of the calls (eval.c, funcall_lambda, raise)    *)
(* match, and the parameters of a call are bound to its arguments.         *)
THEOREM EvalInvariant == EvalSpec => []EvalInv
<1>1. EvalInit => EvalInv
  BY EvalInitOK
<1>2. EvalInv /\ [EvalNext]_vars => EvalInv'
  BY EvalNextOK, StutterOK
<1> QED
  BY <1>1, <1>2, PTL DEF EvalSpec

(* Every pointer the interpreter stores, in a node, in an environment or   *)
(* in a C frame, is NULL or a node that exists, and only strings have      *)
(* their buffer freed.                                                     *)
THEOREM EvalWellTyped == EvalSpec => []EvalTypeOK
<1>1. EvalInv => EvalTypeOK
  <2> SUFFICES ASSUME EvalInv PROVE EvalTypeOK
    OBVIOUS
  <2>1. HeapOK /\ FreedOK /\ EnvsOK /\ ControlOK /\ ContextsOK /\ SessionOK
    BY DEF EvalInv, MemOK
  <2>2. ASSUME NEW i \in DOMAIN heap
        PROVE  /\ heap[i].type \in Types
               /\ heap[i].type \in {"LIST", "LAMBDA"} => {First(i), Rest(i)} \subseteq Ref
               /\ heap[i].type = "LAMBDA" => heap[i].env \in Envs
    <3>1. NodeOK(heap[i], i) /\ Kind(i) = heap[i].type /\ i \in 1 .. Len(heap) /\ Len(heap) \in Nat
      BY <2>1, HeapFacts DEF HeapOK, Kind
    <3>2. heap[i].type \in {"LIST", "LAMBDA"} => First(i) \in 0 .. i - 1 /\ Rest(i) \in 0 .. i - 1
      BY <2>1, <3>1, FirstRest
    <3> QED
      BY <2>1, <3>1, <3>2 DEF NodeOK, EnvsOK, Ref
  <2>3. \A i \in DOMAIN kont : {kont[i].a, kont[i].args} \subseteq Ref
    <3> TAKE i \in DOMAIN kont
    <3>1. kont[i] \in Frames
      BY <2>1, ElementOfSeq, LenProperties DEF ControlOK
    <3> QED
      BY <3>1 DEF Frames
  <2>4. ctl.op \in Steps /\ {ctl.a, ctl.b} \subseteq Ref
    BY <2>1 DEF ControlOK
  <2> QED
    BY <2>1, <2>2, <2>3, <2>4 DEF EvalTypeOK, FreedOK, EnvsOK, ContextsOK, SessionOK
<1> QED
  BY <1>1, EvalInvariant, PTL

(* The Contexts of funcall_lambda are always those of the calls under way, *)
(* each younger than its caller's, and at the prompt none is left.         *)
THEOREM ContextsUnwind == EvalSpec => []ContextsMatchCalls
<1>1. EvalInv => ContextsMatchCalls
  BY DEF EvalInv, ContextsOK
<1> QED
  BY <1>1, EvalInvariant, PTL

(* No chain ever has a third environment: env_lookup takes two steps.      *)
THEOREM ScopesAreShallow == EvalSpec => []ActivationsBelowGlobal
<1>1. EvalInv => ActivationsBelowGlobal
  BY DEF EvalInv, MemOK, EnvsOK
<1> QED
  BY <1>1, EvalInvariant, PTL

(* Whatever the names of the parameters and wherever env_set has put them, *)
(* the body of a lambda starts with each resolving to its argument.        *)
THEOREM ArgumentsArrive == EvalSpec => []BodySeesItsArguments
<1>1. EvalInv => BodySeesItsArguments
  BY DEF EvalInv, BodyOK
<1> QED
  BY <1>1, EvalInvariant, PTL

-----------------------------------------------------------------------------
(* The evaluator as a user of environments.                                *)

(* What a step may do to them: a new one below the global one, or a write  *)
(* through the environment of the innermost call.                          *)
EnvsStep ==
    \/ UNCHANGED envs
    \/ UNCHANGED heap /\ EnvNew(Global)
    \/ UNCHANGED heap /\ \E s \in Symbols, v \in Ref : EnvSet(CurEnv, s, v)

(* No step does anything else to them.                                     *)
LEMMA EnvsStepOK ==
    ASSUME EvalInv, [EvalNext]_vars
    PROVE  EnvsStep
<1>0. HeapOK
  BY DEF EvalInv, MemOK
<1>1. CASE \/ LookupSymbol \/ EvalAtom \/ EvalLambda \/ EvalHead \/ HeadIsNull
           \/ EvalQuote \/ EvalEval \/ EvalAnd \/ EvalOr \/ EvalIf
  <2>1. UNCHANGED mem
    BY <1>1, EvalMoves DEF Moves
  <2> QED
    BY <2>1 DEF EnvsStep, mem
<1>2. CASE \/ Apply \/ ApplyFunction \/ NotAFunction \/ NoArglist
           \/ BuiltinRefused \/ BuiltinList \/ BuiltinFuncall
  <2>1. UNCHANGED mem
    BY <1>2, ApplyMoves DEF Moves
  <2> QED
    BY <2>1 DEF EnvsStep, mem
<1>3. CASE EvalList \/ BuiltinPrint \/ BuiltinStr
  <2>1. UNCHANGED envs
    BY <1>3 DEF EvalList, BuiltinPrint, BuiltinStr, Crash, mem
  <2> QED
    BY <2>1 DEF EnvsStep
<1>4. CASE BuiltinPure
  <2>1. PICK p \in PureBuiltins :
             LET r == Result(p, ctl.b) IN
               \/ r.err # "none" /\ Raise(r.err) /\ UNCHANGED mem
               \/ /\ r.err = "none"
                  /\ heap' = heap \o r.new
                  /\ Return(r.ref)
                  /\ UNCHANGED <<freed, envs>>
               \/ ArithmeticOverflows(p, ctl.b) /\ Crash
    BY <1>4 DEF BuiltinPure
  <2> DEFINE r == Result(p, ctl.b)
  <2>2. UNCHANGED mem \/ Crash \/ UNCHANGED <<freed, envs>>
    BY <2>1
  <2> QED
    BY <2>2 DEF EnvsStep, Crash, mem
<1>5. CASE BuiltinSet
  <2>1. CASE Settable(First(ctl.b))
    <3>1. /\ EnvSet(CurEnv, heap[First(ctl.b)].symbol, First(Rest(ctl.b)))
          /\ UNCHANGED heap
      BY <1>5, <2>1 DEF BuiltinSet
    <3>2. heap[First(ctl.b)].symbol \in Symbols /\ First(Rest(ctl.b)) \in Ref
      BY <1>5, <2>1, SetWrites
    <3> QED
      BY <3>1, <3>2 DEF EnvsStep
  <2>2. CASE ~ Settable(First(ctl.b))
    BY <1>5, <2>2 DEF BuiltinSet, EnvsStep
  <2> QED
    BY <2>1, <2>2
<1>6. CASE CallLambda
  <2>1. CASE UNCHANGED mem
    BY <2>1 DEF mem, EnvsStep
  <2>2. CASE NewScope(ctl.a) /\ UNCHANGED heap
    <3>1. heap[ctl.a].env = Global
      BY <1>0, <1>6, ParamsEnd DEF CallLambda, Calling
    <3> QED
      BY <2>2, <3>1 DEF NewScope, EnvsStep
  <2> QED
    BY <1>6, <2>1, <2>2 DEF CallLambda
<1>7. CASE BindParam
  <2>1. CASE /\ At("bind") /\ NIL \notin {ctl.a, ctl.b} /\ Settable(First(ctl.a))
             /\ EnvSet(CurEnv, heap[First(ctl.a)].symbol, First(ctl.b)) /\ UNCHANGED heap
    <3>1. heap[First(ctl.a)].symbol \in Symbols /\ First(ctl.b) \in Ref
      BY <2>1, BindWrites
    <3> QED
      BY <2>1, <3>1 DEF EnvsStep
  <2>2. CASE UNCHANGED envs
    BY <2>2 DEF EnvsStep
  <2> QED
    BY <1>7, <2>1, <2>2 DEF BindParam, mem
<1>8. CASE ReturnFromCall \/ EvalProgram \/ ShowResult
  <2>1. UNCHANGED envs
    BY <1>8 DEF ReturnFromCall, EvalProgram, ShowResult, Crash, mem
  <2> QED
    BY <2>1 DEF EnvsStep
<1>9. CASE ReadFile \/ ReadLine \/ Leave
  <2>1. UNCHANGED envs
    BY <1>9 DEF ReadFile, ReadLine, Leave, ParseFailed, ParseDone, mem
  <2> QED
    BY <2>1 DEF EnvsStep
<1>10. CASE UNCHANGED vars
  BY <1>10 DEF vars, mem, EnvsStep
<1> QED
  BY <1>1, <1>2, <1>3, <1>4, <1>5, <1>6, <1>7, <1>8, <1>9, <1>10 DEF EvalNext, EvalStep

(* An environment other than the global one is written by its own call     *)
(* only: not by what the call calls, not after its return.                 *)
THEOREM ScopesStayPrivate == EvalSpec => ScopesArePrivate
<1> DEFINE Private == \A e \in Envs \ {Global} : e # CurEnv => envs'[e] = envs[e]
<1>1. EvalInv /\ [EvalNext]_vars => [Private]_vars
  <2> SUFFICES ASSUME EvalInv, [EvalNext]_vars, NEW e \in Envs \ {Global}, e # CurEnv
               PROVE  envs'[e] = envs[e]
    OBVIOUS
  <2>1. HeapOK /\ EnvsOK /\ CurEnv \in Envs
    BY CurEnvOK DEF EvalInv, MemOK
  <2>2. EnvsStep
    BY EnvsStepOK
  <2>3. CASE UNCHANGED heap /\ EnvNew(Global)
    BY <2>1, <2>3, EnvNewOK
  <2>4. CASE UNCHANGED heap /\ \E s \in Symbols, v \in Ref : EnvSet(CurEnv, s, v)
    <3>1. PICK s \in Symbols, v \in Ref : EnvSet(CurEnv, s, v)
      BY <2>4
    <3>2. PICK c \in Envs : c = CurEnv
      BY <2>1
    <3>3. EnvSet(c, s, v)
      BY <3>1, <3>2
    <3>4. \A d \in Envs \ {c, Global} : envs'[d] = envs[d]
      BY <2>1, <2>4, <3>3, EnvSetOK
    <3> QED
      BY <3>2, <3>4
  <2> QED
    BY <2>2, <2>3, <2>4 DEF EnvsStep
<1>2. EvalSpec => [][Private]_vars
  BY <1>1, EvalInvariant, PTL DEF EvalSpec
<1> QED
  BY <1>2 DEF ScopesArePrivate

(* The evaluator uses environments as Env says, if whatever a pointer can  *)
(* be is something a name can be bound to.                                 *)
THEOREM EvaluatorUsesEnvironments ==
    ASSUME Nat \subseteq Values
    PROVE  EvalSpec => EnvSpec
<1>1. EvalInit => EnvInit
  BY DEF EvalInit
<1>2. EvalInv /\ [EvalNext]_vars => [EnvNext]_envs
  <2> SUFFICES ASSUME EvalInv, [EvalNext]_vars PROVE [EnvNext]_envs
    OBVIOUS
  <2>1. Ref \subseteq Values
    BY HeapFacts DEF EvalInv, MemOK, Ref
  <2>2. CurEnv \in Envs /\ Global \in Envs
    BY CurEnvOK DEF EvalInv, MemOK, EnvsOK
  <2>3. EnvsStep
    BY EnvsStepOK
  <2> QED
    BY <2>1, <2>2, <2>3 DEF EnvsStep, EnvNext
<1> QED
  BY <1>1, <1>2, EvalInvariant, PTL DEF EvalSpec, EnvSpec

(* So what a name resolves to from an environment never changes in any     *)
(* program, although anybody may set anything.                             *)
THEOREM ProgramsResolveStably ==
    ASSUME Nat \subseteq Values
    PROVE  EvalSpec => ResolutionStable
  BY EvaluatorUsesEnvironments, ResolutionIsStable, PTL
=============================================================================
