----------------------------- MODULE TraceProofs ------------------------------
(***************************************************************************)
(* The properties of Trace.tla, for every number of commands, interrupts   *)
(* and turns and every choice of options.                                  *)
(*                                                                         *)
(* The argument is the one of a type system.  A state of trace.c is what   *)
(* the properties tell apart: the counter set or not, tracing on or off,   *)
(* and the two positions the stack may hold.  A phase is what the thread   *)
(* at work knows of the line printed last: whether it shows the present    *)
(* cycle and is one of its own.  Safe and Goes say when a call may be made *)
(* in a state and a phase, and which follow; Runs lifts both to sequences. *)
(* Every macro, instruction and handler of the model runs safely from Base *)
(* to Base, so the invariant is that the calls a thread still has to make  *)
(* run safely from the present state, and a phase that holds, to Base, and *)
(* that one thread at most has any.                                        *)
(***************************************************************************)
EXTENDS Trace, SequenceTheorems, TLAPS

-----------------------------------------------------------------------------
(***************************************************************************)
(* What a call does to the tracing machine                                 *)
(***************************************************************************)
\* The calls of Trace.tla, and the positions they carry.
Positions == Sites \cup {NoSite}
Kinds == {"start_location", "end_location", "register", "memory", "disable", "enable",
          "cycle", "cycle_zero", "arm_state", "turn"}
Calls == [call : Kinds, site : Positions, sure : BOOLEAN]

\* What trace.c is in: the counter not set yet, tracing on, and the positions
\* of a call and of one of its arguments.
States == [boot : BOOLEAN, on : BOOLEAN, first : Positions, second : Positions]

\* Between operations; before arm_create is done; in a handler.
Base == [boot |-> FALSE, on |-> TRUE, first |-> NoSite, second |-> NoSite]
Boot == [boot |-> TRUE, on |-> TRUE, first |-> NoSite, second |-> NoSite]
Off == [boot |-> FALSE, on |-> FALSE, first |-> NoSite, second |-> NoSite]

\* The stack of at most two positions: its top, a push and a pop.
Top(x) == IF x.second # NoSite THEN x.second ELSE x.first

Push(x, s) ==
    IF x.first = NoSite THEN [x EXCEPT !.first = s] ELSE [x EXCEPT !.second = s]

Pop(x) ==
    IF x.second # NoSite THEN [x EXCEPT !.second = NoSite] ELSE [x EXCEPT !.first = NoSite]

\* The call c is safe in x and leads to y: the stack has room and is not empty
\* when it must not be, and an access traced shows its own position or none.
Safe(c, x, y) ==
    \/ /\ c.call = "start_location" /\ x.on /\ c.site \in Sites /\ x.second = NoSite
       /\ y = Push(x, c.site)
    \/ c.call = "end_location" /\ x.on /\ x.first # NoSite /\ y = Pop(x)
    \/ c.call \in {"start_location", "end_location"} /\ ~x.on /\ y = x
    \/ /\ c.call \in {"register", "memory"} /\ y = x
       /\ x.on => /\ c.site # "handler" /\ Top(x) \in {c.site, NoSite}
                  /\ c.sure => Top(x) = c.site
    \/ /\ c.call \in {"disable", "enable"} /\ y.on = (c.call = "enable")
       /\ y.boot = x.boot /\ y.first = x.first /\ y.second = x.second
    \/ c.call = "cycle" /\ ~x.boot /\ y = x
    \/ /\ c.call = "cycle_zero" /\ x.boot /\ ~y.boot
       /\ y.on = x.on /\ y.first = x.first /\ y.second = x.second
    \/ c.call \in {"arm_state", "turn"} /\ x = Base /\ y = Base

\* What a thread knows of the line printed last.  "free": it is not gdb's and
\* may go on with any line; gdb's phases are "other" (the line shows the present
\* cycle, but may be another's), "new" (the cycle has just been counted), "reg"
\* and "fetched" (pc, then the word, has been traced if asked for), "own" (the
\* line is one of the present instruction).
Phases == {"free", "other", "new", "reg", "fetched", "own"}

\* The access c may print a line in phase p, and q holds after it.
Prints(c, p, q) ==
    \/ c.site = "fetch" /\ c.call = "register" /\ p = "new" /\ q = "reg"
    \/ c.site = "fetch" /\ c.call = "memory" /\ p = "reg" /\ q = "fetched"
    \/ c.site = "fetch" /\ c.call = "register" /\ p = "fetched" /\ q = "own"
    \/ c.site # "fetch" /\ p = "own" /\ q \in {"own", "other"}
    \/ c.site # "fetch" /\ p = "free" /\ q = "free"

\* The call c may be made in phase p, and leads to q.
Goes(c, on, p, q) ==
    \/ c.call \in {"start_location", "end_location", "disable", "enable"} /\ q = p
    \/ c.call \in {"register", "memory"} /\ ~on /\ q = p
    \/ c.call \in {"register", "memory"} /\ on /\ Prints(c, p, q)
    \/ c.call = "cycle" /\ p = "other" /\ q = "new"
    \/ c.call = "cycle_zero" /\ p = "free" /\ q = "free"
    \/ c.call = "arm_state" /\ p = "own" /\ q = "other"
    \/ c.call = "turn" /\ p = "other" /\ q = "other"

\* A state and a phase.
At(x, p) == [st |-> x, phase |-> p]
Points == [st : States, phase : Phases]

Moves(c, x, y) == Safe(c, x.st, y.st) /\ Goes(c, x.st.on, x.phase, y.phase)

\* The calls of s, one after the other, are safe and lead from x to y.
Path(p, s) ==
    /\ p \in [0 .. Len(s) -> Points]
    /\ \A i \in 1 .. Len(s) : Moves(s[i], p[i - 1], p[i])

Runs(s, x, y) ==
    /\ s \in Seq(Calls)
    /\ \E p : Path(p, s) /\ p[0] = x /\ p[Len(s)] = y

\* A first call, and the rest.
LEMMA RunsHead ==
    ASSUME NEW s, s # <<>>, NEW x, NEW z, Runs(s, x, z)
    PROVE  \E y \in Points : Moves(Head(s), x, y) /\ Runs(Tail(s), y, z)
<1>1. s \in Seq(Calls)
  BY DEF Runs
<1>2. /\ Len(s) \in Nat /\ Len(s) >= 1 /\ Len(Tail(s)) = Len(s) - 1 /\ Head(s) = s[1]
      /\ \A i \in 1 .. Len(s) - 1 : Tail(s)[i] = s[i + 1]
      /\ Tail(s) \in Seq(Calls)
  BY <1>1
<1>3. PICK p : Path(p, s) /\ p[0] = x /\ p[Len(s)] = z
  BY DEF Runs
<1>4. p \in [0 .. Len(s) -> Points] /\ \A i \in 1 .. Len(s) : Moves(s[i], p[i - 1], p[i])
  BY <1>3 DEF Path
<1> DEFINE q == [i \in 0 .. Len(s) - 1 |-> p[i + 1]]
<1>5. p[1] \in Points /\ Moves(Head(s), x, p[1])
  <2>1. 1 \in 1 .. Len(s) /\ 1 - 1 = 0 /\ 1 \in 0 .. Len(s)
    BY <1>2
  <2> QED
    BY <1>2, <1>3, <1>4, <2>1
<1>6. Path(q, Tail(s))
  <2>1. q \in [0 .. Len(s) - 1 -> Points]
    BY <1>2, <1>4
  <2>2. ASSUME NEW i \in 1 .. Len(s) - 1
        PROVE  Moves(Tail(s)[i], q[i - 1], q[i])
    <3>1. i + 1 \in 1 .. Len(s) /\ (i + 1) - 1 = i /\ q[i] = p[i + 1] /\ q[i - 1] = p[i]
      BY <1>2
    <3>2. Moves(s[i + 1], p[i], p[i + 1])
      BY <1>4, <3>1
    <3> QED
      BY <1>2, <3>1, <3>2
  <2> QED
    BY <1>2, <2>1, <2>2 DEF Path
<1>7. q[0] = p[1] /\ q[Len(Tail(s))] = z
  BY <1>2, <1>3
<1> HIDE DEF q
<1> QED
  BY <1>2, <1>5, <1>6, <1>7 DEF Runs

\* No call leads nowhere else.
LEMMA RunsEmpty ==
    /\ \A x, y : Runs(<<>>, x, y) => x = y
    /\ \A x \in Points : Runs(<<>>, x, x)
<1>1. Len(<<>>) = 0 /\ <<>> \in Seq(Calls)
  OBVIOUS
<1>2. \A x, y : Runs(<<>>, x, y) => x = y
  BY <1>1 DEF Runs
<1>3. ASSUME NEW x \in Points PROVE Runs(<<>>, x, x)
  <2> DEFINE p == [i \in 0 .. 0 |-> x]
  <2>1. Path(p, <<>>) /\ p[0] = x
    BY <1>1 DEF Path
  <2> HIDE DEF p
  <2> QED
    BY <1>1, <2>1 DEF Runs
<1> QED
  BY <1>2, <1>3

\* Calls that leave the state alone.
LEMMA RunsStill ==
    ASSUME NEW s \in Seq(Calls), NEW x \in Points, \A i \in 1 .. Len(s) : Moves(s[i], x, x)
    PROVE  Runs(s, x, x)
<1> DEFINE p == [i \in 0 .. Len(s) |-> x]
<1>1. Len(s) \in Nat
  OBVIOUS
<1>2. p \in [0 .. Len(s) -> Points] /\ \A i \in 0 .. Len(s) : p[i] = x
  BY <1>1
<1> HIDE DEF p
<1>3. \A i \in 1 .. Len(s) : Moves(s[i], p[i - 1], p[i])
  BY <1>1, <1>2
<1>4. Path(p, s) /\ p[0] = x /\ p[Len(s)] = x
  BY <1>1, <1>2, <1>3 DEF Path
<1> QED
  BY <1>4 DEF Runs

\* One call.
LEMMA RunsOne ==
    ASSUME NEW c \in Calls, NEW x \in Points, NEW y \in Points, Moves(c, x, y)
    PROVE  Runs(<<c>>, x, y)
<1> DEFINE p == [i \in 0 .. 1 |-> IF i = 0 THEN x ELSE y]
<1>1. <<c>> \in Seq(Calls) /\ Len(<<c>>) = 1 /\ <<c>>[1] = c
  OBVIOUS
<1>2. p \in [0 .. 1 -> Points] /\ p[0] = x /\ p[1] = y
  OBVIOUS
<1> HIDE DEF p
<1>3. Path(p, <<c>>)
  BY <1>1, <1>2 DEF Path
<1> QED
  BY <1>1, <1>2, <1>3 DEF Runs

\* Sequences of calls one after the other.
LEMMA RunsCat ==
    ASSUME NEW s, NEW t, NEW x, NEW y, NEW z, Runs(s, x, y), Runs(t, y, z)
    PROVE  Runs(s \o t, x, z)
<1>1. s \in Seq(Calls) /\ t \in Seq(Calls)
  BY DEF Runs
<1>2. /\ s \o t \in Seq(Calls) /\ Len(s \o t) = Len(s) + Len(t)
      /\ Len(s) \in Nat /\ Len(t) \in Nat
      /\ \A i \in 1 .. Len(s) + Len(t) :
            (s \o t)[i] = IF i <= Len(s) THEN s[i] ELSE t[i - Len(s)]
  BY <1>1, ConcatProperties
<1>3. PICK p : Path(p, s) /\ p[0] = x /\ p[Len(s)] = y
  BY DEF Runs
<1>4. PICK q : Path(q, t) /\ q[0] = y /\ q[Len(t)] = z
  BY DEF Runs
<1>5. /\ p \in [0 .. Len(s) -> Points] /\ \A i \in 1 .. Len(s) : Moves(s[i], p[i - 1], p[i])
      /\ q \in [0 .. Len(t) -> Points] /\ \A i \in 1 .. Len(t) : Moves(t[i], q[i - 1], q[i])
  BY <1>3, <1>4 DEF Path
<1> DEFINE r == [i \in 0 .. Len(s) + Len(t) |-> IF i <= Len(s) THEN p[i] ELSE q[i - Len(s)]]
<1>6. /\ \A i \in 0 .. Len(s) : r[i] = p[i]
      /\ \A i \in 0 .. Len(t) : r[Len(s) + i] = q[i]
  <2>1. \A i \in 0 .. Len(s) : r[i] = p[i]
    BY <1>2
  <2>2. ASSUME NEW i \in 1 .. Len(t) PROVE r[Len(s) + i] = q[i]
    <3>1. /\ Len(s) + i \in 0 .. Len(s) + Len(t)
          /\ ~(Len(s) + i <= Len(s)) /\ (Len(s) + i) - Len(s) = i
      BY <1>2
    <3> QED
      BY <3>1
  <2>3. r[Len(s) + 0] = q[0]
    BY <1>2, <1>3, <1>4
  <2>4. \A i \in 0 .. Len(t) : i = 0 \/ i \in 1 .. Len(t)
    BY <1>2
  <2> QED
    BY <2>1, <2>2, <2>3, <2>4
<1>7. r \in [0 .. Len(s) + Len(t) -> Points]
  BY <1>2, <1>5
<1> HIDE DEF r
<1>8. ASSUME NEW i \in 1 .. Len(s) + Len(t)
      PROVE  Moves((s \o t)[i], r[i - 1], r[i])
  <2>1. CASE i <= Len(s)
    <3>1. i \in 1 .. Len(s) /\ i \in 0 .. Len(s) /\ i - 1 \in 0 .. Len(s)
      BY <1>2, <2>1
    <3> QED
      BY <1>2, <1>5, <1>6, <2>1, <3>1
  <2>2. CASE ~(i <= Len(s))
    <3> DEFINE k == i - Len(s)
    <3>1. /\ k \in 1 .. Len(t) /\ k \in 0 .. Len(t) /\ k - 1 \in 0 .. Len(t)
          /\ Len(s) + k = i /\ Len(s) + (k - 1) = i - 1
      BY <1>2, <2>2
    <3>2. (s \o t)[i] = t[k]
      BY <1>2, <2>2
    <3> HIDE DEF k
    <3>3. r[i] = q[k] /\ r[i - 1] = q[k - 1]
      BY <1>6, <3>1
    <3> QED
      BY <1>5, <3>1, <3>2, <3>3
  <2> QED
    BY <2>1, <2>2
<1>9. Path(r, s \o t)
  BY <1>2, <1>7, <1>8 DEF Path
<1>10. r[0] = x /\ r[Len(s \o t)] = z
  BY <1>2, <1>3, <1>4, <1>6
<1> QED
  BY <1>2, <1>9, <1>10 DEF Runs

-----------------------------------------------------------------------------
(***************************************************************************)
(* The calls of the macros, the instructions and the handlers              *)
(***************************************************************************)
\* The calls of the macros are calls.
LEMMA CallTypes ==
    /\ \A s \in Sites : LOCATION(s) \in Calls
    /\ END_LOCATION \in Calls
    /\ \A s \in Positions, b \in BOOLEAN : Register(s, b) \in Calls
    /\ \A s \in Positions : MemoryAccess(s) \in Calls
    /\ \A k \in Kinds : Call(k) \in Calls
  BY DEF LOCATION, END_LOCATION, Register, MemoryAccess, Call, Calls, Kinds, Positions

\* The states above are states, and a push leads to one.
LEMMA StateTypes ==
    /\ Base \in States /\ Boot \in States /\ Off \in States
    /\ \A x \in States, s \in Sites : Push(x, s) \in States
    /\ NoSite \notin Sites /\ "handler" # NoSite
<1>1. NoSite \notin Sites
  BY DEF NoSite, Sites
<1> QED
  BY <1>1 DEF Base, Boot, Off, States, Push, Positions, NoSite

\* A state and a phase, and what they are made of.
LEMMA PointTypes ==
    /\ \A x \in States, p \in Phases : At(x, p) \in Points
    /\ \A x, p : At(x, p).st = x /\ At(x, p).phase = p
    /\ \A z \in Points : z.st \in States /\ z.phase \in Phases /\ z = At(z.st, z.phase)
    /\ \A x, y, p, q : At(x, p) = At(y, q) => x = y /\ p = q
<1>1. \A x, p : At(x, p).st = x /\ At(x, p).phase = p
  BY DEF At
<1> QED
  BY <1>1 DEF At, Points

\* One call, from a state and a phase to others.
LEMMA OneCall ==
    ASSUME NEW c \in Calls, NEW x \in States, NEW y \in States, NEW p \in Phases, NEW q \in Phases,
           Safe(c, x, y), Goes(c, x.on, p, q)
    PROVE  Runs(<<c>>, At(x, p), At(y, q))
<1>1. Moves(c, At(x, p), At(y, q)) /\ At(x, p) \in Points /\ At(y, q) \in Points
  BY PointTypes DEF Moves
<1> QED
  BY <1>1, RunsOne

\* A state in which a position can be pushed, and the position that shows.
Open(x, s) ==
    /\ x \in States /\ x.on /\ s \in Sites /\ x.second = NoSite /\ Top(x) \in {s, NoSite}

\* The macros push and pop, in any phase: trace_location.h:26-57.
LEMMA PushPop ==
    ASSUME NEW x, NEW s, Open(x, s)
    PROVE  /\ Push(x, s) \in States /\ Push(x, s).on /\ Top(Push(x, s)) = s
           /\ x.first = NoSite => Push(x, s).second = NoSite
           /\ \A p \in Phases : /\ Runs(<<LOCATION(s)>>, At(x, p), At(Push(x, s), p))
                                /\ Runs(<<END_LOCATION>>, At(Push(x, s), p), At(x, p))
<1>1. /\ x \in States /\ x.on /\ s \in Sites /\ x.second = NoSite /\ s # NoSite
      /\ Push(x, s) \in States
  BY StateTypes DEF Open
<1>2. /\ Push(x, s).on /\ Top(Push(x, s)) = s /\ (x.first = NoSite => Push(x, s).second = NoSite)
      /\ Safe(LOCATION(s), x, Push(x, s)) /\ Safe(END_LOCATION, Push(x, s), x)
  <2>1. CASE x.first = NoSite
    <3>1. Push(x, s) = [x EXCEPT !.first = s]
      BY <2>1 DEF Push
    <3>2. /\ Push(x, s).first = s /\ Push(x, s).second = NoSite /\ Push(x, s).on
          /\ [Push(x, s) EXCEPT !.first = NoSite] = x
      BY <1>1, <2>1, <3>1 DEF States
    <3>3. Pop(Push(x, s)) = x /\ Top(Push(x, s)) = s
      BY <1>1, <3>2 DEF Pop, Top
    <3> QED
      BY <1>1, <3>2, <3>3 DEF Safe, LOCATION, END_LOCATION, Call
  <2>2. CASE x.first # NoSite
    <3>1. Push(x, s) = [x EXCEPT !.second = s]
      BY <2>2 DEF Push
    <3>2. /\ Push(x, s).first = x.first /\ Push(x, s).second = s /\ Push(x, s).on
          /\ [Push(x, s) EXCEPT !.second = NoSite] = x
      BY <1>1, <2>2, <3>1 DEF States
    <3>3. Pop(Push(x, s)) = x /\ Top(Push(x, s)) = s
      BY <1>1, <3>2 DEF Pop, Top
    <3> QED
      BY <1>1, <2>2, <3>2, <3>3 DEF Safe, LOCATION, END_LOCATION, Call
  <2> QED
    BY <2>1, <2>2
<1>3. ASSUME NEW p \in Phases
      PROVE  /\ Goes(LOCATION(s), x.on, p, p) /\ Goes(END_LOCATION, Push(x, s).on, p, p)
             /\ LOCATION(s) \in Calls /\ END_LOCATION \in Calls
  BY <1>1, CallTypes DEF Goes, LOCATION, END_LOCATION, Call
<1> QED
  BY <1>1, <1>2, <1>3, OneCall

\* Two calls put together.
LEMMA TwoCalls == \A a, b : <<a>> \o <<b>> = <<a, b>>
<1> TAKE a, b
<1> DEFINE S == {a, b}
<1>1. <<a>> \in Seq(S) /\ <<b>> \in Seq(S) /\ <<a, b>> \in Seq(S) /\ <<a>> \o <<b>> \in Seq(S)
  OBVIOUS
<1>2. /\ Len(<<a>> \o <<b>>) = 2 /\ (<<a>> \o <<b>>)[1] = a /\ (<<a>> \o <<b>>)[2] = b
      /\ Len(<<a, b>>) = 2 /\ <<a, b>>[1] = a /\ <<a, b>>[2] = b
  OBVIOUS
<1>3. \A i \in 1 .. 2 : (<<a>> \o <<b>>)[i] = <<a, b>>[i]
  BY <1>2
<1> HIDE DEF S
<1> QED
  BY <1>1, <1>2, <1>3, SeqEqual

\* Four of them.
LEMMA FourCalls == \A a, b, c, d : <<a, b>> \o <<c, d>> = <<a, b, c, d>>
<1> TAKE a, b, c, d
<1> DEFINE S == {a, b, c, d}
           u == <<a, b>> \o <<c, d>>
           v == <<a, b, c, d>>
<1>1. <<a, b>> \in Seq(S) /\ <<c, d>> \in Seq(S) /\ v \in Seq(S) /\ u \in Seq(S)
  OBVIOUS
<1>2. /\ Len(u) = 4 /\ u[1] = a /\ u[2] = b /\ u[3] = c /\ u[4] = d
      /\ Len(v) = 4 /\ v[1] = a /\ v[2] = b /\ v[3] = c /\ v[4] = d
  OBVIOUS
<1> HIDE DEF S, u, v
<1>3. \A i \in 1 .. 4 : u[i] = v[i]
  BY <1>2
<1>4. u = v
  BY <1>1, <1>2, <1>3, SeqEqual
<1> QED
  BY <1>4 DEF u, v

\* A position pushed around calls, or popped before them.
LEMMA AddedRuns ==
    ASSUME NEW x, NEW s, NEW body, Open(x, s), NEW p \in Phases, NEW q \in Phases,
           Runs(body, At(Push(x, s), p), At(Push(x, s), q)), Runs(body, At(x, p), At(x, q))
    PROVE  \A a \in Added(s, body) : Runs(a, At(x, p), At(x, q))
<1>1. ASSUME NEW r \in Phases
      PROVE  /\ Runs(<<LOCATION(s)>>, At(x, r), At(Push(x, s), r))
             /\ Runs(<<END_LOCATION>>, At(Push(x, s), r), At(x, r))
  BY PushPop
<1>2. Runs(<<LOCATION(s)>> \o body, At(x, p), At(Push(x, s), q))
  BY <1>1, RunsCat
<1>3. Runs(<<LOCATION(s)>> \o body \o <<END_LOCATION>>, At(x, p), At(x, q))
  BY <1>1, <1>2, RunsCat
<1>4. Runs(<<LOCATION(s), END_LOCATION>>, At(x, p), At(x, p))
  BY <1>1, RunsCat, TwoCalls
<1>5. Runs(<<LOCATION(s), END_LOCATION>> \o body, At(x, p), At(x, q))
  BY <1>4, RunsCat
<1> QED
  BY <1>3, <1>5 DEF Added

\* The phases in which a thread may print line after line.
Steady == {"own", "free"}

\* An access traced with its own position at the top, or none.
LEMMA AccessRuns ==
    ASSUME NEW x \in States, NEW s \in Positions, Top(x) \in {s, NoSite},
           s # "handler", s # "fetch", NEW p \in Steady
    PROVE  /\ Runs(<<Register(s, FALSE)>>, At(x, p), At(x, p))
           /\ Runs(<<MemoryAccess(s)>>, At(x, p), At(x, p))
<1>1. Safe(Register(s, FALSE), x, x) /\ Safe(MemoryAccess(s), x, x)
  BY DEF Safe, Register, MemoryAccess
<1>2. Goes(Register(s, FALSE), x.on, p, p) /\ Goes(MemoryAccess(s), x.on, p, p) /\ p \in Phases
  BY DEF Goes, Prints, Register, MemoryAccess, Steady, Phases
<1> QED
  BY <1>1, <1>2, OneCall, CallTypes

\* A register written: its position is at the top when it is traced.
LEMMA CommasRuns ==
    ASSUME NEW x, NEW s, NEW args, Open(x, s), s # "handler", s # "fetch", NEW p \in Steady,
           Runs(args, At(Push(x, s), p), At(Push(x, s), p))
    PROVE  Runs(Commas(s, args), At(x, p), At(x, p))
<1> DEFINE z == Push(x, s)
<1>1. p \in Phases
  BY DEF Steady, Phases
<1>2. /\ Runs(<<LOCATION(s)>>, At(x, p), At(z, p)) /\ Runs(<<END_LOCATION>>, At(z, p), At(x, p))
      /\ z \in States /\ z.on /\ Top(z) = s /\ s \in Sites
  BY <1>1, PushPop DEF Open
<1> HIDE DEF z
<1>3. Register(s, TRUE) \in Calls
  BY <1>2, CallTypes DEF Positions
<1>4. Safe(Register(s, TRUE), z, z) /\ Goes(Register(s, TRUE), z.on, p, p)
  BY <1>2 DEF Safe, Goes, Prints, Register, Steady
<1>5. Runs(<<Register(s, TRUE)>>, At(z, p), At(z, p))
  BY <1>1, <1>2, <1>3, <1>4, OneCall
<1>6. Runs(<<Register(s, TRUE), END_LOCATION>>, At(z, p), At(x, p))
  BY <1>2, <1>5, RunsCat, TwoCalls
<1>7. Runs(<<LOCATION(s)>> \o args, At(x, p), At(z, p))
  BY <1>2, RunsCat DEF z
<1> QED
  BY <1>6, <1>7, RunsCat DEF Commas

\* The states instructions are traced in.
LEMMA InstructionStates ==
    ASSUME NEW s \in Sites
    PROVE  /\ Open(Base, s) /\ Open(Push(Base, s), s) /\ Open(Boot, s)
           /\ Push(Push(Base, s), s) \in States
           /\ Top(Push(Base, s)) = s /\ Top(Push(Push(Base, s), s)) = s
           /\ Top(Base) = NoSite /\ Top(Boot) = NoSite
<1>1. /\ Base.first = NoSite /\ Base.second = NoSite /\ Base.on
      /\ Boot.first = NoSite /\ Boot.second = NoSite /\ Boot.on
  BY DEF Base, Boot
<1>2. Top(Base) = NoSite /\ Top(Boot) = NoSite /\ Open(Base, s) /\ Open(Boot, s)
  BY <1>1, StateTypes DEF Top, Open
<1>3. Open(Push(Base, s), s) /\ Top(Push(Base, s)) = s
  BY <1>1, <1>2, PushPop DEF Open
<1> QED
  BY <1>2, <1>3, PushPop

\* A reset, at the start, of an interrupt or of a failed fetch; arm_create sets
\* the counter after it.
LEMMA ResetRuns ==
    /\ \A p \in Steady : Runs(arm_reset, At(Base, p), At(Base, p))
    /\ Runs(arm_create, At(Boot, "free"), At(Base, "free"))
<1>0. "exc_cpsr" \in Sites /\ "exc_pc" \in Sites /\ "free" \in Steady
  BY DEF Sites, Steady
<1>1. ASSUME NEW x \in {Base, Boot}, NEW p \in Steady PROVE Runs(arm_reset, At(x, p), At(x, p))
  <2>1. Open(x, "exc_cpsr") /\ Open(x, "exc_pc")
    BY <1>0, InstructionStates
  <2>2. ASSUME NEW s \in {"exc_cpsr", "exc_pc"}
        PROVE  Runs(Commas(s, <<>>), At(x, p), At(x, p))
    <3>1. Push(x, s) \in States
      BY <2>1, PushPop
    <3>2. At(Push(x, s), p) \in Points
      BY <3>1, PointTypes DEF Steady, Phases
    <3> QED
      BY <2>1, <3>2, RunsEmpty, CommasRuns
  <2> QED
    BY <2>2, RunsCat DEF arm_reset
<1>2. Runs(<<Call("cycle_zero")>>, At(Boot, "free"), At(Base, "free"))
  <2>1. Call("cycle_zero") \in Calls /\ "free" \in Phases
    BY CallTypes DEF Kinds, Phases
  <2>2. /\ Boot.boot /\ ~Base.boot /\ Boot.on = Base.on
        /\ Boot.first = Base.first /\ Boot.second = Base.second
    BY DEF Boot, Base
  <2>3. Safe(Call("cycle_zero"), Boot, Base) /\ Goes(Call("cycle_zero"), Boot.on, "free", "free")
    BY <2>2 DEF Safe, Goes, Call
  <2> QED
    BY <2>1, <2>3, StateTypes, OneCall
<1> QED
  BY <1>0, <1>1, <1>2, RunsCat DEF arm_create

\* arm_fetch: the cycle, pc, the word and pc again, under one position.
LEMMA FetchRuns == \A a \in arm_fetch : Runs(a, At(Base, "other"), At(Base, "own"))
<1> DEFINE pc == Register("fetch", FALSE)
           word == MemoryAccess("fetch")
           count == Call("cycle")
           body == <<count, pc, word, pc>>
<1>0. /\ "fetch" \in Sites /\ "fetch" \in Positions /\ "fetch" # "handler"
      /\ "other" \in Phases /\ "new" \in Phases /\ "reg" \in Phases
      /\ "fetched" \in Phases /\ "own" \in Phases
  BY DEF Sites, Positions, Phases
<1>1. /\ Open(Base, "fetch") /\ Base \in States /\ Push(Base, "fetch") \in States
      /\ Top(Base) = NoSite /\ Top(Push(Base, "fetch")) = "fetch"
  BY <1>0, InstructionStates, StateTypes, PushPop
<1>2. /\ Base.on /\ ~Base.boot /\ Push(Base, "fetch").on /\ ~Push(Base, "fetch").boot
  BY <1>1 DEF Base, Push, NoSite
<1>3. ASSUME NEW x \in {Base, Push(Base, "fetch")}
      PROVE  Runs(body, At(x, "other"), At(x, "own"))
  <2>1. x \in States /\ Top(x) \in {"fetch", NoSite} /\ x.on /\ ~x.boot
    BY <1>1, <1>2
  <2>2. Safe(count, x, x) /\ Safe(pc, x, x) /\ Safe(word, x, x)
    BY <1>0, <2>1 DEF Safe, Call, Register, MemoryAccess
  <2>3. count \in Calls /\ pc \in Calls /\ word \in Calls
    BY <1>0, CallTypes DEF Kinds
  <2>4. /\ Goes(count, x.on, "other", "new") /\ Goes(pc, x.on, "new", "reg")
        /\ Goes(word, x.on, "reg", "fetched") /\ Goes(pc, x.on, "fetched", "own")
    BY <2>1 DEF Goes, Prints, Call, Register, MemoryAccess
  <2> HIDE DEF pc, word, count
  <2>5. /\ Runs(<<count>>, At(x, "other"), At(x, "new")) /\ Runs(<<pc>>, At(x, "new"), At(x, "reg"))
        /\ Runs(<<word>>, At(x, "reg"), At(x, "fetched"))
        /\ Runs(<<pc>>, At(x, "fetched"), At(x, "own"))
    BY <1>0, <2>1, <2>2, <2>3, <2>4, OneCall
  <2>6. /\ Runs(<<count, pc>>, At(x, "other"), At(x, "reg"))
        /\ Runs(<<word, pc>>, At(x, "reg"), At(x, "own"))
    BY <2>5, RunsCat, TwoCalls
  <2> QED
    BY <2>6, RunsCat, FourCalls
<1> HIDE DEF body
<1>4. \A a \in Added("fetch", body) : Runs(a, At(Base, "other"), At(Base, "own"))
  BY <1>0, <1>1, <1>3, AddedRuns
<1> QED
  BY <1>4 DEF arm_fetch, body

\* What instructions do, for every order of evaluation the macros leave open.
LEMMA InstructionsRun == \A a \in Instructions : Runs(a, At(Base, "own"), At(Base, "own"))
<1> DEFINE read == Added("ins", <<Register("ins", FALSE)>>)
           x1 == Push(Base, "ins")
           x2 == Push(x1, "ins")
           b0 == At(Base, "own")
           b1 == At(x1, "own")
           b2 == At(x2, "own")
<1>0. /\ "ins" \in Sites /\ "ins2" \in Sites /\ "ins" \in Positions /\ "ins" # "handler"
      /\ "ins2" # "handler" /\ "ins" # "fetch" /\ "ins2" # "fetch"
      /\ "own" \in Phases /\ "own" \in Steady
  BY DEF Sites, Positions, Phases, Steady
<1>1. /\ Open(Base, "ins") /\ Open(x1, "ins") /\ Open(Base, "ins2")
      /\ Base \in States /\ x1 \in States /\ x2 \in States
      /\ Top(Base) = NoSite /\ Top(x1) = "ins" /\ Top(x2) = "ins"
  BY <1>0, InstructionStates, StateTypes
<1> HIDE DEF read, x1, x2
<1>2. ASSUME NEW x \in {Base, x1, x2}
      PROVE  /\ Runs(<<Register("ins", FALSE)>>, At(x, "own"), At(x, "own"))
             /\ Runs(<<MemoryAccess("ins")>>, At(x, "own"), At(x, "own"))
  BY <1>0, <1>1, AccessRuns
<1>3. ASSUME NEW x \in {Base, x1}, NEW r \in read PROVE Runs(r, At(x, "own"), At(x, "own"))
  BY <1>0, <1>1, <1>2, AddedRuns DEF read, x1, x2
<1>4. ASSUME NEW r \in read PROVE Runs(Commas("ins", r), b0, b0)
  BY <1>0, <1>1, <1>3, CommasRuns DEF x1
<1>5. ASSUME NEW m \in Added("ins", <<MemoryAccess("ins")>>)
      PROVE  Runs(m \o Commas("ins2", <<>>), b0, b0)
  <2>1. Runs(m, b0, b0)
    BY <1>0, <1>1, <1>2, AddedRuns DEF x1
  <2>2. Push(Base, "ins2") \in States
    BY <1>1, PushPop
  <2>3. At(Push(Base, "ins2"), "own") \in Points
    BY <1>0, <2>2, PointTypes
  <2>4. Runs(Commas("ins2", <<>>), b0, b0)
    BY <1>0, <1>1, <2>3, RunsEmpty, CommasRuns
  <2> QED
    BY <2>1, <2>4, RunsCat
<1>6. ASSUME NEW r \in read, NEW a \in Added("ins", r \o <<MemoryAccess("ins")>>)
      PROVE  Runs(a, b0, b0)
  <2>1. ASSUME NEW x \in {Base, x1}
        PROVE  Runs(r \o <<MemoryAccess("ins")>>, At(x, "own"), At(x, "own"))
    BY <1>2, <1>3, RunsCat
  <2> QED
    BY <1>0, <1>1, <2>1, AddedRuns DEF x1
<1>7. /\ Runs(<<LOCATION("ins")>>, b0, b1) /\ Runs(<<END_LOCATION>>, b1, b0)
      /\ Runs(<<LOCATION("ins")>>, b1, b2) /\ Runs(<<END_LOCATION>>, b2, b1)
  BY <1>0, <1>1, PushPop DEF x1, x2
<1>8. /\ Runs(<<Register("ins", FALSE)>>, b0, b0) /\ Runs(<<MemoryAccess("ins")>>, b0, b0)
      /\ \A r \in read : Runs(r, b1, b1)
  BY <1>2, <1>3
<1> HIDE DEF b0, b1, b2
<1>9. ASSUME NEW r \in read
      PROVE  Runs(<<LOCATION("ins")>> \o r \o <<END_LOCATION, MemoryAccess("ins")>>, b0, b0)
  <2>1. Runs(<<LOCATION("ins")>> \o r, b0, b1)
    BY <1>7, <1>8, RunsCat
  <2>2. Runs(<<END_LOCATION, MemoryAccess("ins")>>, b1, b0)
    BY <1>7, <1>8, RunsCat, TwoCalls
  <2> QED
    BY <2>1, <2>2, RunsCat
<1> DEFINE last == <<LOCATION("ins"), LOCATION("ins")>> \o <<END_LOCATION, END_LOCATION>>
                     \o <<Register("ins", FALSE), MemoryAccess("ins")>>
<1>10. Runs(last, b0, b0)
  <2>1. /\ Runs(<<LOCATION("ins"), LOCATION("ins")>>, b0, b2)
        /\ Runs(<<END_LOCATION, END_LOCATION>>, b2, b0)
        /\ Runs(<<Register("ins", FALSE), MemoryAccess("ins")>>, b0, b0)
    BY <1>7, <1>8, RunsCat, TwoCalls
  <2>2. Runs(<<LOCATION("ins"), LOCATION("ins")>> \o <<END_LOCATION, END_LOCATION>>, b0, b0)
    BY <2>1, RunsCat
  <2> QED
    BY <2>1, <2>2, RunsCat
<1> HIDE DEF last
<1> QED
  <2> DEFINE I1 == {Commas("ins", r) : r \in read}
             I2 == {m \o Commas("ins2", <<>>) : m \in Added("ins", <<MemoryAccess("ins")>>)}
             I3 == UNION {Added("ins", r \o <<MemoryAccess("ins")>>) : r \in read}
             I4 == {<<LOCATION("ins")>> \o r \o <<END_LOCATION, MemoryAccess("ins")>> : r \in read}
  <2>1. Instructions = I1 \cup I2 \cup I3 \cup I4 \cup {last}
    BY DEF Instructions, read, last
  <2>2. \A a \in I1 : Runs(a, b0, b0)
    BY <1>4
  <2>3. \A a \in I2 : Runs(a, b0, b0)
    BY <1>5
  <2>4. \A a \in I3 : Runs(a, b0, b0)
    BY <1>6
  <2>5. \A a \in I4 : Runs(a, b0, b0)
    BY <1>9
  <2> HIDE DEF I1, I2, I3, I4
  <2>6. \A a \in Instructions : Runs(a, b0, b0)
    BY <1>10, <2>1, <2>2, <2>3, <2>4, <2>5
  <2> QED
    BY <2>6 DEF b0

\* step, and the body of cont.
LEMMA StepRuns == \A s \in step : Runs(s, At(Base, "other"), At(Base, "other"))
<1>1. ASSUME NEW a \in arm_step PROVE Runs(a, At(Base, "other"), At(Base, "own"))
  <2>1. PICK f \in arm_fetch, i \in Instructions \cup {arm_reset} : a = f \o i
    BY <1>1 DEF arm_step, Concat
  <2>2. Runs(f, At(Base, "other"), At(Base, "own")) /\ Runs(i, At(Base, "own"), At(Base, "own"))
    BY FetchRuns, InstructionsRun, ResetRuns DEF Steady
  <2> QED
    BY <2>1, <2>2, RunsCat
<1>2. Runs(<<Call("arm_state")>>, At(Base, "own"), At(Base, "other"))
  <2>1. Call("arm_state") \in Calls /\ "own" \in Phases /\ "other" \in Phases
    BY CallTypes DEF Kinds, Phases
  <2>2. Safe(Call("arm_state"), Base, Base) /\ Goes(Call("arm_state"), Base.on, "own", "other")
    BY DEF Safe, Goes, Call
  <2> QED
    BY <2>1, <2>2, StateTypes, OneCall
<1> QED
  BY <1>1, <1>2, RunsCat DEF step

\* arm_print_state shows no position and needs none; what it prints still
\* belongs to the instruction.
LEMMA PrintRuns == Runs(arm_print_state, At(Base, "own"), At(Base, "other"))
<1> DEFINE r == Register(NoSite, FALSE)
<1>1. /\ NoSite \in Positions /\ Base \in States /\ Top(Base) = NoSite /\ Base.on
      /\ NoSite # "handler" /\ NoSite # "fetch" /\ "own" \in Phases /\ "other" \in Phases
  BY StateTypes DEF Positions, Base, Top, NoSite, Phases
<1>2. r \in Calls
  BY <1>1, CallTypes
<1>3. /\ Safe(r, Base, Base) /\ Goes(r, Base.on, "own", "own") /\ Goes(r, Base.on, "own", "other")
  BY <1>1 DEF Safe, Goes, Prints, Register
<1> HIDE DEF r
<1>4. /\ Runs(<<r>>, At(Base, "own"), At(Base, "own"))
      /\ Runs(<<r>>, At(Base, "own"), At(Base, "other"))
  BY <1>1, <1>2, <1>3, OneCall
<1> QED
  BY <1>4, RunsCat, TwoCalls DEF arm_print_state, r

\* Calls that change nothing while tracing is off.
Silent == {c \in Calls : c.call \in {"start_location", "end_location", "register", "memory"}}

\* trace.c:55-68 and the accesses of a handler do nothing while it is off.
LEMMA SilentRuns == \A s \in Seq(Silent) : Runs(s, At(Off, "other"), At(Off, "other"))
<1> TAKE s \in Seq(Silent)
<1>1. s \in Seq(Calls) /\ \A i \in 1 .. Len(s) : s[i] \in Silent
  BY DEF Silent
<1>2. \A c \in Silent : Safe(c, Off, Off) /\ Goes(c, Off.on, "other", "other")
  BY DEF Silent, Safe, Goes, Off
<1>3. At(Off, "other") \in Points /\ \A c \in Silent : Moves(c, At(Off, "other"), At(Off, "other"))
  BY <1>2, StateTypes, PointTypes DEF Moves, Phases
<1> QED
  BY <1>1, <1>3, RunsStill

\* A handler that switches tracing off around its accesses and on again.
LEMMA HiddenRuns ==
    ASSUME NEW A, \A a \in A : a \in Seq(Silent)
    PROVE  \A h \in Hidden(A) : Runs(h, At(Base, "other"), At(Base, "other"))
<1> DEFINE b == At(Base, "other")
           o == At(Off, "other")
<1>1. Call("disable") \in Calls /\ Call("enable") \in Calls /\ "other" \in Phases
  BY CallTypes DEF Kinds, Phases
<1>2. /\ Base.on = TRUE /\ Off.on = FALSE /\ Base.boot = Off.boot
      /\ Base.first = Off.first /\ Base.second = Off.second
  BY DEF Base, Off
<1>3. /\ Safe(Call("disable"), Base, Off) /\ Safe(Call("enable"), Off, Base)
      /\ Goes(Call("disable"), Base.on, "other", "other")
      /\ Goes(Call("enable"), Off.on, "other", "other")
  BY <1>2 DEF Safe, Goes, Call
<1>4. Runs(<<Call("disable")>>, b, o) /\ Runs(<<Call("enable")>>, o, b)
  BY <1>1, <1>3, StateTypes, OneCall
<1>5. ASSUME NEW a \in A PROVE Runs(<<Call("disable")>> \o a \o <<Call("enable")>>, b, b)
  <2>1. Runs(a, o, o)
    BY SilentRuns
  <2> HIDE DEF b, o
  <2>2. Runs(<<Call("disable")>> \o a, b, o)
    BY <1>4, <2>1, RunsCat
  <2> QED
    BY <1>4, <2>2, RunsCat
<1> QED
  BY <1>5 DEF Hidden

\* The accesses of the handlers.
LEMMA HandlerCalls ==
    /\ \A a \in Added("handler", <<Register("handler", FALSE)>>) : a \in Seq(Silent)
    /\ \A a \in Added("handler", <<MemoryAccess("handler")>>) : a \in Seq(Silent)
    /\ Commas("handler", <<>>) \in Seq(Silent)
<1>1. /\ LOCATION("handler") \in Silent /\ END_LOCATION \in Silent
      /\ Register("handler", FALSE) \in Silent /\ Register("handler", TRUE) \in Silent
      /\ MemoryAccess("handler") \in Silent
  BY CallTypes
  DEF Silent, Sites, Positions, LOCATION, END_LOCATION, Register, MemoryAccess, Call, Kinds
<1>2. /\ <<LOCATION("handler")>> \in Seq(Silent) /\ <<END_LOCATION>> \in Seq(Silent)
      /\ <<LOCATION("handler"), END_LOCATION>> \in Seq(Silent)
      /\ <<Register("handler", FALSE)>> \in Seq(Silent)
      /\ <<Register("handler", TRUE), END_LOCATION>> \in Seq(Silent)
      /\ <<MemoryAccess("handler")>> \in Seq(Silent) /\ <<>> \in Seq(Silent)
  <2>1. \A a \in Silent : <<a>> \in Seq(Silent)
    OBVIOUS
  <2>2. \A a, b \in Silent : <<a, b>> \in Seq(Silent)
    OBVIOUS
  <2>3. <<>> \in Seq(Silent)
    OBVIOUS
  <2> QED
    BY <1>1, <2>1, <2>2, <2>3, Zenon
<1>3. ASSUME NEW s \in Seq(Silent), NEW t \in Seq(Silent) PROVE s \o t \in Seq(Silent)
  OBVIOUS
<1>4. ASSUME NEW b \in Seq(Silent), NEW a \in Added("handler", b) PROVE a \in Seq(Silent)
  <2>1. <<LOCATION("handler")>> \o b \o <<END_LOCATION>> \in Seq(Silent)
    BY <1>2, <1>3
  <2>2. <<LOCATION("handler"), END_LOCATION>> \o b \in Seq(Silent)
    BY <1>2, <1>3
  <2> QED
    BY <1>4, <2>1, <2>2, Zenon DEF Added
<1>5. Commas("handler", <<>>) \in Seq(Silent)
  BY <1>2, <1>3 DEF Commas
<1> QED
  BY <1>2, <1>4, <1>5

\* The handlers of the commands.
LEMMA HandlersRun ==
    /\ \A s \in read_registers \cup write_registers : Runs(s, At(Base, "other"), At(Base, "other"))
    /\ \A s \in cont : Runs(s, At(Base, "other"), At(Base, "other"))
<1> DEFINE R == Added("handler", <<Register("handler", FALSE)>>)
           M == Added("handler", <<MemoryAccess("handler")>>)
<1>1. /\ \A a \in R : a \in Seq(Silent)
      /\ \A a \in M : a \in Seq(Silent)
  BY HandlerCalls
<1>2. \A a \in Seq(Silent), b \in Seq(Silent) : a \o b \in Seq(Silent)
  OBVIOUS
<1> HIDE DEF R, M
<1>3. /\ \A a \in Concat(R, R) : a \in Seq(Silent)
      /\ \A a \in Concat(R, M) : a \in Seq(Silent)
  <2>1. ASSUME NEW A, NEW B, \A a \in A : a \in Seq(Silent), \A b \in B : b \in Seq(Silent),
               NEW c \in Concat(A, B)
        PROVE  c \in Seq(Silent)
    <3>1. PICK a \in A, b \in B : c = a \o b
      BY <2>1 DEF Concat
    <3> QED
      BY <1>2, <2>1, <3>1
  <2> QED
    BY <1>1, <2>1
<1>4. \A s \in read_registers : Runs(s, At(Base, "other"), At(Base, "other"))
  BY <1>3, HiddenRuns DEF read_registers, R
<1>5. \A s \in write_registers : Runs(s, At(Base, "other"), At(Base, "other"))
  BY HandlerCalls, HiddenRuns DEF write_registers
<1>6. \A s \in cont_peek : Runs(s, At(Base, "other"), At(Base, "other"))
  BY <1>3, HiddenRuns DEF cont_peek, R, M
<1>7. Runs(<<Call("turn")>>, At(Base, "other"), At(Base, "other"))
  <2>1. Call("turn") \in Calls /\ "other" \in Phases
    BY CallTypes DEF Kinds, Phases
  <2>2. Safe(Call("turn"), Base, Base) /\ Goes(Call("turn"), Base.on, "other", "other")
    BY DEF Safe, Goes, Call
  <2> QED
    BY <2>1, <2>2, StateTypes, OneCall
<1>8. \A s \in cont : Runs(s, At(Base, "other"), At(Base, "other"))
  BY <1>6, <1>7, RunsCat DEF cont
<1> QED
  BY <1>4, <1>5, <1>8

-----------------------------------------------------------------------------
(***************************************************************************)
(* The inductive invariant                                                 *)
(***************************************************************************)
\* The state trace.c is in.
Now == [boot |-> cycle_count = Unknown, on |-> enabled,
        first |-> IF location_stack_top >= 0 THEN location_stack[0] ELSE NoSite,
        second |-> IF location_stack_top >= 1 THEN location_stack[1] ELSE NoSite]

\* The types of trace.c, and a stack of two positions at most.
StackInv ==
    /\ enabled \in BOOLEAN /\ cycle_count \in Nat \cup {Unknown}
    /\ location_stack_top \in -1 .. 1
    /\ \A i \in 0 .. location_stack_top : location_stack[i] \in Sites

\* One thread has calls to make at a time: main before the others start, or
\* the holder of the lock.
CallsInv ==
    /\ calls \in [Threads -> Seq(Calls)] /\ lock \in {"free", "gdb", "irq"}
    /\ calls["main"] # <<>> => lock = "free" /\ calls["gdb"] = <<>> /\ calls["irq"] = <<>>
    /\ \A t \in {"gdb", "irq"} : calls[t] # <<>> => lock = t

\* Some accesses are traced; the counter, 0 until it is set; the line printed
\* last shows it, is one cycle behind, is one of the fetch of this cycle.
Traced == "REGISTERS" \in trace_flags \/ "MEMORY" \in trace_flags
Current == IF cycle_count = Unknown THEN 0 ELSE cycle_count
Shown == Since(line) = Current
Behind == cycle_count = (Since(line) + 1) % CycleMod
Fetching == line.by = "gdb" /\ line.site = "fetch" /\ line.cycle = cycle_count

\* What the phase p of the thread t says of the line printed last.
Holds(p, t) ==
    /\ p = "free" <=> t # "gdb"
    /\ t = "main" => Current = 0
    /\ Traced =>
         /\ p \in {"free", "other"} => Shown
         /\ p = "new" => Behind
         /\ p = "reg" => IF "REGISTERS" \in trace_flags THEN Fetching ELSE Behind
         /\ p = "fetched" => Fetching
         /\ p = "own" => line.by = "gdb" /\ line.cycle = cycle_count

\* Where the calls of a thread end, and where those of an operation start.
Rests(t) == IF t = "gdb" THEN "other" ELSE "free"
Final(t) == At(Base, Rests(t))

\* The calls of a thread are safe from here and end in Base.
Ready(t) == \E p \in Phases : Holds(p, t) /\ Runs(calls[t], At(Now, p), Final(t))

RunsInv ==
    /\ \A t \in Threads : calls[t] # <<>> => Ready(t)
    /\ (\A t \in Threads : calls[t] = <<>>) => Now = Base /\ (Traced => Shown)

\* The line printed last.
LineInv == OwnPosition /\ HandlersInvisible

\* The inductive invariant; once arm_create is done the counter is set.
TraceInv ==
    /\ StackInv /\ CallsInv /\ RunsInv /\ LineInv
    /\ Started => cycle_count # Unknown

\* The fields of Now, here and after a step.
Fields ==
    /\ Now \in States /\ Now.on = enabled /\ Now.boot = (cycle_count = Unknown)
    /\ location_stack_top = -1 => Now.first = NoSite /\ Now.second = NoSite
    /\ location_stack_top = 0 =>
         /\ Now.first = location_stack[0] /\ Now.first # NoSite /\ Now.second = NoSite
    /\ location_stack_top = 1 =>
         /\ Now.first = location_stack[0] /\ Now.first # NoSite
         /\ Now.second = location_stack[1] /\ Now.second # NoSite

\* Now is a state, with these fields.
LEMMA NowFields == StackInv => Fields
<1> HAVE StackInv
<1>1. location_stack_top \in {-1, 0, 1} /\ -1 < 0 /\ NoSite \in Positions /\ NoSite \notin Sites
  BY StateTypes DEF StackInv, Positions
<1>2. /\ location_stack_top >= 0 => location_stack[0] \in Sites
      /\ location_stack_top >= 1 => location_stack[1] \in Sites
  BY <1>1 DEF StackInv
<1>3. Now \in States
  BY <1>1, <1>2, Zenon DEF StackInv, Now, States, Positions
<1>4. /\ Now.on = enabled /\ Now.boot = (cycle_count = Unknown)
      /\ Now.first = IF location_stack_top >= 0 THEN location_stack[0] ELSE NoSite
      /\ Now.second = IF location_stack_top >= 1 THEN location_stack[1] ELSE NoSite
  BY Zenon DEF Now
<1> QED
  BY <1>1, <1>2, <1>3, <1>4 DEF Fields

\* The same after a step.
LEMMA NowFieldsNext == StackInv' => Fields'
  BY NowFields, PTL

\* A state is its fields.
LEMMA StateEqual ==
    ASSUME NEW x \in States, NEW y \in States,
           x.boot = y.boot, x.on = y.on, x.first = y.first, x.second = y.second
    PROVE  x = y
  BY DEF States

\* A thread at work is alone, and stays so.
LEMMA Alone ==
    ASSUME CallsInv, NEW t \in Threads, calls[t] # <<>>
    PROVE  \A u \in Threads : u # t => calls[u] = <<>>
  BY DEF CallsInv, Threads

\* At rest after its last call.
LEMMA Rested ==
    ASSUME NEW x, NEW p, NEW t, Runs(<<>>, At(x, p), Final(t))
    PROVE  x = Base /\ p = Rests(t)
  BY RunsEmpty, PointTypes DEF Final

\* A call made, and others perhaps in its place, keep the calls safe.
LEMMA CallsGoOn ==
    ASSUME CallsInv, NEW t \in Threads, calls[t] # <<>>, NEW more, NEW q \in Phases,
           Rest(t, more), lock' = lock, Holds(q, t)',
           Runs(more \o Tail(calls[t]), At(Now', q), Final(t))
    PROVE  CallsInv' /\ RunsInv' /\ (Started' => Started \/ Now' = Base)
<1> DEFINE s == more \o Tail(calls[t])
<1>1. s \in Seq(Calls)
  BY DEF Runs
<1>2. calls' = [calls EXCEPT ![t] = s] /\ calls \in [Threads -> Seq(Calls)]
  BY DEF Rest, CallsInv
<1>3. Runs(s, At(Now', q), Final(t))
  OBVIOUS
<1> HIDE DEF s
<1>4. /\ calls' \in [Threads -> Seq(Calls)] /\ calls'[t] = s
      /\ \A u \in Threads : u # t => calls'[u] = <<>>
  BY <1>1, <1>2, Alone
<1>5. CallsInv'
  <2>1. t = "main" => lock = "free"
    BY DEF CallsInv
  <2>2. t # "main" => lock = t
    BY DEF CallsInv, Threads
  <2> QED
    BY <1>4, <2>1, <2>2 DEF CallsInv, Threads
<1>6. s = <<>> => Now' = Base /\ (Traced => Shown)'
  <2>1. s = <<>> => Now' = Base /\ q = Rests(t)
    BY <1>3, Rested
  <2>2. q = Rests(t) => (Traced => Shown)'
    BY DEF Holds, Rests
  <2> QED
    BY <2>1, <2>2
<1>7. RunsInv'
  <2>1. Ready(t)'
    BY <1>3, <1>4 DEF Ready
  <2> QED
    BY <1>4, <1>6, <2>1 DEF RunsInv
<1>8. Started' => Started \/ Now' = Base
  BY <1>2, <1>4, <1>6 DEF Started, Threads
<1> QED
  BY <1>5, <1>7, <1>8

-----------------------------------------------------------------------------
(***************************************************************************)
(* Every call does what Safe says                                          *)
(***************************************************************************)
\* trace_start_location: trace.c:55-61.
LEMMA StartLocation ==
    ASSUME StackInv, NEW a \in Calls, a.call = "start_location", NEW y \in States,
           Safe(a, Now, y), trace_start_location(a.site)
    PROVE  StackInv' /\ Now' = y
<1>1. \/ /\ enabled /\ a.site \in Sites /\ Now.second = NoSite /\ y = Push(Now, a.site)
      \/ ~enabled /\ y = Now
  BY NowFields DEF Safe, Fields
<1>2. enabled' = enabled /\ cycle_count' = cycle_count
  BY DEF trace_start_location
<1>3. CASE ~enabled
  <2>1. location_stack_top' = location_stack_top /\ location_stack' = location_stack
    BY <1>3 DEF trace_start_location
  <2> QED
    BY <1>1, <1>2, <1>3, <2>1 DEF StackInv, Now
<1>4. CASE enabled
  <2>1. a.site \in Sites /\ Now.second = NoSite /\ y = Push(Now, a.site) /\ Now \in States
    BY <1>1, <1>4, NowFields DEF Fields
  <2>2. location_stack_top \in {-1, 0} /\ location_stack_top' = location_stack_top + 1
    <3>1. location_stack_top \in {-1, 0, 1} /\ location_stack_top # 1
      BY <2>1, NowFields DEF StackInv, Fields
    <3> QED
      BY <1>4, <3>1 DEF trace_start_location
  <2>3. location_stack' = [i \in 0 .. location_stack_top' |->
                             IF i = location_stack_top' THEN a.site ELSE location_stack[i]]
    BY <1>4 DEF trace_start_location
  <2>4. CASE location_stack_top = -1
    <3>1. location_stack_top' = 0
      BY <2>2, <2>4
    <3>2. location_stack'[0] = a.site
      BY <2>3, <3>1
    <3>3. StackInv'
      BY <1>2, <2>1, <3>1, <3>2 DEF StackInv
    <3>4. /\ y.first = a.site /\ y.second = NoSite /\ y.on = enabled
          /\ y.boot = (cycle_count = Unknown)
      BY <2>1, <2>4, NowFields DEF Push, States, Fields
    <3>5. /\ Now' \in States /\ Now'.on = enabled /\ Now'.boot = (cycle_count = Unknown)
          /\ Now'.first = a.site /\ Now'.second = NoSite
      BY <1>2, <3>1, <3>2, <3>3, NowFieldsNext DEF Fields
    <3> QED
      BY <3>3, <3>4, <3>5, StateEqual
  <2>5. CASE location_stack_top = 0
    <3>1. location_stack_top' = 1
      BY <2>2, <2>5
    <3>2. location_stack'[0] = location_stack[0] /\ location_stack'[1] = a.site
      BY <2>3, <3>1
    <3>3. StackInv'
      BY <1>2, <2>1, <2>5, <3>1, <3>2 DEF StackInv
    <3>4. /\ y.first = location_stack[0] /\ y.second = a.site /\ y.on = enabled
          /\ y.boot = (cycle_count = Unknown)
      BY <2>1, <2>5, NowFields DEF Push, States, Fields
    <3>5. /\ Now' \in States /\ Now'.on = enabled /\ Now'.boot = (cycle_count = Unknown)
          /\ Now'.first = location_stack[0] /\ Now'.second = a.site
      BY <1>2, <3>1, <3>2, <3>3, NowFieldsNext DEF Fields
    <3> QED
      BY <3>3, <3>4, <3>5, StateEqual
  <2> QED
    BY <2>2, <2>4, <2>5
<1> QED
  BY <1>3, <1>4

\* trace_end_location: trace.c:63-68.
LEMMA EndLocation ==
    ASSUME StackInv, NEW a \in Calls, a.call = "end_location", NEW y \in States,
           Safe(a, Now, y), trace_end_location
    PROVE  StackInv' /\ Now' = y
<1>1. \/ enabled /\ Now.first # NoSite /\ y = Pop(Now)
      \/ ~enabled /\ y = Now
  BY NowFields DEF Safe, Fields
<1>2. enabled' = enabled /\ cycle_count' = cycle_count /\ location_stack' = location_stack
  BY DEF trace_end_location
<1>3. CASE ~enabled
  <2>1. location_stack_top' = location_stack_top
    BY <1>3 DEF trace_end_location
  <2> QED
    BY <1>1, <1>2, <1>3, <2>1 DEF StackInv, Now
<1>4. CASE enabled
  <2>1. Now.first # NoSite /\ y = Pop(Now) /\ Now \in States
    BY <1>1, <1>4, NowFields DEF Fields
  <2>2. location_stack_top \in {0, 1} /\ location_stack_top' = location_stack_top - 1
    <3>1. location_stack_top \in {-1, 0, 1} /\ location_stack_top # -1
      BY <2>1, NowFields DEF StackInv, Fields
    <3> QED
      BY <1>4, <3>1 DEF trace_end_location
  <2>3. CASE location_stack_top = 0
    <3>1. location_stack_top' = -1
      BY <2>2, <2>3
    <3>2. StackInv'
      BY <1>2, <3>1 DEF StackInv
    <3>3. /\ y.first = NoSite /\ y.second = NoSite /\ y.on = enabled
          /\ y.boot = (cycle_count = Unknown)
      BY <2>1, <2>3, NowFields DEF Pop, States, Fields
    <3>4. /\ Now' \in States /\ Now'.on = enabled /\ Now'.boot = (cycle_count = Unknown)
          /\ Now'.first = NoSite /\ Now'.second = NoSite
      BY <1>2, <3>1, <3>2, NowFieldsNext DEF Fields
    <3> QED
      BY <3>2, <3>3, <3>4, StateEqual
  <2>4. CASE location_stack_top = 1
    <3>1. location_stack_top' = 0
      BY <2>2, <2>4
    <3>2. StackInv'
      BY <1>2, <2>4, <3>1 DEF StackInv
    <3>3. /\ y.first = location_stack[0] /\ y.second = NoSite /\ y.on = enabled
          /\ y.boot = (cycle_count = Unknown)
      BY <2>1, <2>4, NowFields DEF Pop, States, Fields
    <3>4. /\ Now' \in States /\ Now'.on = enabled /\ Now'.boot = (cycle_count = Unknown)
          /\ Now'.first = location_stack[0] /\ Now'.second = NoSite
      BY <1>2, <3>1, <3>2, NowFieldsNext DEF Fields
    <3> QED
      BY <3>2, <3>3, <3>4, StateEqual
  <2> QED
    BY <2>2, <2>3, <2>4
<1> QED
  BY <1>3, <1>4

\* trace_register and trace_memory: a line shows the position of its own
\* access, or none.
LEMMA Access ==
    ASSUME StackInv, LineInv, NEW a \in Calls, a.call \in {"register", "memory"},
           NEW y \in States, Safe(a, Now, y), NEW flag, NEW t, trace_access(t, a, flag),
           trace_flags' = trace_flags
    PROVE  StackInv' /\ Now' = y /\ LineInv'
<1>1. /\ y = Now
      /\ enabled => /\ a.site # "handler" /\ Top(Now) \in {a.site, NoSite}
                    /\ a.sure => Top(Now) = a.site
  BY NowFields DEF Safe, Fields
<1>2. /\ enabled' = enabled /\ cycle_count' = cycle_count
      /\ location_stack' = location_stack /\ location_stack_top' = location_stack_top
  BY DEF trace_access
<1>3. StackInv' /\ Now' = y
  BY <1>1, <1>2 DEF StackInv, Now
<1>4. LineInv'
  <2>1. CASE line' = line
    BY <1>2, <2>1 DEF LineInv, OwnPosition, HandlersInvisible
  <2>2. CASE line' # line
    <3>1. /\ enabled
          /\ line' = [site |-> a.site, sure |-> a.sure, cycle |-> cycle_count,
                      printed |-> trace_print_location, by |-> t]
      BY <2>2 DEF trace_access
    <3>2. /\ line'.site = a.site /\ line'.sure = a.sure
          /\ line'.printed = trace_print_location
      BY <3>1
    <3>3. trace_print_location = IF "POSITION" \in trace_flags THEN Top(Now) ELSE NoSite
      <4>1. location_stack_top \in {-1, 0, 1}
        BY DEF StackInv
      <4>2. location_stack_top = -1 => Top(Now) = NoSite
        BY NowFields DEF Fields, Top
      <4>3. location_stack_top \in {0, 1} => Top(Now) = location_stack[location_stack_top]
        BY NowFields DEF Fields, Top
      <4>4. location_stack_top >= 0 <=> location_stack_top \in {0, 1}
        BY <4>1
      <4> QED
        BY <4>1, <4>2, <4>3, <4>4, Zenon DEF trace_print_location
    <3>4. OwnPosition' /\ HandlersInvisible'
      BY <1>1, <3>1, <3>2, <3>3 DEF OwnPosition, HandlersInvisible
    <3> QED
      BY <3>4 DEF LineInv
  <2> QED
    BY <2>1, <2>2
<1> QED
  BY <1>3, <1>4

\* trace_enable and trace_disable, and the counter of arm_core.c.
LEMMA Switches ==
    ASSUME StackInv, LineInv, NEW a \in Calls, NEW y \in States, Safe(a, Now, y),
           trace_flags' = trace_flags,
           \/ a.call = "disable" /\ trace_set(FALSE)
           \/ a.call = "enable" /\ trace_set(TRUE)
           \/ a.call = "cycle" /\ count_cycle(Counted)
           \/ a.call = "cycle_zero" /\ count_cycle(0)
    PROVE  /\ StackInv' /\ Now' = y /\ LineInv' /\ line' = line
           /\ cycle_count # Unknown => cycle_count' # Unknown
<1>1. /\ location_stack_top' = location_stack_top /\ location_stack' = location_stack
      /\ line' = line
  BY DEF trace_set, count_cycle
<1>2. cycle_count \in Int /\ cycle_count >= -1 /\ Unknown = -1
  BY DEF StackInv, Unknown
<1>3. /\ enabled' \in BOOLEAN /\ enabled' = y.on /\ (cycle_count' = Unknown) = y.boot
      /\ y.first = Now.first /\ y.second = Now.second
      /\ cycle_count' \in Nat \cup {Unknown}
      /\ cycle_count # Unknown => cycle_count' # Unknown
  <2>1. CASE a.call \in {"disable", "enable"}
    <3>1. cycle_count' = cycle_count /\ enabled' = (a.call = "enable")
      BY <2>1 DEF trace_set
    <3>2. /\ y.on = (a.call = "enable") /\ y.boot = Now.boot
          /\ y.first = Now.first /\ y.second = Now.second
      BY <2>1 DEF Safe
    <3> QED
      BY <1>2, <3>1, <3>2, NowFields DEF Fields, StackInv
  <2>2. CASE a.call = "cycle"
    <3>1. cycle_count' = Counted /\ enabled' = enabled
      BY <2>2 DEF count_cycle
    <3>2. y = Now
      BY <2>2 DEF Safe
    <3>3. Counted \in Nat \cup {Unknown} /\ (Counted = Unknown <=> cycle_count = Unknown)
      <4>1. CASE cycle_count = Unknown
        BY <4>1 DEF Counted
      <4>2. CASE cycle_count \in Nat
        <5>1. (cycle_count + 1) % CycleMod \in Nat
          BY <4>2, TraceAssumption
        <5> QED
          BY <1>2, <4>2, <5>1 DEF Counted
      <4> QED
        BY <4>1, <4>2 DEF StackInv
    <3> QED
      BY <1>2, <3>1, <3>2, <3>3, NowFields DEF Fields, StackInv
  <2>3. CASE a.call = "cycle_zero"
    <3>1. cycle_count' = 0 /\ enabled' = enabled
      BY <2>3 DEF count_cycle
    <3>2. Now.boot /\ ~y.boot /\ y.on = Now.on /\ y.first = Now.first /\ y.second = Now.second
      BY <2>3 DEF Safe
    <3>3. y.boot = FALSE /\ 0 # Unknown /\ cycle_count = Unknown /\ Now.on = enabled
      <4>1. y.boot \in BOOLEAN /\ 0 # Unknown
        BY DEF States, Unknown
      <4>2. Now.boot = (cycle_count = Unknown) /\ Now.on = enabled
        BY NowFields DEF Fields
      <4> QED
        BY <3>2, <4>1, <4>2, Zenon
    <3>4. (cycle_count' = Unknown) = y.boot
      BY <3>1, <3>3
    <3> QED
      BY <1>2, <3>1, <3>2, <3>3, <3>4 DEF StackInv
  <2> QED
    BY <2>1, <2>2, <2>3
<1>4. StackInv'
  BY <1>1, <1>3 DEF StackInv
<1>5. LineInv'
  BY <1>1, <1>2, <1>3 DEF LineInv, OwnPosition, HandlersInvisible
<1>6. Now' = y
  <2>1. Now'.first = Now.first /\ Now'.second = Now.second
    BY <1>1 DEF Now
  <2>2. Now' \in States /\ Now'.on = enabled' /\ Now'.boot = (cycle_count' = Unknown)
    BY <1>4, NowFieldsNext DEF Fields, Unknown
  <2> QED
    BY <1>3, <2>1, <2>2, StateEqual
<1> QED
  BY <1>1, <1>3, <1>4, <1>5, <1>6

-----------------------------------------------------------------------------
(***************************************************************************)
(* The steps                                                               *)
(***************************************************************************)
\* A line printed after another continues its instruction or begins the next.
Apart == line' # line /\ line'.by # "main" => Continues(line, line') \/ Begins(line, line')

\* What a step keeps, and how the line it prints follows the one before.
Kept == TraceInv' /\ Apart

\* The listeners work once the counter is set.
LEMMA CounterSet ==
    ASSUME TraceInv, NEW t \in {"gdb", "irq"}, calls[t] # <<>>
    PROVE  cycle_count # Unknown /\ Current = cycle_count
  BY DEF TraceInv, CallsInv, Started, Current

\* An access: the line of a fetch is the first of its cycle or follows one of
\* the same fetch, the others follow lines of their own thread's instruction or
\* are not gdb's.
LEMMA AccessPhases ==
    ASSUME NEW a, NEW t \in Threads, NEW p \in Phases, NEW q \in Phases, Holds(p, t),
           NEW flag \in {"REGISTERS", "MEMORY"}, trace_access(t, a, flag),
           a.call = (IF flag = "REGISTERS" THEN "register" ELSE "memory"),
           Goes(a, enabled, p, q), trace_flags' = trace_flags,
           t # "main" => cycle_count # Unknown
    PROVE  Holds(q, t)' /\ Apart
<1>0. cycle_count' = cycle_count /\ Current' = Current /\ Traced' = Traced
  BY DEF trace_access, Current, Traced
<1>1. CASE ~enabled
  <2>1. q = p /\ line' = line
    BY <1>1 DEF Goes, trace_access
  <2> QED
    BY <1>0, <2>1 DEF Holds, Shown, Behind, Fetching, Apart
<1>2. CASE enabled /\ flag \notin trace_flags
  <2>1. Prints(a, p, q) /\ line' = line
    BY <1>2 DEF Goes, trace_access
  <2>2. /\ Shown' = Shown /\ Behind' = Behind /\ Fetching' = Fetching
        /\ line.by = "gdb" /\ line.cycle = cycle_count /\ t = "gdb" => Shown
    BY <1>0, <2>1 DEF Shown, Behind, Fetching, Since, Current
  <2>3. Traced => (flag = "REGISTERS" <=> "REGISTERS" \notin trace_flags)
    BY <1>2 DEF Traced
  <2> QED
    BY <1>0, <2>1, <2>2, <2>3 DEF Holds, Prints, Apart, Fetching
<1>3. CASE enabled /\ flag \in trace_flags
  <2>1. Prints(a, p, q) /\ Traced
    BY <1>3 DEF Goes, Traced
  <2>2. line'.site = a.site /\ line'.cycle = cycle_count /\ line'.by = t
    BY <1>3 DEF trace_access
  <2>3. CASE t = "gdb"
    <3>1. p # "free" /\ Current = cycle_count
      BY <2>3 DEF Holds, Current
    <3>2. /\ (line.by = "gdb" => Since(line) = line.cycle)
          /\ Since(line)' = cycle_count
      BY <2>2, <2>3 DEF Since
    <3>3. CASE a.site = "fetch"
      <4>1. Fetching'
        BY <1>0, <2>2, <2>3, <3>3 DEF Fetching
      <4>2. Fetching => Continues(line, line')
        BY <2>2, <2>3, <3>2, <3>3 DEF Fetching, Continues
      <4>3. Behind => Begins(line, line')
        BY <2>2, <2>3, <3>3 DEF Behind, Begins
      <4>4. Fetching \/ Behind
        BY <2>1, <3>1, <3>3 DEF Holds, Prints
      <4>5. q \in {"reg", "fetched", "own"}
        BY <2>1, <3>1, <3>3 DEF Prints
      <4>6. "REGISTERS" \in trace_flags \/ q # "reg"
        BY <1>3, <2>1, <3>3 DEF Prints
      <4>7. Holds(q, t)'
        BY <1>0, <2>3, <4>1, <4>5, <4>6 DEF Holds, Fetching
      <4> QED
        BY <4>2, <4>3, <4>4, <4>7 DEF Apart
    <3>4. CASE a.site # "fetch"
      <4>1. p = "own" /\ q \in {"own", "other"} /\ line.by = "gdb" /\ line.cycle = cycle_count
        BY <2>1, <3>1, <3>4 DEF Prints, Holds
      <4>2. Continues(line, line')
        BY <2>2, <2>3, <3>2, <3>4, <4>1 DEF Continues
      <4>3. Shown'
        BY <1>0, <3>1, <3>2 DEF Shown
      <4> QED
        BY <1>0, <2>2, <2>3, <4>1, <4>2, <4>3 DEF Apart, Holds
    <3> QED
      BY <3>3, <3>4
  <2>4. CASE t # "gdb"
    <3>1. p = "free" /\ q = "free" /\ a.site # "fetch" /\ Shown
      BY <2>1, <2>4 DEF Holds, Prints
    <3>2. t = "main" => Current = 0 /\ Since(line)' = 0
      BY <2>2 DEF Holds, Since
    <3>3. t # "main" => Since(line)' = cycle_count /\ Current = cycle_count
      BY <2>2 DEF Since, Current
    <3>4. Shown'
      BY <1>0, <3>2, <3>3 DEF Shown
    <3>5. t # "main" => Continues(line, line')
      BY <2>2, <2>4, <3>1, <3>3 DEF Shown, Continues
    <3> QED
      BY <1>0, <2>2, <2>4, <3>1, <3>2, <3>4, <3>5 DEF Holds, Apart
  <2> QED
    BY <2>3, <2>4
<1> QED
  BY <1>1, <1>2, <1>3

\* The other calls print nothing; the counter goes on to the next cycle.
LEMMA OtherPhases ==
    ASSUME NEW a, NEW t \in Threads, NEW p \in Phases, NEW q \in Phases, Holds(p, t),
           Goes(a, enabled, p, q), line' = line, trace_flags' = trace_flags,
           t # "main" => cycle_count # Unknown,
           \/ a.call \in {"start_location", "end_location", "disable", "enable"}
              /\ cycle_count' = cycle_count
           \/ a.call = "cycle" /\ cycle_count' = Counted
           \/ a.call = "cycle_zero" /\ cycle_count = Unknown /\ cycle_count' = 0
    PROVE  Holds(q, t)' /\ Apart
<1>0. Apart /\ Traced' = Traced
  BY DEF Apart, Traced
<1>1. CASE a.call \in {"start_location", "end_location", "disable", "enable"}
  <2>1. q = p /\ cycle_count' = cycle_count
    BY <1>1 DEF Goes
  <2> QED
    BY <1>0, <2>1 DEF Holds, Shown, Behind, Fetching, Current
<1>2. CASE a.call = "cycle"
  <2>1. p = "other" /\ q = "new" /\ cycle_count' = Counted
    BY <1>2 DEF Goes
  <2>2. t = "gdb" /\ cycle_count # Unknown
    BY <2>1 DEF Holds
  <2>3. Traced => Since(line) = cycle_count
    BY <2>1, <2>2 DEF Holds, Shown, Current
  <2>4. Traced => Behind'
    BY <2>1, <2>2, <2>3 DEF Behind, Counted
  <2> QED
    BY <1>0, <2>1, <2>2, <2>4 DEF Holds
<1>3. CASE a.call = "cycle_zero"
  <2>1. p = "free" /\ q = "free" /\ cycle_count = Unknown /\ cycle_count' = 0
    BY <1>3 DEF Goes
  <2>2. Current' = Current
    BY <2>1 DEF Current
  <2> QED
    BY <1>0, <2>1, <2>2 DEF Holds, Shown
<1> QED
  BY <1>1, <1>2, <1>3

\* A call that changes trace.c.
LEMMA Performs ==
    ASSUME TraceInv, NEW t \in Threads, perform(t)
    PROVE  Kept
<1> DEFINE a == Head(calls[t])
<1>1. calls[t] # <<>> /\ calls \in [Threads -> Seq(Calls)] /\ a \in Calls
  <2>1. calls[t] # <<>>
    BY DEF perform, Make
  <2>2. calls \in [Threads -> Seq(Calls)] /\ calls[t] \in Seq(Calls)
    BY DEF TraceInv, CallsInv
  <2> QED
    BY <2>1, <2>2
<1>2. PICK p \in Phases : Holds(p, t) /\ Runs(calls[t], At(Now, p), Final(t))
  BY <1>1 DEF TraceInv, RunsInv, Ready
<1>3. PICK z \in Points : Moves(a, At(Now, p), z) /\ Runs(Tail(calls[t]), z, Final(t))
  BY <1>1, <1>2, RunsHead
<1> DEFINE y == z.st
           q == z.phase
<1>4. /\ y \in States /\ q \in Phases /\ z = At(y, q)
      /\ Safe(a, Now, y) /\ Goes(a, enabled, p, q)
  <2>1. Now.on = enabled
    BY NowFields DEF TraceInv, Fields
  <2> QED
    BY <1>3, <2>1, PointTypes DEF Moves
<1>5. Rest(t, <<>>) /\ lock' = lock /\ trace_flags' = trace_flags
  BY DEF perform, control
<1>6. \/ a.call = "start_location" /\ trace_start_location(a.site)
      \/ a.call = "end_location" /\ trace_end_location
      \/ a.call = "register" /\ trace_access(t, a, "REGISTERS")
      \/ a.call = "memory" /\ trace_access(t, a, "MEMORY")
      \/ a.call = "disable" /\ trace_set(FALSE)
      \/ a.call = "enable" /\ trace_set(TRUE)
      \/ a.call = "cycle" /\ count_cycle(Counted)
      \/ a.call = "cycle_zero" /\ count_cycle(0)
  BY DEF perform, Make
<1>7. t # "main" => cycle_count # Unknown
  BY <1>1, CounterSet DEF Threads
<1> HIDE DEF a, y, q
<1>8. /\ StackInv' /\ Now' = y /\ LineInv' /\ Holds(q, t)' /\ Apart
      /\ cycle_count # Unknown => cycle_count' # Unknown
  <2>0. StackInv /\ LineInv
    BY DEF TraceInv
  <2>1. CASE a.call = "start_location" /\ trace_start_location(a.site)
    <3>1. line' = line /\ cycle_count' = cycle_count
      BY <2>1 DEF trace_start_location
    <3>2. Holds(q, t)' /\ Apart
      BY <1>2, <1>4, <1>5, <1>7, <2>1, <3>1, OtherPhases
    <3> QED
      BY <1>1, <1>4, <1>5, <2>0, <2>1, <3>1, <3>2, StartLocation
      DEF LineInv, OwnPosition, HandlersInvisible
  <2>2. CASE a.call = "end_location" /\ trace_end_location
    <3>1. line' = line /\ cycle_count' = cycle_count
      BY <2>2 DEF trace_end_location
    <3>2. Holds(q, t)' /\ Apart
      BY <1>2, <1>4, <1>5, <1>7, <2>2, <3>1, OtherPhases
    <3> QED
      BY <1>1, <1>4, <1>5, <2>0, <2>2, <3>1, <3>2, EndLocation
      DEF LineInv, OwnPosition, HandlersInvisible
  <2>3. CASE \/ a.call = "register" /\ trace_access(t, a, "REGISTERS")
             \/ a.call = "memory" /\ trace_access(t, a, "MEMORY")
    <3>1. cycle_count' = cycle_count
      BY <2>3 DEF trace_access
    <3>2. Holds(q, t)' /\ Apart
      BY <1>2, <1>4, <1>5, <1>7, <2>3, AccessPhases
    <3> QED
      BY <1>1, <1>4, <1>5, <2>0, <2>3, <3>1, <3>2, Access
  <2>4. CASE \/ a.call = "disable" /\ trace_set(FALSE)
             \/ a.call = "enable" /\ trace_set(TRUE)
             \/ a.call = "cycle" /\ count_cycle(Counted)
             \/ a.call = "cycle_zero" /\ count_cycle(0)
    <3>1. /\ StackInv' /\ Now' = y /\ LineInv' /\ line' = line
          /\ cycle_count # Unknown => cycle_count' # Unknown
      BY <1>1, <1>4, <1>5, <2>0, <2>4, Switches
    <3>2. a.call = "cycle_zero" => cycle_count = Unknown
      <4>1. a.call = "cycle_zero" => Now.boot
        BY <1>4 DEF Safe
      <4>2. Now.boot = (cycle_count = Unknown)
        BY <2>0, NowFields DEF Fields
      <4> QED
        BY <4>1, <4>2, Zenon
    <3>3. Holds(q, t)' /\ Apart
      BY <1>2, <1>4, <1>5, <1>7, <2>4, <3>1, <3>2, OtherPhases DEF trace_set, count_cycle
    <3> QED
      BY <3>1, <3>3
  <2> QED
    BY <1>6, <2>1, <2>2, <2>3, <2>4
<1>9. Runs(<<>> \o Tail(calls[t]), At(Now', q), Final(t))
  <2>1. Tail(calls[t]) \in Seq(Calls)
    BY <1>1
  <2>2. <<>> \o Tail(calls[t]) = Tail(calls[t])
    BY <2>1, ConcatEmptySeq
  <2> QED
    BY <1>3, <1>4, <1>8, <2>2
<1>10. CallsInv' /\ RunsInv' /\ (Started' => Started \/ Now' = Base)
  BY <1>1, <1>4, <1>5, <1>8, <1>9, CallsGoOn DEF TraceInv
<1>11. Now' = Base => cycle_count' # Unknown
  <2>1. Base.boot = FALSE
    BY DEF Base
  <2>2. Now'.boot = (cycle_count' = Unknown)
    BY <1>8, NowFieldsNext DEF Fields, Unknown
  <2> QED
    BY <2>1, <2>2, Zenon
<1>12. TraceInv'
  BY <1>8, <1>10, <1>11 DEF TraceInv
<1> QED
  BY <1>8, <1>12 DEF Kept

\* The calls that make room for others are made in Base, by gdb.
LEMMA Expands ==
    ASSUME TraceInv, NEW t \in Threads, NEW c \in {"arm_state", "turn"}, Make(t, c),
           NEW more, NEW q \in {"own", "other"}, c = "turn" => q = "other",
           Runs(more, At(Base, q), At(Base, "other")), Rest(t, more), lock' = lock,
           UNCHANGED <<trace_flags, enabled, location_stack, location_stack_top,
                       cycle_count, line>>
    PROVE  Kept
<1>1. calls[t] # <<>> /\ Head(calls[t]).call = c
  BY DEF Make
<1>2. PICK p \in Phases : Holds(p, t) /\ Runs(calls[t], At(Now, p), Final(t))
  BY <1>1 DEF TraceInv, RunsInv, Ready
<1>3. PICK z \in Points : /\ Moves(Head(calls[t]), At(Now, p), z)
                          /\ Runs(Tail(calls[t]), z, Final(t))
  BY <1>1, <1>2, RunsHead
<1>4. /\ z = At(z.st, z.phase) /\ Safe(Head(calls[t]), Now, z.st)
      /\ Goes(Head(calls[t]), Now.on, p, z.phase)
  BY <1>3, PointTypes DEF Moves
<1>5. /\ z.st = Base /\ Now = Base /\ z.phase = "other"
      /\ p = IF c = "turn" THEN "other" ELSE "own"
  BY <1>1, <1>4 DEF Safe, Goes
<1>6. Now' = Base
  BY <1>5 DEF Now
<1>7. Runs(more \o Tail(calls[t]), At(Now', q), Final(t)) /\ q \in Phases
  BY <1>3, <1>4, <1>5, <1>6, RunsCat DEF Phases
<1>8. t = "gdb" /\ cycle_count # Unknown /\ Current = cycle_count
  <2>1. t = "gdb"
    BY <1>2, <1>5 DEF Holds
  <2> QED
    BY <1>1, <2>1, CounterSet
<1>9. Holds(q, t)
  <2>1. CASE q = p
    BY <1>2, <2>1
  <2>2. CASE q # p
    <3>1. p = "own" /\ q = "other"
      BY <1>5, <2>2
    <3> QED
      BY <1>2, <1>8, <3>1 DEF Holds, Shown, Since
  <2> QED
    BY <2>1, <2>2
<1>10. Holds(q, t)'
  BY <1>9 DEF Holds, Traced, Shown, Behind, Fetching, Current
<1>11. CallsInv' /\ RunsInv'
  BY <1>1, <1>7, <1>10, CallsGoOn DEF TraceInv
<1>12. StackInv' /\ LineInv'
  BY DEF TraceInv, StackInv, LineInv, OwnPosition, HandlersInvisible
<1> QED
  BY <1>8, <1>11, <1>12 DEF TraceInv, Kept, Apart

\* An operation starts with the lock, in Base.
LEMMA OperationBegins ==
    ASSUME TraceInv, Started, lock = "free", NEW t \in {"gdb", "irq"}, NEW s,
           Runs(s, Final(t), Final(t)), lock' = t, calls' = [calls EXCEPT ![t] = s],
           UNCHANGED quiet
    PROVE  Kept
<1>1. /\ calls \in [Threads -> Seq(Calls)] /\ s \in Seq(Calls)
      /\ \A u \in Threads : calls[u] = <<>>
  BY DEF TraceInv, CallsInv, Threads, Started, Runs
<1>2. /\ Now = Base /\ Now' = Now /\ (Traced => Shown)
      /\ Traced' = Traced /\ Shown' = Shown
  BY <1>1 DEF TraceInv, RunsInv, quiet, Now, Traced, Shown, Current
<1>3. /\ calls' \in [Threads -> Seq(Calls)] /\ calls'[t] = s
      /\ \A u \in Threads : u # t => calls'[u] = <<>>
  BY <1>1 DEF Threads
<1>4. CallsInv'
  BY <1>3 DEF CallsInv, Threads
<1>5. RunsInv'
  <2>1. \A u \in Threads : calls'[u] # <<>> => u = t
    BY <1>3
  <2>2. Rests(t) \in Phases /\ Holds(Rests(t), t)'
    BY <1>2 DEF Rests, Phases, Holds
  <2>3. Ready(t)'
    BY <1>2, <1>3, <2>2 DEF Ready, Final
  <2>4. (\A u \in Threads : calls'[u] = <<>>) => Now' = Base /\ (Traced => Shown)'
    BY <1>2
  <2> QED
    BY <2>1, <2>3, <2>4 DEF RunsInv
<1>6. StackInv' /\ LineInv' /\ line' = line /\ cycle_count' = cycle_count
  BY DEF TraceInv, StackInv, LineInv, OwnPosition, HandlersInvisible, quiet
<1> QED
  BY <1>4, <1>5, <1>6 DEF TraceInv, Kept, Apart, Started

\* A step of no consequence.
LEMMA SameReady ==
    ASSUME UNCHANGED quiet, calls' = calls, NEW u \in Threads, Ready(u)
    PROVE  Ready(u)'
<1>1. PICK p \in Phases : Holds(p, u) /\ Runs(calls[u], At(Now, p), Final(u))
  BY DEF Ready
<1>2. Now' = Now
  BY DEF quiet, Now
<1>3. Holds(p, u)'
  BY <1>1 DEF quiet, Holds, Traced, Shown, Behind, Fetching, Current
<1> QED
  BY <1>1, <1>2, <1>3 DEF Ready

\* One step per action of Next.
LEMMA StepKeeps == TraceInv /\ [Next]_vars => Kept
<1> SUFFICES ASSUME TraceInv, [Next]_vars PROVE Kept
  OBVIOUS
<1> DEFINE b == At(Base, "other")
<1>0. Runs(<<>>, b, b)
  BY RunsEmpty, StateTypes, PointTypes DEF Phases
<1>1. ASSUME NEW t \in Threads, perform(t) PROVE Kept
  BY <1>1, Performs
<1>2. ASSUME NEW t \in Threads, trace_arm_state(t) PROVE Kept
  <2>1. \E more : Rest(t, more) /\ \E q \in {"own", "other"} : Runs(more, At(Base, q), b)
    <3>1. Rest(t, arm_print_state) \/ Rest(t, <<>>)
      BY <1>2 DEF trace_arm_state
    <3>2. Runs(arm_print_state, At(Base, "own"), b) /\ Runs(<<>>, At(Base, "other"), b)
      BY <1>0, PrintRuns
    <3> HIDE DEF b
    <3> QED
      BY <3>1, <3>2
  <2>2. PICK more : Rest(t, more) /\ \E q \in {"own", "other"} : Runs(more, At(Base, q), b)
    BY <2>1
  <2>3. PICK q \in {"own", "other"} : Runs(more, At(Base, q), b)
    BY <2>2
  <2> QED
    BY <1>2, <2>2, <2>3, Expands DEF trace_arm_state, control
<1>3. ASSUME NEW t \in Threads, cont_turn(t) PROVE Kept
  <2>1. PICK more : Rest(t, more) /\ Runs(more, b, b)
    <3>1. CASE Rest(t, <<>>)
      BY <1>0, <3>1
    <3>2. CASE \E s \in step, c \in cont : Rest(t, s \o c)
      <4>1. PICK s \in step, c \in cont : Rest(t, s \o c)
        BY <3>2
      <4>2. Runs(s \o c, b, b)
        BY StepRuns, HandlersRun, RunsCat
      <4> QED
        BY <4>1, <4>2
    <3> QED
      BY <1>3, <3>1, <3>2 DEF cont_turn
  <2> QED
    BY <1>3, <2>1, Expands DEF cont_turn
<1>4. ASSUME NEW t \in Threads, unlock(t) PROVE Kept
  <2>1. /\ lock = t /\ calls[t] = <<>> /\ lock' = "free" /\ calls' = calls /\ UNCHANGED quiet
    BY <1>4 DEF unlock
  <2>2. \A u \in {"gdb", "irq"} : calls[u] = <<>>
    BY <2>1 DEF TraceInv, CallsInv
  <2>3. CallsInv'
    BY <2>1, <2>2 DEF TraceInv, CallsInv
  <2>4. /\ Now' = Now /\ line' = line /\ cycle_count' = cycle_count
        /\ (Traced' = Traced) /\ (Shown' = Shown)
    BY <2>1 DEF quiet, Now, Traced, Shown, Current
  <2>5. RunsInv'
    <3>1. \A u \in Threads : Ready(u) => Ready(u)'
      BY <2>1, <2>4, SameReady DEF quiet
    <3> QED
      BY <2>1, <2>4, <3>1 DEF TraceInv, RunsInv
  <2>6. StackInv' /\ LineInv'
    BY <2>1 DEF TraceInv, StackInv, LineInv, OwnPosition, HandlersInvisible, quiet
  <2> QED
    BY <2>1, <2>3, <2>4, <2>5, <2>6 DEF TraceInv, Kept, Apart, Started
<1>5. CASE gdb_packet_analysis
  <2>1. PICK c \in step \cup read_registers \cup write_registers \cup cont :
            calls' = [calls EXCEPT !["gdb"] = c]
    BY <1>5 DEF gdb_packet_analysis
  <2>2. Runs(c, Final("gdb"), Final("gdb"))
    BY StepRuns, HandlersRun DEF Final, Rests
  <2> QED
    BY <1>5, <2>1, <2>2, OperationBegins DEF gdb_packet_analysis
<1>6. CASE irq_listener
  <2>1. Runs(arm_reset, Final("irq"), Final("irq"))
    BY ResetRuns DEF Final, Rests, Steady
  <2> QED
    BY <1>6, <2>1, OperationBegins DEF irq_listener
<1>7. CASE UNCHANGED vars
  <2>1. /\ calls' = calls /\ lock' = lock /\ UNCHANGED quiet
    BY <1>7 DEF vars, control, quiet
  <2>2. /\ Now' = Now /\ line' = line /\ cycle_count' = cycle_count
        /\ (Traced' = Traced) /\ (Shown' = Shown)
    BY <2>1 DEF quiet, Now, Traced, Shown, Current
  <2>3. \A u \in Threads : Ready(u) => Ready(u)'
    BY <2>1, SameReady
  <2>4. StackInv' /\ LineInv'
    BY <2>1 DEF TraceInv, StackInv, LineInv, OwnPosition, HandlersInvisible, quiet
  <2> QED
    BY <2>1, <2>2, <2>3, <2>4 DEF TraceInv, Kept, Apart, CallsInv, RunsInv, Started
<1> QED
  BY <1>1, <1>2, <1>3, <1>4, <1>5, <1>6, <1>7 DEF Next, Done

\* main starts with arm_create, the counter not set.
LEMMA InitKeeps == Init => TraceInv
<1> SUFFICES ASSUME Init PROVE TraceInv
  OBVIOUS
<1>1. StackInv
  BY DEF Init, StackInv
<1>2. Now = Boot
  <2>1. /\ Now \in States /\ Now.on = TRUE /\ Now.boot = TRUE
        /\ Now.first = NoSite /\ Now.second = NoSite
    BY <1>1, NowFields DEF Init, Fields
  <2> QED
    BY <2>1, StateTypes, StateEqual DEF Boot
<1>3. /\ Runs(arm_create, At(Now, "free"), Final("main"))
      /\ arm_create \in Seq(Calls) /\ arm_create # <<>>
  <2>1. Runs(arm_create, At(Now, "free"), Final("main")) /\ arm_create \in Seq(Calls)
    BY <1>2, ResetRuns DEF Runs, Final, Rests
  <2>2. Boot # Base
    BY DEF Boot, Base
  <2> QED
    BY <1>2, <2>1, <2>2, Rested
<1>4. calls["main"] = arm_create /\ calls["gdb"] = <<>> /\ calls["irq"] = <<>>
      /\ calls \in [Threads -> Seq(Calls)]
  BY <1>3 DEF Init, Threads
<1>5. CallsInv
  BY <1>4 DEF Init, CallsInv
<1>6. RunsInv
  <2>1. "free" \in Phases /\ Holds("free", "main")
    BY DEF Phases, Holds, Init, Shown, Current, Since, NoLine
  <2>2. Ready("main")
    BY <1>3, <1>4, <2>1 DEF Ready
  <2> QED
    BY <1>3, <1>4, <2>2 DEF RunsInv, Threads
<1>7. LineInv /\ ~Started
  BY <1>3, <1>4 DEF Init, LineInv, OwnPosition, HandlersInvisible, NoLine, Unknown, NoSite, Started
<1> QED
  BY <1>1, <1>5, <1>6, <1>7 DEF TraceInv

\* The invariant holds in every reachable state.
LEMMA TraceInvariant == Spec => []TraceInv
<1>1. TraceInv /\ [Next]_vars => TraceInv'
  BY StepKeeps DEF Kept
<1> QED
  BY InitKeeps, <1>1, PTL DEF Spec

\* No handler, failed fetch or interrupt leaves a position pushed or tracing
\* off, and the stack of 128 entries never holds more than two (trace.c:34,
\* 55-68, gdb_protocol.c:168-171).
THEOREM Balanced == Spec => []BalancedBetweenOperations
<1>1. TraceInv => BalancedBetweenOperations
  <2> HAVE TraceInv
  <2>1. location_stack_top \in -1 .. 1
    BY DEF TraceInv, StackInv
  <2>2. ASSUME Started, lock = "free" PROVE location_stack_top = -1 /\ enabled
    <3>1. Now = Base
      BY <2>2 DEF TraceInv, CallsInv, RunsInv, Started, Threads
    <3>2. Base.on = TRUE /\ Base.first = NoSite
      BY DEF Base
    <3>3. location_stack_top \in {-1, 0, 1} /\ Fields
      BY NowFields DEF TraceInv, StackInv
    <3> QED
      BY <3>1, <3>2, <3>3 DEF Fields
  <2> QED
    BY <2>1, <2>2 DEF BalancedBetweenOperations
<1> QED
  BY TraceInvariant, <1>1, PTL

\* A line shows the position of its own access or none, in whatever order the
\* compiler evaluates the macros (trace_location.h:26-57).
THEOREM PositionOwn == Spec => []OwnPosition
<1>1. TraceInv => OwnPosition
  BY DEF TraceInv, LineInv
<1> QED
  BY TraceInvariant, <1>1, PTL

\* The accesses of gdb's handlers leave no line in the trace (gdb_protocol.c:168-171,
\* 213-236, 259-262, 292-324, 364-366).
THEOREM HandlersUnseen == Spec => []HandlersInvisible
<1>1. TraceInv => HandlersInvisible
  BY DEF TraceInv, LineInv
<1> QED
  BY TraceInvariant, <1>1, PTL

\* The cycles cut the trace into instructions, from the first line after
\* arm_create on and past the wrap of the counter: a cycle is one instruction
\* with the interrupts after it, none is left out, and no line of another thread
\* falls inside an instruction (arm_core.c:44-45, 129-139, gdb_protocol.c:437-439).
THEOREM InstructionsTold == Spec => InstructionsApart
<1>1. TraceInv /\ [Next]_vars =>
        [line' # line /\ line'.by # "main" => Continues(line, line') \/ Begins(line, line')]_vars
  BY StepKeeps DEF Kept, Apart
<1> QED
  BY TraceInvariant, <1>1, PTL DEF Spec, InstructionsApart
=============================================================================
