-------------------------------- MODULE Debugger -------------------------------
(***************************************************************************)
(* A machine under gdb (libgdb, machine_run): the stub that reads packets, *)
(* acknowledges them and answers, the runs it starts and what stops them,  *)
(* the monitored variables (machine_mon.c), and a gdb that writes its      *)
(* breakpoints into the program, as the stub knows no other.  The network  *)
(* may take the machine back to where the run began.                       *)
(*                                                                         *)
(* The two directions of the connection are sequences of packets and of    *)
(* single characters.  The program and its variables are small: what       *)
(* matters is where it stops, what it then holds and what was recorded.    *)
(***************************************************************************)
EXTENDS Naturals, Sequences

CONSTANTS
  Program,        \* [op, at]: "ld", "ldb", "st" of a variable, "inc", "jmp"; the last jumps to itself
  Monitors,       \* what --monitor and --modify ask: [monitor : sequence of [at, mode], modify : set of variables]
  NewValue,       \* the value --modify gives
  MaxOps, MaxBreaks, MaxBacktracks, MaxDeaths   \* bounds of what gdb and the network do

VARIABLE m        \* gdb, the connection, the stub and the machine

Vars == {"x", "y"}
Mod == 4          \* the values of the register and of the variables
Trap == [op |-> "trap", at |-> "x"]
Last == Len(Program)
-----------------------------------------------------------------------------
\* Watchpoints.  An entry of --monitor without a mode is overwritten by the next
\* one; --modify adds a watchpoint on writes where there is none.

MonitorSet(args, v) == UNION {args.monitor[i].mode : i \in {j \in DOMAIN args.monitor : args.monitor[j].at = v}}
ModifySet(args, v) == IF v \in args.modify /\ MonitorSet(args, v) = {} THEN {"w"} ELSE MonitorSet(args, v)

Raise(g, v, mode) ==
  IF mode \in g.watch[v] THEN [g EXCEPT !.cpu.sig = @ \cup {"mac", mode}, !.addr = v] ELSE g
JtagWrite(g, v, value) == Raise([g EXCEPT !.cpu.data[v] = value], v, "w")

\* machine_monitor_add_trace: record the access, and give the variable its value at the first.
AddTrace(g, mode) ==
  LET v == g.addr
      h == [g EXCEPT !.cpu.trace = Append(@, <<v, mode, g.cpu.data[v]>>)]
  IN  IF v \in g.cpu.fresh
      THEN [JtagWrite([h EXCEPT !.cpu.fresh = @ \ {v}], v, NewValue) EXCEPT !.excused = @ \/ mode = "w"]
      ELSE h

Without(g, sigs) == [g EXCEPT !.cpu.sig = @ \ sigs]

MemoryAccess(g) ==
  IF "mac" \notin g.cpu.sig THEN g
  ELSE LET g1 == Without(g, {"mac"})
           g2 == IF "r" \in g1.cpu.sig THEN AddTrace(Without(g1, {"mac", "r"}), "r") ELSE g1
       IN  IF "w" \in g2.cpu.sig THEN AddTrace(Without(g2, {"mac", "w"}), "w") ELSE g2
-----------------------------------------------------------------------------
\* One instruction.  A trap leaves the next one where it is; so does a fetch while a
\* memory access is signalled, which becomes a trap.

Insn(g) ==
  LET at == g.cpu.next
      i == IF "mac" \in g.cpu.sig THEN Trap ELSE g.cpu.text[at]
      to == IF i.op = "jmp" THEN at ELSE at + 1
      on == [g EXCEPT !.cpu.pc = to, !.cpu.next = to, !.cpu.n = to - 1,
                      !.passed = @ \/ (g.mode = "continue" /\ at \in g.gdb.placed)]
  IN  CASE i.op = "trap" -> [g EXCEPT !.cpu.pc = at, !.cpu.sig = @ \cup {"mcu", "trap"}]
        [] i.op = "jmp" -> on
        [] i.op = "inc" -> [on EXCEPT !.cpu.r = (@ + 1) % Mod]
        [] i.op = "ld" -> Raise([on EXCEPT !.cpu.r = g.cpu.data[i.at]], i.at, "r")
        [] i.op = "ldb" -> [on EXCEPT !.cpu.r = g.cpu.data[i.at]]   \* msp430_read_byte tests for a fetch
        [] i.op = "st" -> Raise([on EXCEPT !.cpu.data[i.at] = g.cpu.r], i.at, "w")

\* libselect and the network, in devices_update.
Select(g) ==
  IF g.mode = "continue" /\ (g.up # <<>> \/ g.gdb.dead) THEN [g EXCEPT !.cpu.sig = @ \cup {"io"}] ELSE g
GoBack(g) == [g EXCEPT !.cpu = g.saved, !.backtracks = @ + 1]
-----------------------------------------------------------------------------
\* The stub.

Cmd(c) == [c |-> c]
Ack == Cmd("+")

\* gdbremote_putpacket sends again until it reads an acknowledgement.
Send(g, reply) == [g EXCEPT !.mode = "reply", !.reply = reply, !.down = Append(@, reply)]
Reply(g, cmd) == Send(g, [c |-> "reply", to |-> cmd])

\* After a run only the signals of the processor, the monitor and the debugger are removed.
StopReply(g) ==
  Reply(Without(g, {"step", "mcu", "trap", "mac", "r", "w", "io"}), g.running)

\* machine_run: the state is saved when a run begins.
Run(g, mode, cmd, sigs) ==
  LET h == [g EXCEPT !.cpu.sig = @ \cup sigs, !.mode = mode, !.running = cmd]
  IN  [h EXCEPT !.saved = h.cpu]

Accept(g) ==       \* the connection is closed and the next one accepted
  [g EXCEPT !.up = <<>>, !.down = <<>>, !.mode = "packet",
            !.leaked = @ \cup g.gdb.placed, !.gdb.dead = FALSE, !.gdb.todo = <<>>, !.gdb.wait = "none",
            !.gdb.breaks = {}, !.gdb.placed = {}, !.gdb.asked = FALSE]

SingleStep(g, cmd) == Run(g, "step", cmd, {"step"})
ContinueRun(g, cmd) == Run(g, "continue", cmd, {})
ReadRegisters(g, cmd) == Reply(g, cmd)
ReadMemory(g, cmd) == Reply(g, cmd)
WriteMemory(g, cmd) ==
  CASE cmd.c = "poke" -> Reply(JtagWrite(g, cmd.at, cmd.value), cmd)
    [] cmd.c = "place" -> Reply([g EXCEPT !.cpu.text[cmd.at] = Trap,
                                          !.gdb.shadow[cmd.at] = g.cpu.text[cmd.at]], cmd)
    [] cmd.c = "unplace" -> Reply([g EXCEPT !.cpu.text[cmd.at] = g.gdb.shadow[cmd.at]], cmd)
WriteRegister(g, cmd) == Reply([g EXCEPT !.cpu.pc = cmd.at], cmd)   \* not where it resumes
Query(g, cmd) == Reply(g, cmd)
Unsupported(g, cmd) == Reply(g, cmd)      \* z, Z, X, R, S, Q, d, e, !: an empty answer

Dispatch(g, cmd) ==
  CASE cmd.c = "c" -> ContinueRun(g, cmd)
    [] cmd.c = "s" -> SingleStep(g, cmd)
    [] cmd.c = "g" -> ReadRegisters(g, cmd)
    [] cmd.c = "m" -> ReadMemory(g, cmd)
    [] cmd.c \in {"poke", "place", "unplace"} -> WriteMemory(g, cmd)
    [] cmd.c = "P" -> WriteRegister(g, cmd)
    [] cmd.c = "q" -> Query(g, cmd)
    [] cmd.c = "?" -> Reply(g, cmd)
    [] cmd.c = "D" -> Accept(g)
    [] cmd.c = "k" -> [g EXCEPT !.mode = "ended"]
    [] OTHER -> Unsupported(g, cmd)

GetPacket ==
  /\ m.mode = "packet" /\ m.up # <<>>
  /\ \E h \in {Head(m.up)} : \E g \in {[m EXCEPT !.up = Tail(@)]} :
       \/ h.c \in {"+", "intr"} /\ m' = g
       \/ h.c \notin {"+", "intr"} /\ m' = Dispatch([g EXCEPT !.down = Append(@, Ack)], h)
       \/ h.c \notin {"+", "intr"} /\ m.gdb.dead /\ m' = Accept(g)

GetClosed == m.mode = "packet" /\ m.up = <<>> /\ m.gdb.dead /\ m' = Accept(m)

GetAck ==
  /\ m.mode = "reply" /\ m.up # <<>>
  /\ \E g \in {[m EXCEPT !.up = Tail(@)]} :
       m' = IF Head(m.up) = Ack THEN [g EXCEPT !.mode = "packet"] ELSE Send(g, m.reply)

\* getcmd finds the socket closed by putpacket, and the simulation ends.
AckClosed == m.mode = "reply" /\ m.up = <<>> /\ m.gdb.dead /\ m' = [m EXCEPT !.mode = "ended"]

EndOfTurn(g) == IF g.cpu.sig = {} THEN g ELSE StopReply(g)
Running == m.mode \in {"continue", "step"}
Turn == Running /\ \E g \in {MemoryAccess(Select(Insn(m)))} : m' = EndOfTurn(g)
TurnBack ==
  /\ Running /\ m.backtracks < MaxBacktracks
  /\ \E g \in {MemoryAccess(GoBack(Select(Insn(m))))} : m' = EndOfTurn(g)
-----------------------------------------------------------------------------
\* gdb, which is not of this repository: one command at a time, each packet
\* acknowledged; an answer that comes before the acknowledgement of a command is
\* dropped.  To continue it steps off a breakpoint, places the breakpoints, and
\* takes them away before anything else is done.

At(c, at) == [c |-> c, at |-> at]
AllOf(c, s) == LET f[i \in 0..Last] == IF i = 0 THEN <<>> ELSE IF i \in s THEN Append(f[i - 1], At(c, i)) ELSE f[i - 1]
               IN  f[Last]
Continue(b) == (IF m.cpu.pc \in b THEN <<Cmd("s")>> ELSE <<>>) \o AllOf("place", b) \o <<Cmd("c")>> \o AllOf("unplace", b) \o <<Cmd("g")>>

Ask(todo) ==
  /\ m.gdb.wait = "none" /\ m.gdb.todo = <<>> /\ ~ m.gdb.dead /\ m.mode # "ended" /\ m.gdb.ops < MaxOps
  /\ m' = [m EXCEPT !.gdb.todo = todo, !.gdb.ops = @ + 1]
AskStep == Ask(<<Cmd("s"), Cmd("g")>>)
AskContinue == Ask(Continue(m.gdb.breaks))
AskMemory == Ask(<<Cmd("m")>>)
AskPoke == \E v \in Vars : Ask(<<[c |-> "poke", at |-> v, value |-> m.cpu.data[v]]>>)
AskOther == Ask(<<Cmd("z"), Cmd("q"), At("P", 1), Cmd("?")>>)
AskLeave == \E c \in {"D", "k"} : Ask(<<Cmd(c)>>)
Break ==
  /\ m.gdb.wait = "none" /\ m.gdb.todo = <<>>
  /\ \E b \in 1..(Last - 1) \ m.gdb.breaks :
       m.gdb.left > 0 /\ m' = [m EXCEPT !.gdb.breaks = @ \cup {b}, !.gdb.left = @ - 1]

SendCommand ==
  /\ m.gdb.wait = "none" /\ m.gdb.todo # <<>> /\ ~ m.gdb.dead
  /\ \E c \in {Head(m.gdb.todo)} :
       m' = [m EXCEPT !.up = Append(@, c), !.gdb.todo = Tail(@),
                      !.gdb.wait = IF c.c \in {"D", "k"} THEN "none" ELSE "ack", !.gdb.cmd = c]

Interrupt ==
  /\ m.gdb.wait = "reply" /\ m.gdb.cmd.c = "c" /\ ~ m.gdb.asked /\ ~ m.gdb.dead
  /\ m' = [m EXCEPT !.up = Append(@, Cmd("intr")), !.gdb.asked = TRUE]

Die ==
  /\ ~ m.gdb.dead /\ m.deaths < MaxDeaths /\ m.mode # "ended"
  /\ m' = [m EXCEPT !.gdb.dead = TRUE, !.deaths = @ + 1]

\* What an answer to the command changes in gdb; a stop nobody asked for surprises it.
Learn(g, reply) ==
  LET cmd == g.gdb.cmd
      h == [g EXCEPT !.gdb.wait = "none", !.gdb.wrong = @ \/ reply.to # cmd]
  IN  CASE cmd.c = "place" -> [h EXCEPT !.gdb.placed = @ \cup {cmd.at}]
        [] cmd.c = "unplace" -> [h EXCEPT !.gdb.placed = @ \ {cmd.at}]
        [] cmd.c = "c" ->
             [h EXCEPT !.gdb.asked = FALSE, !.excused = FALSE,
                       !.surprised = @ \/ ~ (g.cpu.pc \in g.gdb.placed \cup g.leaked \/ g.gdb.asked \/ g.excused)]
        [] cmd.c = "s" -> [h EXCEPT !.excused = FALSE]
        [] cmd.c = "poke" -> [h EXCEPT !.excused = "w" \in g.watch[cmd.at], !.poked = @ \/ "w" \in g.watch[cmd.at]]
        [] OTHER -> h

Receive ==
  /\ m.down # <<>> /\ m.gdb.wait # "none" /\ ~ m.gdb.dead
  /\ \E h \in {Head(m.down)} : \E g \in {[m EXCEPT !.down = Tail(@)]} :
       m' = IF h = Ack THEN IF g.gdb.wait = "ack" THEN [g EXCEPT !.gdb.wait = "reply"] ELSE g
            ELSE IF g.gdb.wait = "ack" THEN [g EXCEPT !.up = Append(@, Ack)]
            ELSE Learn([g EXCEPT !.up = Append(@, Ack)], h)
-----------------------------------------------------------------------------
Cpu(modify) ==
  [pc |-> 1, next |-> 1, r |-> 0, data |-> [v \in Vars |-> 0], text |-> Program, sig |-> {},
   n |-> 0, fresh |-> modify, trace |-> <<>>]
DebugInit ==
  \E a \in Monitors :
    m = [gdb |-> [todo |-> <<>>, wait |-> "none", cmd |-> Cmd("?"), breaks |-> {}, placed |-> {},
                  shadow |-> Program, asked |-> FALSE, dead |-> FALSE, wrong |-> FALSE, ops |-> 0,
                  left |-> MaxBreaks],
         up |-> <<>>, down |-> <<>>, mode |-> "packet", running |-> Cmd("?"), reply |-> Ack,
         cpu |-> Cpu(a.modify), saved |-> Cpu(a.modify), watch |-> [v \in Vars |-> ModifySet(a, v)], addr |-> "x",
         modify |-> a.modify, poked |-> FALSE, excused |-> FALSE, passed |-> FALSE, surprised |-> FALSE, leaked |-> {},
         backtracks |-> 0, deaths |-> 0]

Stub == GetPacket \/ GetClosed \/ GetAck \/ AckClosed \/ Turn
Gdb == AskStep \/ AskContinue \/ AskMemory \/ AskPoke \/ AskOther \/ AskLeave \/ Break
       \/ Interrupt \/ Die
Answering == SendCommand \/ Receive
Rest ==   \* gdb has no more to ask, or the simulation has ended
  (m.mode = "ended" \/ (m.mode = "packet" /\ m.gdb.wait = "none" /\ m.gdb.todo = <<>>)) /\ UNCHANGED m
DebugNext == Stub \/ TurnBack \/ Gdb \/ Answering \/ Rest
-----------------------------------------------------------------------------
\* What the program does when nobody watches it, after n instructions: its register,
\* its variables and the accesses that are recorded.
Alone(watch, modify) ==
  LET Set(s, v) == [s EXCEPT !.data[v] = NewValue, !.fresh = @ \ {v}]
      Rec(s, v, mode) == IF mode \in watch[v] THEN [s EXCEPT !.trace = Append(@, <<v, mode, s.data[v]>>)] ELSE s
      Touch(s, v, mode) ==
        IF mode \in watch[v] /\ v \in s.fresh
        THEN IF mode = "r" THEN Rec(Set(Rec(s, v, "r"), v), v, "w") ELSE Set(Rec(s, v, "w"), v)
        ELSE Rec(s, v, mode)
      f[n \in 0..Last] ==
        IF n = 0 THEN [r |-> 0, data |-> [v \in Vars |-> 0], trace |-> <<>>, fresh |-> modify]
        ELSE LET s == f[n - 1]
                 i == Program[n]
             IN  CASE i.op = "inc" -> [s EXCEPT !.r = (@ + 1) % Mod]
                   [] i.op = "ld" -> Touch([s EXCEPT !.r = s.data[i.at]], i.at, "r")
                   [] i.op = "ldb" -> [s EXCEPT !.r = s.data[i.at]]
                   [] i.op = "st" -> Touch([s EXCEPT !.data[i.at] = s.r], i.at, "w")
                   [] OTHER -> s
  IN  f

\* What the machine has computed and recorded is what the program does alone, whatever
\* gdb, its breakpoints and the network made it do meanwhile; its text is the program
\* but for the breakpoints.  (A variable gdb itself wrote while it is monitored is left out.)
DebugComputes ==
  /\ m.poked \/
       \E s \in {Alone(m.watch, m.modify)[m.cpu.n]} :
          m.cpu.r = s.r /\ m.cpu.data = s.data /\ m.cpu.trace = s.trace /\ m.cpu.fresh = s.fresh
  /\ m.gdb.wait = "none" =>
       \A i \in 1..Last : m.cpu.text[i] # Program[i] => i \in m.gdb.placed \cup m.leaked

\* A program that continues stops at the first breakpoint it comes to, and elsewhere only
\* when gdb interrupts it or a monitored variable changes; each command has its own answer.
StopsWhereAsked == ~ m.passed /\ ~ m.surprised /\ ~ m.gdb.wrong
=============================================================================
