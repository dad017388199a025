-------------------------------- MODULE McuProofs -------------------------------
(***************************************************************************)
(* Proofs about the microcontrollers, for any settings of their            *)
(* peripherals and any program within the bounds of MCMcu.                 *)
(***************************************************************************)
EXTENDS MCMcu, FiniteSetTheorems, SequenceTheorems, WellFoundedInduction, TLAPS

-----------------------------------------------------------------------------
(* Division. *)

LEMMA Division ==
  ASSUME NEW d \in Nat \ {0}, NEW a \in Nat
  PROVE  /\ a \div d \in Nat /\ a % d \in Nat /\ a % d < d
         /\ ((a \div d) * d) + (a % d) = a
OBVIOUS

LEMMA Quotient ==
  ASSUME NEW d \in Nat \ {0}, NEW c \in Nat, NEW e \in Nat, e = c * d, NEW r \in Nat, r < d
  PROVE  (e + r) \div d = c
<1>1. PICK x \in Nat, q \in Nat, k \in Nat : x = e + r /\ q = x \div d /\ k = x % d /\ k < d /\ (q * d) + k = x
  <2>1. e + r \in Nat
    OBVIOUS
  <2> QED BY <2>1, Division
<1>2. q = c
  <2>1. CASE q < c
    <3>1. PICK z \in Nat : z = c - q - 1
      BY <2>1
    <3>2. c * d = (q * d) + (z * d) + d /\ z * d \in Nat /\ q * d \in Nat
      <4>1. c = q + z + 1
        BY <3>1
      <4> QED BY <4>1
    <3>3. PICK f \in Nat, g \in Nat : f = q * d /\ g = z * d
      BY <3>2
    <3> QED BY <1>1, <3>2, <3>3
  <2>2. CASE q > c
    <3>1. PICK z \in Nat : z = q - c - 1
      BY <2>2
    <3>2. q * d = (c * d) + (z * d) + d /\ z * d \in Nat /\ c * d \in Nat
      <4>1. q = c + z + 1
        BY <3>1
      <4> QED BY <4>1
    <3>3. PICK f \in Nat, g \in Nat : f = q * d /\ g = z * d
      BY <3>2
    <3> QED BY <1>1, <3>2, <3>3
  <2> QED BY <2>1, <2>2
<1> QED BY <1>1, <1>2

\* The divider of two bits of a register.
LEMMA PowerOfTwo ==
  ASSUME NEW n \in 0..3
  PROVE  2^n \in Nat \ {0}
<1>1. n = 0 \/ n = 1 \/ n = 2 \/ n = 3
  OBVIOUS
<1>2. 2^0 \in Nat \ {0} /\ 2^1 \in Nat \ {0} /\ 2^2 \in Nat \ {0} /\ 2^3 \in Nat \ {0}
  OBVIOUS
<1> QED BY <1>1, <1>2, Zenon

-----------------------------------------------------------------------------
(* The clocks: every turn adds to what a source has counted what remains of   *)
(* it, so that ticks, remainder and the time it ran agree.                    *)

ClockState ==
  [kind : {"basic", "plus", "fll", "ucs"}, sr : SUBSET {"CPUOFF", "SCG0", "SCG1", "OSCOFF"}, dco : Nat \ {0},
   selm : 0..7, sels : 0..7, sela : 0..7, selref : 0..7,
   flld : 0..3, diva : 0..3, divm : 0..3, divs : 0..3, divpa : 0..3,
   xt2off : BOOLEAN, smclkoff : BOOLEAN, vlo : BOOLEAN,
   temp : [K!Sources -> Nat], left : [K!Signals -> Nat],
   turns : Nat, confs : Nat, time : Nat, since : Nat, held : SUBSET K!Sources,
   start : [K!Sources -> Nat], ran : [K!Sources -> Nat], ticks : [K!Sources -> Nat],
   in : [K!Signals -> Nat], out : [K!Signals -> Nat]]

ShiftOf(s, x) ==
  CASE x = "ACLK" /\ s.kind # "fll" -> s.diva [] x = "ACLKn" /\ s.kind = "fll" -> s.diva
    [] x = "SMCLK" /\ s.kind # "fll" -> s.divs [] OTHER -> 0

\* The signals the FLL+ does not divide leave no remainder.
Exact(s) ==
  /\ \A x \in K!Sources : (s.ticks[x] * K!PeriodOf(s, x)) + s.temp[x] = s.ran[x]
  /\ \A x \in {"ACLK", "SMCLK"} :
       /\ (s.out[x] * 2^ShiftOf(s, x)) + s.left[x] = s.in[x]
       /\ s.kind = "fll" => s.left[x] = 0
Unit(s) == IF s.kind \in {"basic", "plus"} THEN Fraction ELSE 1
Behind(s, x) == s.ran[x] - s.start[x] - (Unit(s) * s.time)
Steady(s) == \A x \in s.held : 0 <= Behind(s, x) /\ Behind(s, x) <= (Unit(s) - 1) * s.since
ClockInv(s) == s \in ClockState /\ Exact(s) /\ Steady(s)

LEMMA PeriodPositive ==
  ASSUME NEW s \in ClockState, NEW x \in K!Sources
  PROVE  K!PeriodOf(s, x) \in Nat \ {0}
BY ClockAssumption DEF ClockState, K!PeriodOf, K!Sources

LEMMA NanoNat ==
  ASSUME NEW s \in ClockState, NEW cycles \in Cycles
  PROVE  K!NanoAdd(s, cycles) \in Nat
<1>1. K!MclkSource(s) \in K!Sources
  BY DEF K!MclkSource, K!UcsSource, K!Crystal, K!Sources
<1>2. K!DividedBy(s) \in Nat
  BY PowerOfTwo DEF K!DividedBy, ClockState
<1>3. cycles \in Nat
  BY ClockAssumption
<1> QED BY <1>1, <1>2, <1>3, PeriodPositive DEF K!NanoAdd

LEMMA DivModExact ==
  ASSUME NEW s \in ClockState, NEW x \in K!Sources, NEW nano \in Nat
  PROVE  /\ K!DivMod(s, x, nano).inc \in Nat /\ K!DivMod(s, x, nano).temp \in Nat
         /\ (K!DivMod(s, x, nano).inc * K!PeriodOf(s, x)) + K!DivMod(s, x, nano).temp = s.temp[x] + nano
<1>1. s.temp[x] + nano \in Nat
  BY DEF ClockState
<1> QED BY <1>1, PeriodPositive, Division DEF K!DivMod

LEMMA DivideTyped ==
  ASSUME NEW was \in Nat, NEW more \in Nat, NEW div \in 0..3, NEW mask \in 0..3
  PROVE  K!Divide(was, more, div, mask) \in [fed : {more}, inc : Nat, left : Nat]
<1>1. 2^div \in Nat \ {0} /\ 2^mask \in Nat \ {0}
  BY PowerOfTwo, Zenon
<1>2. was + more \in Nat
  OBVIOUS
<1> QED BY <1>1, <1>2, Division DEF K!Divide

LEMMA DivideExact ==
  ASSUME NEW was \in Nat, NEW more \in Nat, NEW div \in 0..3, NEW p \in Nat, p = 2^div
  PROVE  (K!Divide(was, more, div, div).inc * p) + K!Divide(was, more, div, div).left = was + more
<1>1. 2^div \in Nat \ {0}
  BY PowerOfTwo, Zenon
<1>2. was + more \in Nat
  OBVIOUS
<1> QED BY <1>1, <1>2, Division DEF K!Divide

\* What is counted, with what remains, when more is counted in the same unit.
LEMMA Accumulate ==
  ASSUME NEW a \in Nat, NEW b \in Nat, NEW p \in Nat, NEW over \in Nat, NEW new \in Nat, NEW n \in Nat, NEW r \in Nat,
         (a * p) + over = r, (b * p) + new = over + n
  PROVE  ((a + b) * p) + new = r + n
<1>1. (a + b) * p = (a * p) + (b * p) /\ a * p \in Nat /\ b * p \in Nat
  OBVIOUS
<1> QED BY <1>1

LEMMA BehindMore ==
  ASSUME NEW r \in Nat, NEW b \in Nat, NEW c \in Nat, NEW n \in Nat, NEW u \in Nat \ {0}, NEW v \in Nat, NEW w \in Nat,
         0 <= r - b - (u * c), r - b - (u * c) <= (u - 1) * n,
         0 <= v - (u * w), v - (u * w) <= u - 1
  PROVE  0 <= (r + v) - b - (u * (c + w)) /\ (r + v) - b - (u * (c + w)) <= (u - 1) * (n + 1)
<1>1. u * (c + w) = (u * c) + (u * w) /\ u * c \in Nat /\ u * w \in Nat
  OBVIOUS
<1>2. (u - 1) * (n + 1) = ((u - 1) * n) + (u - 1) /\ (u - 1) * n \in Nat
  OBVIOUS
<1> QED BY <1>1, <1>2

LEMMA UpdateClock ==
  ASSUME NEW s, ClockInv(s), NEW cycles \in Cycles
  PROVE  ClockInv(K!Update(s, cycles))
<1> DEFINE nano == K!NanoAdd(s, cycles)
           on == {x \in K!Sources : K!Runs(s, x)}
           src == [x \in K!Sources |-> IF x \in on THEN K!DivMod(s, x, nano) ELSE [inc |-> 0, temp |-> s.temp[x]]]
           inc == [x \in K!Sources |-> src[x].inc]
           aclk == K!Aclk(s, inc)
           sig == [x \in K!Signals |->
                     CASE x = "MCLK" -> K!Mclk(s, cycles) [] x = "ACLK" -> aclk
                       [] x = "ACLKn" -> K!AclkN(s, aclk.inc) [] OTHER -> K!Smclk(s, inc)]
           t == K!Update(s, cycles)
<1>1. t = [s EXCEPT !.temp = [x \in K!Sources |-> src[x].temp],
                !.left = [x \in K!Signals |-> sig[x].left],
                !.turns = @ + 1, !.since = @ + 1, !.time = @ + K!Whole(s, nano), !.held = @ \cap on,
                !.ran = [x \in K!Sources |-> IF x \in on THEN @[x] + nano ELSE @[x]],
                !.ticks = [x \in K!Sources |-> @[x] + inc[x]],
                !.in = [x \in K!Signals |-> @[x] + sig[x].fed],
                !.out = [x \in K!Signals |-> @[x] + sig[x].inc]]
  BY DEF K!Update
<1>2. s \in ClockState /\ nano \in Nat /\ on \subseteq K!Sources /\ cycles \in Nat
  BY NanoNat, ClockAssumption DEF ClockInv
<1>3. ASSUME NEW x \in K!Sources
      PROVE  /\ src[x].inc \in Nat /\ src[x].temp \in Nat /\ s.temp[x] \in Nat
             /\ (src[x].inc * K!PeriodOf(s, x)) + src[x].temp = s.temp[x] + (IF x \in on THEN nano ELSE 0)
  <2>0. s.temp[x] \in Nat
    BY <1>2 DEF ClockState
  <2>1. CASE x \in on
    <3>1. src[x] = K!DivMod(s, x, nano)
      BY <2>1
    <3> HIDE DEF src, nano, on
    <3> QED BY <1>2, <2>0, <2>1, <3>1, DivModExact
  <2>2. CASE x \notin on
    <3>1. src[x] = [inc |-> 0, temp |-> s.temp[x]]
      BY <2>2
    <3> HIDE DEF src, nano, on
    <3> QED BY <1>2, <2>0, <2>2, <3>1, PeriodPositive
  <2> QED BY <2>1, <2>2
<1>4. inc \in [K!Sources -> Nat] /\ \A x \in K!Sources : inc[x] = src[x].inc
  BY <1>3
<1>5. /\ K!AclkSource(s) \in K!Sources /\ K!SmclkSource(s) \in K!Sources /\ "lfxt1" \in K!Sources
      /\ s.diva \in 0..3 /\ s.divs \in 0..3 /\ s.divpa \in 0..3
      /\ \A x \in K!Signals : s.left[x] \in Nat /\ s.in[x] \in Nat /\ s.out[x] \in Nat
  BY <1>2 DEF ClockState, K!AclkSource, K!SmclkSource, K!UcsSource, K!Crystal, K!Sources
<1> HIDE DEF nano, on, src, inc
<1>6. ASSUME NEW i \in Nat
      PROVE  LET d == K!Undivided(i)
             IN  d.fed = i /\ d.inc = i /\ d.left = 0
  BY Division DEF K!Undivided, K!Divide
<1>7. /\ aclk.fed \in Nat /\ aclk.inc \in Nat /\ aclk.left \in Nat
      /\ (aclk.inc * 2^ShiftOf(s, "ACLK")) + aclk.left = s.left["ACLK"] + aclk.fed
      /\ s.kind = "fll" => aclk.left = 0
  <2>1. CASE s.kind = "fll"
    <3>1. aclk = K!Undivided(inc["lfxt1"])
      BY <2>1 DEF K!Aclk
    <3>2. s.left["ACLK"] = 0
      BY <2>1 DEF ClockInv, Exact
    <3>3. ShiftOf(s, "ACLK") = 0
      BY <2>1 DEF ShiftOf
    <3>4. 2^ShiftOf(s, "ACLK") = 1
      <4>1. 2^0 = 1
        OBVIOUS
      <4> QED BY <3>3, <4>1, Zenon
    <3>5. PICK i \in Nat : i = inc["lfxt1"]
      BY <1>4, <1>5
    <3>6. aclk.fed = i /\ aclk.inc = i /\ aclk.left = 0
      BY <1>6, <3>1, <3>5
    <3> HIDE DEF aclk
    <3> QED BY <3>2, <3>4, <3>6
  <2>2. CASE s.kind # "fll"
    <3>1. aclk = K!Divide(s.left["ACLK"], inc[K!AclkSource(s)], s.diva, s.diva)
      BY <2>2 DEF K!Aclk
    <3>2. ShiftOf(s, "ACLK") = s.diva
      BY <2>2 DEF ShiftOf
    <3>3. s.left["ACLK"] \in Nat /\ inc[K!AclkSource(s)] \in Nat
      BY <1>4, <1>5 DEF K!Signals
    <3>4. PICK l \in Nat, i \in Nat, d \in 0..3 :
            l = s.left["ACLK"] /\ i = inc[K!AclkSource(s)] /\ d = s.diva
      BY <1>5, <3>3
    <3>5. PICK p \in Nat : p = 2^d
      <4>1. 2^d \in Nat
        BY PowerOfTwo, Zenon
      <4> QED BY <4>1
    <3>6. p = 2^ShiftOf(s, "ACLK")
      BY <3>2, <3>4, <3>5, Zenon
    <3>7. aclk = K!Divide(l, i, d, d)
      BY <3>1, <3>4
    <3>8. K!Divide(l, i, d, d) \in [fed : {i}, inc : Nat, left : Nat]
      BY DivideTyped
    <3>9. (K!Divide(l, i, d, d).inc * p) + K!Divide(l, i, d, d).left = l + i
      BY <3>5, DivideExact
    <3> HIDE DEF aclk
    <3> QED BY <2>2, <3>7, <3>8, <3>9, <3>4, <3>6
  <2> QED BY <2>1, <2>2
<1> DEFINE smclk == K!Smclk(s, inc)
<1>8. /\ smclk.fed \in Nat /\ smclk.inc \in Nat /\ smclk.left \in Nat
      /\ (smclk.inc * 2^ShiftOf(s, "SMCLK")) + smclk.left = s.left["SMCLK"] + smclk.fed
      /\ s.kind = "fll" => smclk.left = 0
  <2>0. s.left["SMCLK"] \in Nat /\ (s.kind = "fll" => s.left["SMCLK"] = 0)
    BY <1>5 DEF ClockInv, Exact, K!Signals
  <2>1. CASE "SCG1" \in s.sr /\ s.kind # "ucs"
    <3>1. smclk = [fed |-> 0, inc |-> 0, left |-> s.left["SMCLK"]]
      BY <2>1 DEF K!Smclk
    <3>2. 2^ShiftOf(s, "SMCLK") \in Nat
      <4>1. ShiftOf(s, "SMCLK") \in 0..3
        BY <1>5 DEF ShiftOf
      <4> QED BY <4>1, PowerOfTwo, Zenon
    <3> QED BY <2>0, <3>1, <3>2
  <2>2. CASE "SCG1" \notin s.sr /\ s.kind = "fll"
    <3>1. PICK i \in Nat : smclk = K!Undivided(i)
      BY <1>4, <1>5, <2>2 DEF K!Smclk
    <3>2. ShiftOf(s, "SMCLK") = 0
      BY <2>2 DEF ShiftOf
    <3>3. 2^ShiftOf(s, "SMCLK") = 1
      <4>1. 2^0 = 1
        OBVIOUS
      <4> QED BY <3>2, <4>1, Zenon
    <3>4. smclk.fed = i /\ smclk.inc = i /\ smclk.left = 0
      BY <1>6, <3>1
    <3> HIDE DEF smclk
    <3> QED BY <2>0, <2>2, <3>3, <3>4
  <2>3. CASE ~ ("SCG1" \in s.sr /\ s.kind # "ucs") /\ ~ ("SCG1" \notin s.sr /\ s.kind = "fll")
    <3>1. smclk = K!Divide(s.left["SMCLK"], inc[K!SmclkSource(s)], s.divs, s.divs)
      BY <2>3 DEF K!Smclk
    <3>2. s.kind # "fll" /\ ShiftOf(s, "SMCLK") = s.divs
      BY <2>3 DEF ShiftOf
    <3>3. inc[K!SmclkSource(s)] \in Nat
      BY <1>4, <1>5
    <3>4. PICK l \in Nat, i \in Nat, d \in 0..3 :
            l = s.left["SMCLK"] /\ i = inc[K!SmclkSource(s)] /\ d = s.divs
      BY <1>5, <2>0, <3>3
    <3>5. PICK p \in Nat : p = 2^d
      <4>1. 2^d \in Nat
        BY PowerOfTwo, Zenon
      <4> QED BY <4>1
    <3>6. p = 2^ShiftOf(s, "SMCLK")
      BY <3>2, <3>4, <3>5, Zenon
    <3>7. smclk = K!Divide(l, i, d, d)
      BY <3>1, <3>4
    <3>8. K!Divide(l, i, d, d) \in [fed : {i}, inc : Nat, left : Nat]
      BY DivideTyped
    <3>9. (K!Divide(l, i, d, d).inc * p) + K!Divide(l, i, d, d).left = l + i
      BY <3>5, DivideExact
    <3> HIDE DEF smclk
    <3> QED BY <3>2, <3>7, <3>8, <3>9, <3>4, <3>6
  <2> QED BY <2>1, <2>2, <2>3
<1>9. K!AclkN(s, aclk.inc).fed \in Nat /\ K!AclkN(s, aclk.inc).inc \in Nat /\ K!AclkN(s, aclk.inc).left \in Nat
  <2>1. PICK i \in Nat : i = aclk.inc
    BY <1>7
  <2>2. PICK l \in Nat : l = s.left["ACLKn"]
    BY <1>5 DEF K!Signals
  <2> HIDE DEF aclk
  <2>3. \/ K!AclkN(s, i) = K!Divide(l, i, s.diva, s.diva)
        \/ K!AclkN(s, i) = K!Divide(l, i, s.divpa, s.diva)
        \/ K!AclkN(s, i) = K!Undivided(0)
    BY <2>2 DEF K!AclkN
  <2>4. /\ K!Divide(l, i, s.diva, s.diva).fed \in Nat /\ K!Divide(l, i, s.diva, s.diva).inc \in Nat
        /\ K!Divide(l, i, s.diva, s.diva).left \in Nat
    <3>1. PICK d \in 0..3 : d = s.diva
      BY <1>5
    <3>2. K!Divide(l, i, d, d) \in [fed : {i}, inc : Nat, left : Nat]
      BY DivideTyped
    <3> QED BY <3>1, <3>2
  <2>5. /\ K!Divide(l, i, s.divpa, s.diva).fed \in Nat /\ K!Divide(l, i, s.divpa, s.diva).inc \in Nat
        /\ K!Divide(l, i, s.divpa, s.diva).left \in Nat
    <3>1. PICK d \in 0..3, e \in 0..3 : d = s.divpa /\ e = s.diva
      BY <1>5
    <3>2. /\ K!Divide(l, i, d, e).fed \in Nat /\ K!Divide(l, i, d, e).inc \in Nat
          /\ K!Divide(l, i, d, e).left \in Nat
      <4>1. K!Divide(l, i, d, e) \in [fed : {i}, inc : Nat, left : Nat]
        BY DivideTyped
      <4> QED BY <4>1
    <3> QED BY <3>1, <3>2, Zenon
  <2>6. K!Undivided(0).fed \in Nat /\ K!Undivided(0).inc \in Nat /\ K!Undivided(0).left \in Nat
    BY <1>6
  <2> QED BY <2>1, <2>3, <2>4, <2>5, <2>6
<1>10. K!Mclk(s, cycles).fed \in Nat /\ K!Mclk(s, cycles).inc \in Nat /\ K!Mclk(s, cycles).left \in Nat
  BY <1>2, <1>6 DEF K!Mclk
<1>11. /\ sig["MCLK"] = K!Mclk(s, cycles) /\ sig["ACLK"] = aclk /\ sig["ACLKn"] = K!AclkN(s, aclk.inc)
       /\ sig["SMCLK"] = smclk
  BY DEF K!Signals
<1> HIDE DEF sig, aclk, smclk
<1>12. \A x \in K!Signals : sig[x].fed \in Nat /\ sig[x].inc \in Nat /\ sig[x].left \in Nat
  BY <1>7, <1>8, <1>9, <1>10, <1>11 DEF K!Signals
<1>13. K!Whole(s, nano) \in Nat /\ 0 <= nano - (Unit(s) * K!Whole(s, nano))
       /\ nano - (Unit(s) * K!Whole(s, nano)) <= Unit(s) - 1 /\ Unit(s) \in Nat \ {0}
  BY <1>2, Division, ClockAssumption DEF K!Whole, Unit
<1>14. t \in ClockState
  <2>1. /\ [x \in K!Sources |-> src[x].temp] \in [K!Sources -> Nat]
        /\ [x \in K!Sources |-> IF x \in on THEN s.ran[x] + nano ELSE s.ran[x]] \in [K!Sources -> Nat]
        /\ [x \in K!Sources |-> s.ticks[x] + inc[x]] \in [K!Sources -> Nat]
    BY <1>2, <1>3, <1>4 DEF ClockState
  <2>2. /\ [x \in K!Signals |-> sig[x].left] \in [K!Signals -> Nat]
        /\ [x \in K!Signals |-> s.in[x] + sig[x].fed] \in [K!Signals -> Nat]
        /\ [x \in K!Signals |-> s.out[x] + sig[x].inc] \in [K!Signals -> Nat]
    BY <1>5, <1>12
  <2>3. s.turns + 1 \in Nat /\ s.since + 1 \in Nat /\ s.time + K!Whole(s, nano) \in Nat /\ s.held \cap on \in SUBSET K!Sources
    BY <1>2, <1>13 DEF ClockState
  <2> HIDE DEF t
  <2> QED BY <1>1, <1>2, <2>1, <2>2, <2>3 DEF ClockState
<1>15. /\ t.kind = s.kind /\ t.dco = s.dco /\ t.diva = s.diva /\ t.divs = s.divs /\ t.start = s.start
       /\ t.time = s.time + K!Whole(s, nano) /\ t.since = s.since + 1 /\ t.held = s.held \cap on
       /\ \A x \in K!Sources : /\ t.ticks[x] = s.ticks[x] + inc[x] /\ t.temp[x] = src[x].temp
                              /\ t.ran[x] = IF x \in on THEN s.ran[x] + nano ELSE s.ran[x]
       /\ \A x \in K!Signals : /\ t.left[x] = sig[x].left /\ t.in[x] = s.in[x] + sig[x].fed
                              /\ t.out[x] = s.out[x] + sig[x].inc
  BY <1>1, <1>2 DEF ClockState
<1> HIDE DEF t
<1>16. Exact(t)
  <2>1. ASSUME NEW x \in K!Sources
        PROVE  (t.ticks[x] * K!PeriodOf(t, x)) + t.temp[x] = t.ran[x]
    <3>1. K!PeriodOf(t, x) = K!PeriodOf(s, x) /\ K!PeriodOf(s, x) \in Nat
      BY <1>2, <1>15, PeriodPositive DEF K!PeriodOf
    <3>2. PICK p \in Nat : p = K!PeriodOf(s, x)
      BY <3>1
    <3>3. /\ s.ticks[x] \in Nat /\ s.temp[x] \in Nat /\ s.ran[x] \in Nat
          /\ (s.ticks[x] * p) + s.temp[x] = s.ran[x]
      BY <1>2, <3>2 DEF ClockInv, Exact, ClockState
    <3>4. inc[x] \in Nat /\ src[x].temp \in Nat
          /\ (inc[x] * p) + src[x].temp = s.temp[x] + (IF x \in on THEN nano ELSE 0)
      BY <1>3, <1>4, <3>2
    <3>7. /\ t.ticks[x] = s.ticks[x] + inc[x] /\ t.temp[x] = src[x].temp
          /\ t.ran[x] = s.ran[x] + (IF x \in on THEN nano ELSE 0)
      BY <1>2, <1>15, <3>3
    <3>8. ((s.ticks[x] + inc[x]) * p) + src[x].temp = s.ran[x] + (IF x \in on THEN nano ELSE 0)
      <4>1. PICK n \in Nat : n = IF x \in on THEN nano ELSE 0
        BY <1>2
      <4>2. (inc[x] * p) + src[x].temp = s.temp[x] + n
        BY <3>4, <4>1
      <4>3. ((s.ticks[x] + inc[x]) * p) + src[x].temp = s.ran[x] + n
        <5>1. PICK a \in Nat, b \in Nat, over \in Nat, new \in Nat, r \in Nat :
                a = s.ticks[x] /\ b = inc[x] /\ over = s.temp[x] /\ new = src[x].temp /\ r = s.ran[x]
          BY <3>3, <3>4
        <5>2. (a * p) + over = r /\ (b * p) + new = over + n
          BY <3>3, <4>2, <5>1
        <5>3. ((a + b) * p) + new = r + n
          BY <5>2, Accumulate
        <5> QED BY <5>1, <5>3
      <4> QED BY <4>1, <4>3
    <3> QED BY <3>1, <3>2, <3>7, <3>8
  <2>2. ASSUME NEW x \in {"ACLK", "SMCLK"}
        PROVE  /\ (t.out[x] * 2^ShiftOf(t, x)) + t.left[x] = t.in[x]
               /\ t.kind = "fll" => t.left[x] = 0
    <3>1. ShiftOf(t, x) = ShiftOf(s, x) /\ ShiftOf(s, x) \in 0..3 /\ x \in K!Signals
      BY <1>5, <1>15 DEF ShiftOf, K!Signals
    <3>2. PICK p \in Nat : p = 2^ShiftOf(s, x)
      <4>1. 2^ShiftOf(s, x) \in Nat
        BY <3>1, PowerOfTwo, Zenon
      <4> QED BY <4>1
    <3>3. 2^ShiftOf(t, x) = p
      BY <3>1, <3>2, Zenon
    <3>4. /\ s.out[x] \in Nat /\ s.left[x] \in Nat /\ s.in[x] \in Nat
          /\ (s.out[x] * p) + s.left[x] = s.in[x]
      BY <1>5, <3>1, <3>2 DEF ClockInv, Exact
    <3>5. /\ sig[x].inc \in Nat /\ sig[x].left \in Nat /\ sig[x].fed \in Nat
          /\ (sig[x].inc * p) + sig[x].left = s.left[x] + sig[x].fed
          /\ s.kind = "fll" => sig[x].left = 0
      BY <1>7, <1>8, <1>11, <3>2
    <3>6. ((s.out[x] + sig[x].inc) * p) + sig[x].left = s.in[x] + sig[x].fed
      <4>1. PICK a \in Nat, b \in Nat, over \in Nat, new \in Nat, r \in Nat, n \in Nat :
              a = s.out[x] /\ b = sig[x].inc /\ over = s.left[x] /\ new = sig[x].left
              /\ r = s.in[x] /\ n = sig[x].fed
        BY <3>4, <3>5
      <4>2. (a * p) + over = r /\ (b * p) + new = over + n
        BY <3>4, <3>5, <4>1, Zenon
      <4>3. ((a + b) * p) + new = r + n
        BY <4>2, Accumulate
      <4> QED BY <4>1, <4>3, Zenon
    <3>8. /\ t.out[x] = s.out[x] + sig[x].inc /\ t.left[x] = sig[x].left
          /\ t.in[x] = s.in[x] + sig[x].fed /\ t.kind = s.kind
      BY <1>15, <3>1
    <3> QED BY <3>3, <3>5, <3>6, <3>8
  <2> QED BY <2>1, <2>2 DEF Exact
<1>17. Steady(t)
  <2> SUFFICES ASSUME NEW x \in t.held
               PROVE  0 <= Behind(t, x) /\ Behind(t, x) <= (Unit(t) - 1) * t.since
    BY DEF Steady
  <2>1. x \in s.held /\ x \in on /\ x \in K!Sources
    BY <1>2, <1>15
  <2>2. PICK u \in Nat \ {0} : u = Unit(s)
    BY <1>13
  <2>3. Unit(t) = u
    BY <1>15, <2>2 DEF Unit
  <2>4. PICK w \in Nat : w = K!Whole(s, nano)
    BY <1>13
  <2>5. PICK r \in Nat, b \in Nat, c \in Nat, n \in Nat :
          r = s.ran[x] /\ b = s.start[x] /\ c = s.time /\ n = s.since
    BY <1>2, <2>1 DEF ClockState
  <2>6. 0 <= r - b - (u * c) /\ r - b - (u * c) <= (u - 1) * n
    BY <2>1, <2>2, <2>5 DEF ClockInv, Steady, Behind
  <2>7. 0 <= nano - (u * w) /\ nano - (u * w) <= u - 1
    BY <1>13, <2>2, <2>4
  <2>8. 0 <= (r + nano) - b - (u * (c + w)) /\ (r + nano) - b - (u * (c + w)) <= (u - 1) * (n + 1)
    BY <1>2, <2>6, <2>7, BehindMore
  <2>9. t.ran[x] = r + nano /\ t.start[x] = b /\ t.time = c + w /\ t.since = n + 1
    BY <1>15, <2>1, <2>4, <2>5
  <2> QED BY <2>3, <2>8, <2>9 DEF Behind
<1> QED BY <1>14, <1>16, <1>17 DEF ClockInv, t

LEMMA RecountClock ==
  ASSUME NEW s \in ClockState, s.kind = "fll" => s.left["ACLK"] = 0 /\ s.left["SMCLK"] = 0
  PROVE  ClockInv(K!Recount(s))
<1> DEFINE t == K!Recount(s)
<1>1. /\ t \in ClockState /\ t.kind = s.kind /\ t.temp = s.temp /\ t.left = s.left /\ t.time = 0 /\ t.since = 0
      /\ t.start = s.temp /\ t.ran = s.temp /\ t.in = s.left /\ t.held = K!Sources
      /\ \A x \in K!Sources : t.ticks[x] = 0
      /\ \A x \in K!Signals : t.out[x] = 0
  BY DEF ClockState, K!Recount
<1>2. \A x \in K!Sources : s.temp[x] \in Nat
  BY DEF ClockState
<1>3. \A x \in K!Signals : s.left[x] \in Nat
  BY DEF ClockState
<1> HIDE DEF t
<1>4. Exact(t)
  <2>1. ASSUME NEW x \in K!Sources
        PROVE  (t.ticks[x] * K!PeriodOf(t, x)) + t.temp[x] = t.ran[x]
    <3>1. PICK p \in Nat : p = K!PeriodOf(t, x)
      BY <1>1, PeriodPositive
    <3> QED BY <1>1, <1>2, <3>1
  <2>2. ASSUME NEW x \in {"ACLK", "SMCLK"}
        PROVE  /\ (t.out[x] * 2^ShiftOf(t, x)) + t.left[x] = t.in[x]
               /\ t.kind = "fll" => t.left[x] = 0
    <3>1. x \in K!Signals /\ ShiftOf(t, x) \in 0..3
      BY <1>1 DEF K!Signals, ShiftOf, ClockState
    <3>2. PICK p \in Nat : p = 2^ShiftOf(t, x)
      <4>1. 2^ShiftOf(t, x) \in Nat
        BY <3>1, PowerOfTwo, Zenon
      <4> QED BY <4>1
    <3> QED BY <1>1, <1>3, <3>1, <3>2
  <2> QED BY <2>1, <2>2 DEF Exact
<1>5. Steady(t)
  <2>1. Unit(t) \in Nat \ {0}
    BY ClockAssumption DEF Unit
  <2>2. ASSUME NEW x \in t.held
        PROVE  0 <= Behind(t, x) /\ Behind(t, x) <= (Unit(t) - 1) * t.since
    <3>1. t.ran[x] = s.temp[x] /\ t.start[x] = s.temp[x] /\ s.temp[x] \in Nat
      BY <1>1, <1>2, <2>2
    <3> QED BY <1>1, <2>1, <3>1 DEF Behind
  <2> QED BY <2>2 DEF Steady
<1> QED BY <1>1, <1>4, <1>5 DEF ClockInv, t

LEMMA WriteClock ==
  ASSUME NEW s, ClockInv(s), NEW c \in Confs
  PROVE  ClockInv(K!Recount([K!Write(s, c) EXCEPT !.confs = @ + 1]))
<1>1. /\ s \in ClockState /\ (s.kind = "fll" => s.left["ACLK"] = 0 /\ s.left["SMCLK"] = 0)
      /\ c \in [dco : Nat \ {0}, selm : 0..3, sels : 0..3, diva : 0..3, divm : 0..3, divs : 0..3, off : BOOLEAN]
  BY ClockAssumption DEF ClockInv, Exact
<1>2. /\ c.dco \in Nat \ {0} /\ c.selm \in 0..7 /\ c.sels \in 0..7 /\ c.diva \in 0..3
      /\ c.divm \in 0..3 /\ c.divs \in 0..3 /\ c.off \in BOOLEAN
  <2>1. c.selm \in 0..3 /\ c.sels \in 0..3 /\ 0..3 \subseteq 0..7
    BY <1>1
  <2> QED BY <1>1, <2>1
<1>3. /\ K!Write(s, c) \in ClockState /\ K!Write(s, c).kind = s.kind /\ K!Write(s, c).left = s.left
  <2> DEFINE Written(w) == w \in ClockState /\ w.kind = s.kind /\ w.left = s.left
  <2>1. Written(K!WriteBasic(s, c))
    BY <1>1, <1>2 DEF K!WriteBasic, ClockState
  <2>2. Written(K!WritePlus(s, c))
    BY <1>1, <1>2 DEF K!WritePlus, ClockState
  <2>3. Written(K!WriteFll(s, c))
    BY <1>1, <1>2 DEF K!WriteFll, ClockState
  <2>4. Written(K!WriteUcs(s, c))
    BY <1>1 DEF K!WriteUcs
  <2> QED BY <2>1, <2>2, <2>3, <2>4, Zenon DEF K!Write
<1> DEFINE t == [K!Write(s, c) EXCEPT !.confs = @ + 1]
<1>4. t \in ClockState /\ t.kind = s.kind /\ t.left = s.left
  BY <1>3 DEF ClockState
<1> QED BY <1>1, <1>4, RecountClock

\* Sleeping and waking change nothing that is counted.
LEMMA SleepClock ==
  ASSUME NEW s, ClockInv(s), NEW r \in SUBSET {"CPUOFF", "SCG0", "SCG1", "OSCOFF"}, NEW n \in Nat
  PROVE  ClockInv([s EXCEPT !.sr = r, !.confs = n])
<1> DEFINE t == [s EXCEPT !.sr = r, !.confs = n]
<1>1. s \in ClockState /\ Exact(s) /\ Steady(s)
  BY DEF ClockInv
<1>2. t \in ClockState /\ \A f \in {"kind", "dco", "diva", "divs", "temp", "left", "time", "since", "held",
                                  "start", "ran", "ticks", "in", "out"} : t[f] = s[f]
  BY <1>1 DEF ClockState
<1>3. /\ t.kind = s.kind /\ t.dco = s.dco /\ t.diva = s.diva /\ t.divs = s.divs /\ t.temp = s.temp
      /\ t.left = s.left /\ t.time = s.time /\ t.since = s.since /\ t.held = s.held /\ t.start = s.start
      /\ t.ran = s.ran /\ t.ticks = s.ticks /\ t.in = s.in /\ t.out = s.out
  BY <1>1 DEF ClockState
<1> HIDE DEF t
<1>4. (\A x : K!PeriodOf(t, x) = K!PeriodOf(s, x) /\ ShiftOf(t, x) = ShiftOf(s, x)) /\ Unit(t) = Unit(s)
  BY <1>3 DEF K!PeriodOf, ShiftOf, Unit
<1>5. \A x : Behind(t, x) = Behind(s, x)
  BY <1>3, <1>4 DEF Behind
<1> QED BY <1>1, <1>2, <1>3, <1>4, <1>5, Zenon DEF ClockInv, Exact, Steady, t

LEMMA InitClock == K!ClkInit => ClockInv(m)
<1> SUFFICES ASSUME NEW kind \in Systems
             PROVE  ClockInv(K!Reset(kind))
  BY DEF K!ClkInit
<1> DEFINE t == K!Reset(kind)
<1>1. kind \in {"basic", "plus", "fll", "ucs"}
  BY ClockAssumption
<1>2. t \in ClockState
  BY <1>1 DEF ClockState, K!Reset, K!Sources
<1>3. /\ t.held = K!Sources /\ t.time = 0 /\ t.since = 0
      /\ \A x \in K!Sources : t.ticks[x] = 0 /\ t.temp[x] = 0 /\ t.ran[x] = 0 /\ t.start[x] = 0
      /\ \A x \in K!Signals : t.left[x] = 0 /\ t.in[x] = 0 /\ t.out[x] = 0
  BY DEF K!Reset
<1> HIDE DEF t
<1>4. Exact(t)
  <2>1. ASSUME NEW x \in K!Sources
        PROVE  (t.ticks[x] * K!PeriodOf(t, x)) + t.temp[x] = t.ran[x]
    <3>1. PICK p \in Nat : p = K!PeriodOf(t, x)
      BY <1>2, PeriodPositive
    <3> QED BY <1>3, <3>1
  <2>2. ASSUME NEW x \in {"ACLK", "SMCLK"}
        PROVE  /\ (t.out[x] * 2^ShiftOf(t, x)) + t.left[x] = t.in[x]
               /\ t.kind = "fll" => t.left[x] = 0
    <3>1. x \in K!Signals /\ ShiftOf(t, x) \in 0..3
      BY <1>2 DEF K!Signals, ShiftOf, ClockState
    <3>2. PICK p \in Nat : p = 2^ShiftOf(t, x)
      <4>1. 2^ShiftOf(t, x) \in Nat
        BY <3>1, PowerOfTwo, Zenon
      <4> QED BY <4>1
    <3> QED BY <1>3, <3>1, <3>2
  <2> QED BY <2>1, <2>2 DEF Exact
<1>5. Steady(t)
  <2>1. Unit(t) \in Nat \ {0}
    BY ClockAssumption DEF Unit
  <2> QED BY <1>3, <2>1 DEF Steady, Behind
<1> QED BY <1>2, <1>4, <1>5 DEF ClockInv, t

LEMMA NextClock == ClockInv(m) /\ K!ClkNext => ClockInv(m')
<1> SUFFICES ASSUME ClockInv(m), K!ClkNext
             PROVE  ClockInv(m')
  OBVIOUS
<1>1. m \in ClockState
  BY DEF ClockInv
<1>2. CASE K!Turn
  BY <1>2, UpdateClock DEF K!Turn
<1>3. CASE K!SetClock
  BY <1>3, WriteClock DEF K!SetClock
<1>4. CASE K!Sleep
  <2>1. PICK off \in {{}, {"SCG0"}, {"SCG0", "SCG1"}, {"SCG0", "SCG1", "OSCOFF"}} :
          m' = [m EXCEPT !.sr = {"CPUOFF"} \cup off, !.confs = @ + 1]
    BY <1>4 DEF K!Sleep
  <2>2. {"CPUOFF"} \cup off \in SUBSET {"CPUOFF", "SCG0", "SCG1", "OSCOFF"} /\ m.confs + 1 \in Nat
    BY <1>1 DEF ClockState
  <2> QED BY <2>1, <2>2, SleepClock
<1>5. CASE K!Wake
  <2>1. m' = [m EXCEPT !.sr = @ \cap {"SCG0"}, !.confs = m.confs]
    BY <1>1, <1>5 DEF K!Wake, ClockState
  <2>2. m.sr \cap {"SCG0"} \in SUBSET {"CPUOFF", "SCG0", "SCG1", "OSCOFF"} /\ m.confs \in Nat
    BY <1>1 DEF ClockState
  <2> QED BY <2>1, <2>2, SleepClock
<1>6. CASE K!Over
  BY <1>6 DEF K!Over
<1> QED BY <1>2, <1>3, <1>4, <1>5, <1>6 DEF K!ClkNext

LEMMA ClockKeeps == ClockInv(m) => K!NoTickLost /\ K!OnTime
<1> SUFFICES ASSUME ClockInv(m)
             PROVE  K!NoTickLost /\ K!OnTime
  OBVIOUS
<1>1. \A x : K!Shift(x) = ShiftOf(m, x)
  BY DEF K!Shift, ShiftOf
<1>2. K!NoTickLost
  BY <1>1, Zenon DEF ClockInv, Exact, K!NoTickLost
<1>3. K!OnTime
  BY DEF ClockInv, Steady, Behind, Unit, K!OnTime
<1> QED BY <1>2, <1>3

-----------------------------------------------------------------------------
(* The core with its flash and its watchdog: the ticks since it was cleared   *)
(* are the intervals that ended and what it has counted of the next, and the  *)
(* flash is erased and written as the driver chose while it is not locked.    *)

SystemFields == {"kind", "count", "iv", "gie", "stack", "ie", "ifg", "odd", "sum", "exact", "flash", "wd", "mul"}
FlashFields ==
  {"mode", "fnx", "lock", "wait", "busy", "accvifg", "keyv", "divider", "left", "first", "updating", "armed",
   "jump", "exited", "stuck", "mem", "want", "job", "stores"}

WatchState ==
  [hold : BOOLEAN, tmsel : BOOLEAN, is : DOMAIN Intervals, cnt : Nat, limit : Nat \ {0}, age : Nat, ends : Nat,
   mixed : BOOLEAN]
\* The handlers are installed from the choice of a mode to the next lock, and what is
\* chosen without them is nothing.
WatchInv(w) ==
  /\ w \in WatchState
  /\ \A n \in Cycles : n <= w.limit
  /\ ~ w.mixed => w.cnt <= w.limit /\ w.age = (w.ends * w.limit) + w.cnt /\ (w.cnt = 0 => w.ends = 0)
FlashInv(f) ==
  /\ DOMAIN f = FlashFields
  /\ {f.lock, f.busy, f.armed, f.jump, f.stuck} \subseteq BOOLEAN /\ f.job \in Y!Jobs
  /\ f.mem = f.want
  /\ f.armed => f.mode = Y!ModeOf(f.job) /\ (f.lock => f.job = "none")
  /\ ~ f.armed => f.job = "none"
  /\ ~ f.busy /\ ~ f.stuck => ~ f.jump
SystemInv(s) == DOMAIN s = SystemFields /\ WatchInv(s.wd) /\ FlashInv(s.flash)

LEMMA NextInterval ==
  ASSUME NEW c \in Nat, NEW d \in Nat
  PROVE  (c + 1) * d = (c * d) + d /\ c * d \in Nat
OBVIOUS

LEMMA WatchCounts ==
  ASSUME NEW w, WatchInv(w), NEW n \in Cycles
  PROVE  WatchInv(Y!WatchdogCount(w, n))
<1> DEFINE t == Y!WatchdogCount(w, n)
<1>1. w \in WatchState /\ n \in Nat /\ n <= w.limit
  BY ClockAssumption DEF WatchInv
<1>2. PICK a \in Nat, b \in Nat, c \in Nat, d \in Nat \ {0} : a = w.age /\ b = w.cnt /\ c = w.ends /\ d = w.limit
  BY <1>1 DEF WatchState
<1>3. PICK e \in Nat : e = c * d
  BY <1>2
<1>4. ~ w.mixed => b <= d /\ a = e + b /\ (b = 0 => c = 0)
  BY <1>2, <1>3 DEF WatchInv
<1>5. CASE b + n > d
  <2>1. PICK x \in Nat, y \in Nat, z \in Nat : x = a + n /\ y = (b + n) - d /\ z = c + 1
    BY <1>1, <1>2, <1>5
  <2>2. t = [w EXCEPT !.age = x, !.cnt = y, !.ends = z]
    BY <1>2, <1>5, <2>1, Zenon DEF Y!WatchdogCount
  <2> HIDE DEF t
  <2>3. t \in WatchState
    BY <1>1, <2>2 DEF WatchState
  <2>4. t.limit = w.limit /\ t.mixed = w.mixed /\ t.age = x /\ t.cnt = y /\ t.ends = z
    BY <1>1, <2>2 DEF WatchState
  <2>5. z * d = e + d
    BY <1>2, <1>3, <2>1, NextInterval
  <2>6. ~ w.mixed => y <= d /\ x = (e + d) + y /\ y # 0
    BY <1>1, <1>2, <1>4, <1>5, <2>1
  <2>7. ~ t.mixed => t.cnt <= t.limit /\ t.age = (t.ends * t.limit) + t.cnt /\ (t.cnt = 0 => t.ends = 0)
    BY <1>2, <2>4, <2>5, <2>6
  <2> QED BY <1>1, <2>3, <2>4, <2>7 DEF WatchInv, t
<1>6. CASE ~ (b + n > d)
  <2>1. a + n \in Nat /\ b + n \in Nat
    BY <1>1, <1>2
  <2>2. t = [w EXCEPT !.age = a + n, !.cnt = b + n]
    BY <1>2, <1>6, Zenon DEF Y!WatchdogCount
  <2> HIDE DEF t
  <2>3. t \in WatchState
    BY <1>1, <2>1, <2>2 DEF WatchState
  <2>4. t.limit = w.limit /\ t.mixed = w.mixed /\ t.age = a + n /\ t.cnt = b + n /\ t.ends = c
    BY <1>1, <1>2, <2>2 DEF WatchState
  <2>5. ~ w.mixed => b + n <= d /\ a + n = e + (b + n) /\ (b + n = 0 => c = 0)
    BY <1>1, <1>2, <1>4, <1>6
  <2>6. ~ t.mixed => t.cnt <= t.limit /\ t.age = (t.ends * t.limit) + t.cnt /\ (t.cnt = 0 => t.ends = 0)
    BY <1>2, <1>3, <2>4, <2>5
  <2> QED BY <1>1, <2>3, <2>4, <2>6 DEF WatchInv, t
<1> QED BY <1>5, <1>6

LEMMA WatchTurn ==
  ASSUME NEW s, SystemInv(s), NEW n \in Cycles
  PROVE  SystemInv(Y!WatchdogUpdate(s, n))
<1> DEFINE t == Y!WatchdogUpdate(s, n)
           w == Y!WatchdogCount(s.wd, n)
<1>1. DOMAIN s = SystemFields /\ WatchInv(s.wd) /\ FlashInv(s.flash) /\ WatchInv(w)
  BY WatchCounts DEF SystemInv
<1> HIDE DEF w
<1>2. DOMAIN t = SystemFields
  BY <1>1 DEF Y!WatchdogUpdate, Y!InterruptSet, SystemFields
<1>3. t.flash = s.flash
  BY <1>1 DEF Y!WatchdogUpdate, Y!InterruptSet, SystemFields
<1>4. t.wd = s.wd \/ t.wd = w
  BY <1>1 DEF Y!WatchdogUpdate, Y!InterruptSet, SystemFields, w
<1> QED BY <1>1, <1>2, <1>3, <1>4 DEF SystemInv

LEMMA FlashTurn ==
  ASSUME NEW f, FlashInv(f), NEW n
  PROVE  FlashInv(Y!FlashUpdate(f, n))
BY DEF FlashInv, FlashFields, Y!FlashUpdate

LEMMA TurnEnds == ASSUME NEW s, SystemInv(s), Y!EndTurn(s) PROVE SystemInv(m')
<1>1. PICK n \in Cycles :
        m' = Y!InterruptStartIfAny([Y!WatchdogUpdate(s, n) EXCEPT !.flash = Y!FlashUpdate(@, n)])
  BY DEF Y!EndTurn
<1> DEFINE u == Y!WatchdogUpdate(s, n)
           t == [u EXCEPT !.flash = Y!FlashUpdate(@, n)]
<1>2. SystemInv(u)
  BY WatchTurn
<1> HIDE DEF u
<1>3. SystemInv(t)
  BY <1>2, FlashTurn DEF SystemInv, SystemFields
<1> HIDE DEF t
<1>4. /\ DOMAIN Y!InterruptStartIfAny(t) = DOMAIN t
      /\ Y!InterruptStartIfAny(t).wd = t.wd /\ Y!InterruptStartIfAny(t).flash = t.flash
  BY <1>3 DEF SystemInv, SystemFields, Y!InterruptStartIfAny, Y!Enter
<1>5. m' = Y!InterruptStartIfAny(t)
  BY <1>1 DEF t, u
<1> QED BY <1>3, <1>4, <1>5 DEF SystemInv

LEMMA FlashResets ==
  ASSUME NEW f, DOMAIN f = FlashFields
  PROVE  LET r == Y!FlashReset(f)
         IN  /\ DOMAIN r = FlashFields /\ r.mem = f.mem /\ r.want = f.want /\ r.armed = f.armed /\ r.jump = f.jump
             /\ r.stuck = f.stuck /\ r.lock = TRUE /\ r.busy = FALSE /\ r.mode = {}
<1> DEFINE r == Y!FlashReset(f)
<1>1. DOMAIN r = FlashFields
  BY Zenon DEF Y!FlashReset
<1>2. r.mem = f.mem
  BY DEF FlashFields, Y!FlashReset
<1>3. r.want = f.want
  BY DEF FlashFields, Y!FlashReset
<1>4. r.armed = f.armed /\ r.jump = f.jump /\ r.stuck = f.stuck
  BY DEF FlashFields, Y!FlashReset
<1>5. r.lock = TRUE
  BY DEF FlashFields, Y!FlashReset
<1>6. r.busy = FALSE
  BY DEF FlashFields, Y!FlashReset
<1>7. r.mode = {}
  BY DEF FlashFields, Y!FlashReset
<1> QED BY <1>1, <1>2, <1>3, <1>4, <1>5, <1>6, <1>7

LEMMA ResetKeeps == ASSUME NEW s, SystemInv(s) PROVE SystemInv(Y!McuReset(s))
<1> DEFINE t == Y!McuReset(s)
           w == [Y!WatchdogReset(s.wd) EXCEPT !.age = 0, !.ends = 0, !.mixed = FALSE]
           f == [Y!FlashReset(s.flash) EXCEPT !.job = "none", !.stuck = s.flash.stuck \/ s.flash.jump]
<1>1. DOMAIN s = SystemFields /\ WatchInv(s.wd) /\ FlashInv(s.flash)
  BY DEF SystemInv
<1>2. DOMAIN t = SystemFields /\ t.wd = w /\ t.flash = f
  <2> HIDE DEF w, f
  <2>1. t = [s EXCEPT !.ie = {}, !.ifg = {}, !.iv = {}, !.gie = FALSE, !.stack = <<>>, !.odd = FALSE,
                      !.wd = w, !.flash = f]
    BY Zenon DEF Y!McuReset, w, f
  <2> QED BY <1>1, <2>1 DEF SystemFields
<1>3. WatchInv(w)
  <2>1. s.wd.is \in DOMAIN Intervals /\ s.wd \in WatchState
    BY <1>1 DEF WatchInv, WatchState
  <2>2. w \in WatchState /\ w.limit = Intervals[s.wd.is] /\ w.cnt = 0 /\ w.age = 0 /\ w.ends = 0
    BY <2>1, IntervalAssumption DEF Y!WatchdogReset, WatchState
  <2>3. \A n \in Cycles : n <= w.limit
    BY <2>1, <2>2, IntervalAssumption
  <2> HIDE DEF w
  <2> QED BY <2>2, <2>3 DEF WatchInv, WatchState
<1>4. FlashInv(f)
  <2> DEFINE r == Y!FlashReset(s.flash)
  <2>2. /\ DOMAIN r = FlashFields /\ r.mem = s.flash.mem /\ r.want = s.flash.want /\ r.armed = s.flash.armed
        /\ r.jump = s.flash.jump /\ r.lock = TRUE /\ r.busy = FALSE /\ r.mode = {}
    BY <1>1, FlashResets DEF FlashInv
  <2> HIDE DEF r
  <2>5. DOMAIN f = FlashFields /\ f.job = "none"
    BY <2>2 DEF FlashFields, r
  <2>6. f.mem = r.mem /\ f.want = r.want /\ f.armed = r.armed /\ f.jump = r.jump
    BY <2>2 DEF FlashFields, r
  <2>7. f.lock = r.lock /\ f.busy = r.busy /\ f.mode = r.mode
    BY <2>2 DEF FlashFields, r
  <2>8. f.stuck = (s.flash.stuck \/ s.flash.jump)
    BY <2>2 DEF FlashFields, r
  <2> HIDE DEF f
  <2> QED BY <1>1, <2>2, <2>5, <2>6, <2>7, <2>8 DEF FlashInv, Y!ModeOf, Y!Jobs
<1> QED BY <1>2, <1>3, <1>4 DEF SystemInv

LEMMA WatchZero ==
  ASSUME NEW w \in WatchState, w.cnt = 0, w.age = 0, w.ends = 0, \A n \in Cycles : n <= w.limit
  PROVE  WatchInv(w)
<1>1. PICK d \in Nat : d = w.limit
  BY DEF WatchState
<1> QED BY <1>1 DEF WatchInv

LEMMA WdtctlKeeps ==
  ASSUME NEW s, SystemInv(s), NEW good \in BOOLEAN, NEW hold \in BOOLEAN, NEW tmsel \in BOOLEAN, NEW clear \in BOOLEAN,
         NEW is \in DOMAIN Intervals
  PROVE  SystemInv(Y!WriteWdtctl(s, good, hold, tmsel, clear, is))
<1> DEFINE r == IF good THEN s ELSE Y!McuReset(s)
           limit == IF is # r.wd.is THEN Intervals[is] ELSE r.wd.limit
           cnt == IF clear THEN 0 ELSE r.wd.cnt
           age == IF clear THEN 0 ELSE r.wd.age
           ends == IF clear THEN 0 ELSE r.wd.ends
           mixed == ~ clear /\ (r.wd.mixed \/ is # r.wd.is)
           w == [hold |-> hold, tmsel |-> tmsel, is |-> is, cnt |-> cnt, age |-> age, ends |-> ends,
                 limit |-> limit, mixed |-> mixed]
           t == Y!WriteWdtctl(s, good, hold, tmsel, clear, is)
<1>1. SystemInv(r)
  BY ResetKeeps
<1>2. t = [r EXCEPT !.wd = w, !.odd = @ \/ (tmsel # r.wd.tmsel /\ "wdt" \in r.ifg)]
  BY Zenon DEF Y!WriteWdtctl
<1> HIDE DEF r
<1>3. DOMAIN r = SystemFields /\ WatchInv(r.wd) /\ FlashInv(r.flash) /\ r.wd \in WatchState
  BY <1>1 DEF SystemInv, WatchInv
<1>4. limit \in Nat \ {0} /\ cnt \in Nat /\ age \in Nat /\ ends \in Nat /\ mixed \in BOOLEAN
  BY <1>3, IntervalAssumption DEF WatchState
<1>5. \A n \in Cycles : n <= limit
  BY <1>3, IntervalAssumption DEF WatchInv
<1>6. clear => cnt = 0 /\ age = 0 /\ ends = 0
  OBVIOUS
<1>7. ~ clear /\ ~ mixed => limit = r.wd.limit /\ cnt = r.wd.cnt /\ age = r.wd.age /\ ends = r.wd.ends /\ ~ r.wd.mixed
  BY <1>3 DEF WatchState
<1> HIDE DEF limit, cnt, age, ends, mixed
<1>8. w \in WatchState
  BY <1>4 DEF WatchState
<1>9. w.limit = limit /\ w.cnt = cnt /\ w.age = age /\ w.ends = ends /\ w.mixed = mixed
  OBVIOUS
<1> HIDE DEF w
<1>10. WatchInv(w)
  <2>1. CASE clear
    BY <1>5, <1>6, <1>8, <1>9, <2>1, WatchZero
  <2>2. CASE ~ clear
    <3>1. ~ w.mixed => w.cnt <= w.limit /\ w.age = (w.ends * w.limit) + w.cnt /\ (w.cnt = 0 => w.ends = 0)
      BY <1>3, <1>7, <1>9, <2>2 DEF WatchInv
    <3> QED BY <1>5, <1>8, <1>9, <3>1 DEF WatchInv
  <2> QED BY <2>1, <2>2
<1> HIDE DEF t
<1>11. DOMAIN t = SystemFields /\ t.wd = w /\ t.flash = r.flash
  BY <1>2, <1>3 DEF SystemFields
<1> QED BY <1>3, <1>10, <1>11 DEF SystemInv, t

LEMMA StoreMemory ==
  ASSUME NEW f, FlashInv(f), f.armed, NEW c \in Y!Cells, NEW v
  PROVE  Y!StartErase(Y!StartWrite(f, c, v), c).mem = Y!Asked(f, c, v)
<1>1. DOMAIN f = FlashFields /\ f.job \in Y!Jobs /\ f.mem = f.want /\ f.mode = Y!ModeOf(f.job)
  BY DEF FlashInv
<1> DEFINE w == Y!StartWrite(f, c, v)
<1>2. CASE f.job = "none"
  BY <1>1, <1>2 DEF Y!StartWrite, Y!StartErase, Y!Asked, Y!ModeOf
<1>3. CASE f.job \in {"write", "block"}
  <2>1. "WRT" \in f.mode /\ f.mode \cap {"ERASE", "MERAS"} = {}
    BY <1>1, <1>3 DEF Y!ModeOf
  <2>2. DOMAIN w = FlashFields /\ w.mode = f.mode /\ w.mem = [f.mem EXCEPT ![c] = v]
    BY <1>1, <2>1 DEF Y!StartWrite, FlashFields
  <2>3. Y!StartErase(w, c) = w
    BY <2>1, <2>2 DEF Y!StartErase
  <2> QED BY <1>1, <1>3, <2>2, <2>3 DEF Y!Asked
<1>4. CASE f.job \in {"segment", "main", "all"}
  <2>1. "WRT" \notin f.mode /\ f.mode \cap {"ERASE", "MERAS"} # {}
    BY <1>1, <1>4 DEF Y!ModeOf
  <2>2. w = f
    BY <2>1 DEF Y!StartWrite
  <2>3. Y!StartErase(f, c).mem = [d \in Y!Cells |-> IF d \in Y!Region(f, c) THEN Y!ERASED ELSE f.mem[d]]
    BY <1>1, <2>1 DEF Y!StartErase, FlashFields
  <2>4. \A d \in Y!Cells : d \in Y!Region(f, c) <=> (\/ f.job = "all" \/ (f.job = "main" /\ d < 4)
                                                     \/ (f.job = "segment" /\ d \div 2 = c \div 2))
    <3>1. CASE f.job = "all"
      BY <1>1, <3>1 DEF Y!Region, Y!ModeOf
    <3>2. CASE f.job = "main"
      BY <1>1, <3>2 DEF Y!Region, Y!ModeOf, Y!Main, Y!Cells
    <3>3. CASE f.job = "segment"
      BY <1>1, <3>3 DEF Y!Region, Y!ModeOf, Y!Segment
    <3> QED BY <1>4, <3>1, <3>2, <3>3
  <2>5. Y!Asked(f, c, v) = [d \in Y!Cells |->
          IF f.job = "all" \/ (f.job = "main" /\ d < 4) \/ (f.job = "segment" /\ d \div 2 = c \div 2)
          THEN Y!ERASED ELSE f.want[d]]
    BY <1>4 DEF Y!Asked
  <2> QED BY <1>1, <2>2, <2>3, <2>4, <2>5
<1> QED BY <1>1, <1>2, <1>3, <1>4 DEF Y!Jobs

LEMMA StoreKeeps ==
  ASSUME NEW f, FlashInv(f), NEW c \in Y!Cells, NEW v
  PROVE  FlashInv([Y!StoreFlash(f, c, v) EXCEPT !.want = Y!Asked(f, c, v), !.stores = @ + 1])
<1> DEFINE s == Y!StoreFlash(f, c, v)
           t == [s EXCEPT !.want = Y!Asked(f, c, v), !.stores = @ + 1]
<1>1. /\ DOMAIN f = FlashFields /\ f.mem = f.want /\ {f.lock, f.busy, f.armed, f.jump, f.stuck} \subseteq BOOLEAN
      /\ f.job \in Y!Jobs
  BY DEF FlashInv
<1>2. CASE ~ f.armed
  <2>1. s = f /\ f.job = "none"
    BY <1>2 DEF FlashInv, Y!StoreFlash
  <2>2. Y!Asked(f, c, v) = f.want
    BY <2>1 DEF Y!Asked
  <2>3. /\ DOMAIN t = FlashFields /\ t.want = f.want
        /\ \A x \in FlashFields \ {"want", "stores"} : t[x] = f[x]
    BY <1>1, <2>1, <2>2 DEF FlashFields
  <2> HIDE DEF t
  <2>4. /\ t.lock = f.lock /\ t.busy = f.busy /\ t.armed = f.armed /\ t.jump = f.jump /\ t.stuck = f.stuck
        /\ t.job = f.job /\ t.mem = f.mem /\ t.mode = f.mode
    BY <2>3 DEF FlashFields
  <2> QED BY <2>3, <2>4 DEF FlashInv, t
<1>3. CASE f.armed
  <2> DEFINE w == Y!StartWrite(f, c, v)
             e == Y!StartErase(w, c)
  <2>1. /\ DOMAIN w = FlashFields /\ w.lock = f.lock /\ w.armed = f.armed /\ w.stuck = f.stuck
        /\ w.job = f.job /\ w.mode = f.mode
    BY <1>1 DEF Y!StartWrite, FlashFields
  <2>2. w.jump \in BOOLEAN
    BY <1>1 DEF Y!StartWrite, FlashFields
  <2> HIDE DEF w
  <2>3. /\ DOMAIN e = FlashFields /\ e.lock = w.lock /\ e.armed = w.armed /\ e.stuck = w.stuck
        /\ e.job = w.job /\ e.mode = w.mode
    BY <2>1 DEF Y!StartErase, FlashFields
  <2>4. e.jump \in BOOLEAN
    BY <2>1, <2>2 DEF Y!StartErase, FlashFields
  <2>5. e.mem = Y!Asked(f, c, v)
    BY <1>3, StoreMemory DEF w
  <2>6. s = [e EXCEPT !.busy = TRUE, !.updating = TRUE]
    BY <1>3 DEF Y!StoreFlash, w
  <2> HIDE DEF e
  <2>7. /\ DOMAIN s = FlashFields /\ s.lock = e.lock /\ s.armed = e.armed /\ s.stuck = e.stuck
        /\ s.job = e.job /\ s.mode = e.mode /\ s.jump = e.jump /\ s.mem = e.mem /\ s.busy = TRUE
    BY <2>3, <2>6 DEF FlashFields
  <2> HIDE DEF s
  <2>8. /\ DOMAIN t = FlashFields /\ t.lock = s.lock /\ t.armed = s.armed /\ t.stuck = s.stuck
        /\ t.job = s.job /\ t.mode = s.mode /\ t.jump = s.jump /\ t.mem = s.mem /\ t.busy = s.busy
        /\ t.want = Y!Asked(f, c, v)
    BY <2>7 DEF FlashFields
  <2> HIDE DEF t
  <2>9. /\ t.lock \in BOOLEAN /\ t.busy = TRUE /\ t.armed = TRUE /\ t.jump \in BOOLEAN /\ t.stuck \in BOOLEAN
        /\ t.job = f.job /\ t.lock = f.lock /\ t.mode = f.mode /\ t.mem = t.want
    BY <1>1, <1>3, <2>1, <2>3, <2>4, <2>5, <2>7, <2>8
  <2>10. FlashInv(t)
    BY <1>1, <1>3, <2>8, <2>9 DEF FlashInv
  <2> QED BY <2>10 DEF t, s
<1> QED BY <1>1, <1>2, <1>3

LEMMA NextSystem == SystemInv(m) /\ Y!SystemNext => SystemInv(m')
<1> SUFFICES ASSUME SystemInv(m), Y!SystemNext
             PROVE  SystemInv(m')
  OBVIOUS
<1> DEFINE Same(s) == DOMAIN s = SystemFields /\ s.wd = m.wd /\ s.flash = m.flash
<1>1. DOMAIN m = SystemFields /\ WatchInv(m.wd) /\ FlashInv(m.flash) /\ DOMAIN m.flash = FlashFields
  BY DEF SystemInv, FlashInv
<1>2. \A s : Same(s) => SystemInv(s)
  BY <1>1 DEF SystemInv
<1>3. Same(Y!Counted)
  BY <1>1 DEF Y!Counted, SystemFields
\* What changes of the flash, counted or not.
<1>4. \A f : FlashInv(f) => SystemInv([m EXCEPT !.flash = f])
  BY <1>1 DEF SystemInv, SystemFields
<1>5. \A f : FlashInv(f) => SystemInv([Y!Counted EXCEPT !.flash = f])
  BY <1>1, <1>3 DEF SystemInv, SystemFields
<1>6. CASE Y!Nop
  BY <1>6, TurnEnds DEF Y!Nop
<1>7. CASE Y!SetGie
  <2>1. Same([m EXCEPT !.gie = ~ @])
    BY <1>1 DEF SystemFields
  <2> QED BY <1>2, <1>7, <2>1, TurnEnds DEF Y!SetGie
<1>8. CASE Y!Reti
  <2> DEFINE r == [m EXCEPT !.gie = Y!Last(m.stack), !.stack = Y!Front(m.stack)]
             f == Y!FlashCheckIfg(r)
  <2>1. Same(r)
    BY <1>1 DEF SystemFields
  <2>2. SystemInv(r)
    BY <1>2, <2>1
  <2> HIDE DEF r
  <2>3. SystemInv(f)
    <3>1. SystemInv(Y!InterruptSet(r, Y!INTR_NMI))
      BY <2>2 DEF SystemInv, SystemFields, Y!InterruptSet
    <3> QED BY <2>2, <3>1, ResetKeeps DEF Y!FlashCheckIfg
  <2> HIDE DEF f
  <2>4. SystemInv(Y!WatchdogCheckIfg(f))
    BY <2>3 DEF SystemInv, SystemFields, Y!InterruptSet, Y!WatchdogCheckIfg
  <2>5. Y!Return(m) = Y!WatchdogCheckIfg(f)
    BY DEF Y!Return, Y!CheckIfg, f, r
  <2> QED BY <1>8, <2>4, <2>5, TurnEnds DEF Y!Reti
<1>9. CASE Y!Other
  <2>1. Same(Y!InterruptSet(Y!Counted, 0))
    BY <1>3 DEF Y!InterruptSet, SystemFields
  <2> QED BY <1>2, <1>9, <2>1, TurnEnds DEF Y!Other
<1>10. CASE Y!WriteIe
  <2>1. \A ie : Same([Y!Counted EXCEPT !.ie = ie, !.odd = (@ \/ ie \ m.ie # {}) /\ "wdt" \in m.ifg])
    BY <1>3 DEF SystemFields
  <2> HIDE DEF Same
  <2> QED BY <1>2, <1>10, <2>1, TurnEnds, Zenon DEF Y!WriteIe
<1>11. CASE Y!Lock
  <2>1. PICK lock \in BOOLEAN : /\ lock # m.flash.lock /\ ~ m.flash.busy
                                /\ Y!EndTurn([m EXCEPT !.flash = [Y!WriteFctl3(m.flash, lock, FALSE) EXCEPT !.job = "none"]])
    BY <1>11 DEF Y!Lock, Y!WithFlash
  <2> DEFINE n == IF lock THEN [Y!SetWriteNormal(m.flash) EXCEPT !.updating = FALSE] ELSE m.flash
             f == Y!WriteFctl3(m.flash, lock, FALSE)
  <2>2. /\ DOMAIN n = FlashFields /\ n.mem = m.flash.mem /\ n.want = m.flash.want
        /\ n.jump = m.flash.jump /\ n.stuck = m.flash.stuck /\ n.mode = m.flash.mode
    BY <1>1 DEF FlashFields, Y!SetWriteNormal
  <2>3. n.armed \in BOOLEAN /\ (lock => ~ n.armed) /\ (~ lock => n.armed = m.flash.armed)
    BY <1>1 DEF FlashInv, FlashFields, Y!SetWriteNormal
  <2>4. f = [n EXCEPT !.lock = lock, !.busy = FALSE, !.wait = FALSE, !.accvifg = FALSE, !.keyv = FALSE]
    BY <1>1, <2>1 DEF Y!WriteFctl3, FlashInv
  <2> HIDE DEF n, f
  <2>5. /\ DOMAIN f = FlashFields /\ f.mem = m.flash.mem /\ f.want = m.flash.want
        /\ f.jump = m.flash.jump /\ f.stuck = m.flash.stuck /\ f.mode = m.flash.mode
    BY <2>2, <2>4 DEF FlashFields
  <2>6. f.armed = n.armed /\ f.lock = lock /\ f.busy = FALSE
    BY <2>2, <2>4 DEF FlashFields
  <2> DEFINE g == [f EXCEPT !.job = "none"]
  <2>7. /\ DOMAIN g = FlashFields /\ g.mem = m.flash.mem /\ g.want = m.flash.want
        /\ g.jump = m.flash.jump /\ g.stuck = m.flash.stuck /\ g.mode = m.flash.mode
        /\ g.armed = n.armed /\ g.lock = lock /\ g.busy = FALSE /\ g.job = "none"
    BY <2>5, <2>6 DEF FlashFields
  <2> HIDE DEF g
  <2>8. FlashInv(g)
    BY <1>1, <2>1, <2>3, <2>7 DEF FlashInv, Y!ModeOf, Y!Jobs
  <2> QED BY <1>4, <2>1, <2>8, TurnEnds DEF f, g
<1>12. CASE Y!Exit
  <2>1. /\ ~ m.flash.busy
        /\ Y!EndTurn([m EXCEPT !.flash = [Y!WriteFctl3(m.flash, TRUE, TRUE) EXCEPT !.job = "none"]])
    BY <1>12 DEF Y!Exit, Y!WithFlash
  <2> DEFINE n == Y!SetWriteNormal(m.flash)
             f == Y!FlashReset(n)
  <2>2. /\ DOMAIN n = FlashFields /\ n.mem = m.flash.mem /\ n.want = m.flash.want
        /\ n.jump = m.flash.jump /\ n.stuck = m.flash.stuck
    BY <1>1 DEF FlashFields, Y!SetWriteNormal
  <2>3. n.armed = FALSE
    BY <1>1 DEF FlashInv, FlashFields, Y!SetWriteNormal
  <2> HIDE DEF n
  <2>4. /\ DOMAIN f = FlashFields /\ f.mem = n.mem /\ f.want = n.want /\ f.armed = n.armed /\ f.jump = n.jump
        /\ f.stuck = n.stuck /\ f.lock = TRUE /\ f.busy = FALSE /\ f.mode = {}
    BY <2>2, FlashResets
  <2> HIDE DEF f
  <2> DEFINE g == [f EXCEPT !.job = "none"]
  <2>5. /\ DOMAIN g = FlashFields /\ g.mem = f.mem /\ g.want = f.want /\ g.armed = f.armed /\ g.jump = f.jump
        /\ g.stuck = f.stuck /\ g.lock = f.lock /\ g.busy = f.busy /\ g.mode = f.mode /\ g.job = "none"
    BY <2>4 DEF FlashFields
  <2> HIDE DEF g
  <2>6. /\ g.lock = TRUE /\ g.busy = FALSE /\ g.armed = FALSE /\ g.jump = m.flash.jump /\ g.stuck = m.flash.stuck
        /\ g.mem = g.want /\ {m.flash.busy, m.flash.jump, m.flash.stuck} \subseteq BOOLEAN
        /\ (~ m.flash.busy /\ ~ m.flash.stuck => ~ m.flash.jump)
    BY <1>1, <2>2, <2>3, <2>4, <2>5 DEF FlashInv
  <2>7. Y!WriteFctl3(m.flash, TRUE, TRUE) = f
    BY DEF Y!WriteFctl3, f, n
  <2>8. FlashInv(g)
    BY <2>1, <2>5, <2>6 DEF FlashInv, Y!Jobs
  <2> QED BY <1>4, <2>1, <2>7, <2>8, TurnEnds DEF g
<1>13. CASE Y!Choose
  <2>1. PICK job \in Y!Jobs : /\ ~ m.flash.busy /\ ~ m.flash.lock
                              /\ Y!EndTurn([m EXCEPT !.flash = [Y!WriteFctl1(m.flash, Y!ModeOf(job)) EXCEPT !.job = job]])
    BY <1>13 DEF Y!Choose, Y!WithFlash
  <2>2. job # "none" <=> Y!ModeOf(job) # {}
    BY DEF Y!ModeOf, Y!Jobs
  <2>3. FlashInv([Y!WriteFctl1(m.flash, Y!ModeOf(job)) EXCEPT !.job = job])
    BY <1>1, <2>1, <2>2 DEF FlashInv, FlashFields, Y!WriteFctl1
  <2> QED BY <1>4, <2>1, <2>3, TurnEnds
<1>14. CASE Y!Divide
  <2>1. PICK n \in Dividers : Y!EndTurn([m EXCEPT !.flash = Y!WriteFctl2(m.flash, n)])
    BY <1>14 DEF Y!Divide, Y!WithFlash
  <2>2. FlashInv(Y!WriteFctl2(m.flash, n))
    BY <1>1 DEF FlashInv, FlashFields, Y!WriteFctl2
  <2> QED BY <1>4, <2>1, <2>2, TurnEnds
<1>15. CASE Y!Store
  <2> DEFINE f == m.flash
             job == m.flash.job
  <2>1. PICK c \in Y!Cells :
          /\ ~ f.busy
          /\ Y!EndTurn([m EXCEPT !.flash = [Y!StoreFlash(f, c, Y!Word) EXCEPT !.want = Y!Asked(f, c, Y!Word),
                                                                             !.stores = @ + 1]])
    BY <1>15, Zenon DEF Y!Store, Y!WithFlash
  <2>2. FlashInv([Y!StoreFlash(f, c, Y!Word) EXCEPT !.want = Y!Asked(f, c, Y!Word), !.stores = @ + 1])
    BY <1>1, StoreKeeps, Zenon
  <2> QED BY <1>4, <2>1, <2>2, TurnEnds
<1>16. CASE Y!Violate
  <2>1. FlashInv(Y!WriteFctl1(m.flash, {}))
    BY <1>1, <1>16 DEF FlashInv, FlashFields, Y!WriteFctl1, Y!Violate
  <2>2. FlashInv(Y!WriteFctl2(m.flash, Y!Min(Dividers)))
    BY <1>1 DEF FlashInv, FlashFields, Y!WriteFctl2
  <2>3. Y!EndTurn([Y!Counted EXCEPT !.flash = Y!WriteFctl1(m.flash, {})])
        \/ Y!EndTurn([Y!Counted EXCEPT !.flash = Y!WriteFctl2(m.flash, Y!Min(Dividers))])
    BY <1>3, <1>16 DEF Y!Violate
  <2> QED BY <1>5, <2>1, <2>2, <2>3, TurnEnds
<1>17. CASE Y!Mistake
  <2>1. FlashInv(Y!BadKey(m.flash))
    BY <1>1 DEF FlashInv, FlashFields, Y!BadKey
  <2>2. Y!EndTurn([Y!Counted EXCEPT !.flash = Y!BadKey(m.flash)])
    BY <1>3, <1>17 DEF Y!Mistake
  <2> QED BY <1>5, <2>1, <2>2, TurnEnds
<1>18. CASE Y!Wdtctl
  <2>1. PICK good \in BOOLEAN, hold \in BOOLEAN, tmsel \in BOOLEAN, clear \in BOOLEAN, is \in DOMAIN Intervals :
          Y!EndTurn(Y!WriteWdtctl(Y!Counted, good, hold, tmsel, clear, is))
    BY <1>18 DEF Y!Wdtctl
  <2>2. SystemInv(Y!WriteWdtctl(Y!Counted, good, hold, tmsel, clear, is))
    BY <1>2, <1>3, WdtctlKeeps
  <2> QED BY <2>1, <2>2, TurnEnds
<1>19. CASE Y!Feed
  <2>1. m.wd.hold \in BOOLEAN /\ m.wd.tmsel \in BOOLEAN /\ m.wd.is \in DOMAIN Intervals
    BY <1>1 DEF WatchInv, WatchState
  <2>2. SystemInv(Y!WriteWdtctl(m, TRUE, m.wd.hold, m.wd.tmsel, TRUE, m.wd.is))
    BY <2>1, WdtctlKeeps
  <2> QED BY <1>19, <2>2, TurnEnds DEF Y!Feed
<1>20. CASE Y!WriteIfg
  <2>1. \A ifg : Same([Y!Counted EXCEPT !.ifg = ifg, !.odd = ifg # {}])
    BY <1>3 DEF SystemFields
  <2> HIDE DEF Same
  <2> QED BY <1>2, <1>20, <2>1, TurnEnds, Zenon DEF Y!WriteIfg
<1>21. CASE Y!WriteOperand
  <2>1. PICK u : m' = [m EXCEPT !.mul = u]
    BY <1>21 DEF Y!WriteOperand
  <2> QED BY <1>1, <2>1 DEF SystemInv, SystemFields
<1>22. \A u, sum, exact : Same([Y!Counted EXCEPT !.mul = u, !.sum = sum, !.exact = exact])
  BY <1>3 DEF SystemFields
<1>23. \A u, sum, exact : Same([m EXCEPT !.mul = u, !.sum = sum, !.exact = exact])
  BY <1>1 DEF SystemFields
<1> HIDE DEF Same
<1>24. CASE Y!Operate
  BY <1>2, <1>22, <1>24, Zenon DEF Y!Operate
<1>25. CASE Y!OperateBytes
  BY <1>2, <1>22, <1>25, Zenon DEF Y!OperateBytes
<1>26. CASE Y!Preset
  BY <1>2, <1>23, <1>26, Zenon DEF Y!Preset
<1> QED BY <1>6, <1>7, <1>8, <1>9, <1>10, <1>11, <1>12, <1>13, <1>14, <1>15, <1>16, <1>17, <1>18, <1>19, <1>20,
           <1>21, <1>24, <1>25, <1>26 DEF Y!SystemNext

LEMMA InitSystem == Y!SystemInit => SystemInv(m)
<1> SUFFICES ASSUME Y!SystemInit
             PROVE  SystemInv(m)
  OBVIOUS
<1>1. /\ DOMAIN m = SystemFields
      /\ m.wd = [hold |-> TRUE, tmsel |-> FALSE, is |-> 1, cnt |-> 0, limit |-> Intervals[1],
                 age |-> 0, ends |-> 0, mixed |-> FALSE]
      /\ DOMAIN m.flash = FlashFields
      /\ m.flash.lock = TRUE /\ m.flash.busy = FALSE /\ m.flash.armed = FALSE /\ m.flash.jump = FALSE
      /\ m.flash.stuck = FALSE /\ m.flash.job = "none" /\ m.flash.mem = m.flash.want
  BY DEF Y!SystemInit, SystemFields, FlashFields
<1>2. WatchInv(m.wd)
  <2>1. m.wd \in WatchState /\ m.wd.limit = Intervals[1]
    BY <1>1, IntervalAssumption DEF WatchState
  <2> QED BY <1>1, <2>1, IntervalAssumption, WatchZero
<1>3. FlashInv(m.flash)
  BY <1>1 DEF FlashInv, Y!Jobs
<1> QED BY <1>1, <1>2, <1>3 DEF SystemInv

LEMMA WatchKeeps == SystemInv(m) => Y!WatchdogOnTime
<1> SUFFICES ASSUME SystemInv(m), ~ m.wd.mixed
             PROVE  m.wd.ends = IF m.wd.age = 0 THEN 0 ELSE (m.wd.age - 1) \div m.wd.limit
  BY DEF Y!WatchdogOnTime
<1>1. m.wd \in WatchState /\ WatchInv(m.wd)
  BY DEF SystemInv, WatchInv
<1>2. PICK a \in Nat, b \in Nat, c \in Nat, d \in Nat \ {0} :
        a = m.wd.age /\ b = m.wd.cnt /\ c = m.wd.ends /\ d = m.wd.limit
  BY <1>1 DEF WatchState
<1>3. b <= d /\ a = (c * d) + b /\ (b = 0 => c = 0)
  BY <1>1, <1>2 DEF WatchInv
<1>4. CASE b = 0
  <2>1. c = 0 /\ 0 * d = 0
    BY <1>2, <1>3, <1>4
  <2>2. a = 0
    BY <1>3, <1>4, <2>1
  <2> QED BY <1>2, <2>1, <2>2
<1>5. CASE b # 0
  <2>1. PICK e \in Nat : e = c * d
    BY <1>2
  <2>2. a # 0 /\ a - 1 \in Nat /\ a - 1 = e + (b - 1) /\ b - 1 \in Nat /\ b - 1 < d
    BY <1>2, <1>3, <1>5, <2>1
  <2>3. (a - 1) \div d = c
    <3>1. PICK f \in Nat : f = b - 1 /\ f < d /\ e + f = a - 1
      BY <1>2, <2>1, <2>2
    <3>2. (e + f) \div d = c
      BY <2>1, <3>1, Quotient, Zenon
    <3> QED BY <3>1, <3>2, Zenon
  <2>4. m.wd.age # 0 /\ (m.wd.age - 1) \div m.wd.limit = m.wd.ends
    BY <1>2, <2>2, <2>3, Zenon
  <2> QED BY <2>4, Zenon
<1> QED BY <1>4, <1>5

LEMMA FlashKeeps == SystemInv(m) => Y!FlashKept
BY DEF SystemInv, FlashInv, Y!FlashKept, Y!ReadFlash

-----------------------------------------------------------------------------
(* The converter: while it is enabled the memory it converts for is the next  *)
(* of the sequence, and what it has sampled is for that memory.               *)

AdcFields ==
  {"on", "enc", "sc", "msc", "shp", "conseq", "start", "eos", "x", "st", "busy", "sht", "since", "sample", "ifg",
   "ie", "posted", "isr", "done", "starts"}
AdcState(s) ==
  /\ DOMAIN s = AdcFields
  /\ s.start \in A!Memories /\ s.x \in A!Memories /\ s.enc \in BOOLEAN /\ s.conseq \in 0..3
  /\ s.done.k \in A!Memories

\* What an instruction may leave before the converter goes on: stopped in any state.
InTurn(s) ==
  /\ AdcState(s)
  /\ s.enc => s.x = IF s.conseq \in {A!SINGLE, A!REPEAT} THEN s.start ELSE (s.start + s.done.k + 1) % Channels
  /\ s.st = "CONVERT" => s.sample = s.x
  /\ s.done # A!None =>
       /\ s.done.x = IF s.conseq \in {A!SINGLE, A!REPEAT} THEN s.start ELSE (s.start + s.done.k) % Channels
       /\ s.done.sample = s.done.x
AdcInv(s) == InTurn(s) /\ (~ s.enc => s.st \in {"OFF", "WAIT_ENABLE"})

LEMMA Wraps ==
  ASSUME NEW a \in Nat, a < 2 * Channels
  PROVE  a % Channels = IF a < Channels THEN a ELSE a - Channels
<1>1. PICK c \in Nat \ {0} : c = Channels
  BY ChannelAssumption
<1>2. CASE a < c
  <2>1. (0 + a) \div c = 0
    BY <1>1, <1>2, Quotient
  <2>2. ((a \div c) * c) + (a % c) = a /\ a % c \in Nat
    BY <1>1, Division
  <2> QED BY <1>1, <1>2, <2>1, <2>2
<1>3. CASE a >= c
  <2>1. a - c \in Nat /\ a - c < c /\ a = c + (a - c)
    BY <1>1, <1>3
  <2>2. (c + (a - c)) \div c = 1
    BY <1>1, <2>1, Quotient
  <2>3. ((a \div c) * c) + (a % c) = a /\ a % c \in Nat
    BY <1>1, Division
  <2> QED BY <1>1, <1>3, <2>1, <2>2, <2>3
<1> QED BY <1>1, <1>2, <1>3

\* The next place of a sequence, counted from its start or from the place before.
LEMMA NextPlace ==
  ASSUME NEW start \in A!Memories, NEW k \in A!Memories
  PROVE  /\ (k + 1) % Channels \in A!Memories
         /\ (start + ((k + 1) % Channels)) % Channels = (start + k + 1) % Channels
         /\ (start + ((k + 1) % Channels) + 1) % Channels = (((start + k + 1) % Channels) + 1) % Channels
         /\ (start + k + 1) % Channels \in A!Memories
<1>1. PICK c \in Nat \ {0} : c = Channels
  BY ChannelAssumption
<1>2. start \in 0..c - 1 /\ k \in 0..c - 1
  BY <1>1 DEF A!Memories
<1>3. (k + 1) % Channels = IF k + 1 < c THEN k + 1 ELSE 0
  BY <1>1, <1>2, Wraps
<1>4. (start + k + 1) % Channels = IF start + k + 1 < c THEN start + k + 1 ELSE start + k + 1 - c
  BY <1>1, <1>2, Wraps
<1>5. (k + 1) % Channels \in A!Memories /\ (start + k + 1) % Channels \in A!Memories
  BY <1>1, <1>2, <1>3, <1>4 DEF A!Memories
<1>6. PICK a \in Nat : a = (k + 1) % Channels /\ a = IF k + 1 < c THEN k + 1 ELSE 0
  BY <1>2, <1>3
<1>7. (start + a) % Channels = IF start + a < c THEN start + a ELSE start + a - c
  <2>1. PICK x \in Nat : x = start + a /\ x < 2 * Channels
    BY <1>1, <1>2, <1>6
  <2>2. x % Channels = IF x < Channels THEN x ELSE x - Channels
    BY <2>1, Wraps, Zenon
  <2> QED BY <1>1, <1>2, <1>6, <2>1, <2>2
<1>8. (start + a + 1) % Channels = IF start + a + 1 < c THEN start + a + 1 ELSE start + a + 1 - c
  <2>1. PICK x \in Nat : x = start + a + 1 /\ x < 2 * Channels
    <3>1. PICK y \in Nat : y = start + a + 1 /\ y < 2 * c
      <4>1. start \in Nat /\ start + 1 =< c /\ a + 1 =< c
        BY <1>2, <1>6
      <4> QED BY <4>1
    <3> QED BY <1>1, <3>1
  <2>2. x % Channels = IF x < Channels THEN x ELSE x - Channels
    BY <2>1, Wraps, Zenon
  <2> QED BY <1>1, <1>2, <1>6, <2>1, <2>2
<1>9. PICK b \in Nat : b = (start + k + 1) % Channels /\ b = IF start + k + 1 < c THEN start + k + 1 ELSE start + k + 1 - c
  BY <1>2, <1>4
<1>10. (b + 1) % Channels = IF b + 1 < c THEN b + 1 ELSE b + 1 - c
  <2>1. PICK x \in Nat : x = b + 1 /\ x < 2 * Channels
    BY <1>1, <1>2, <1>9
  <2>2. x % Channels = IF x < Channels THEN x ELSE x - Channels
    BY <2>1, Wraps, Zenon
  <2> QED BY <1>1, <1>2, <1>9, <2>1, <2>2
<1>11. (start + a) % Channels = b
  BY <1>1, <1>2, <1>6, <1>7, <1>9
<1>12. (start + a + 1) % Channels = (b + 1) % Channels
  BY <1>1, <1>2, <1>6, <1>8, <1>9, <1>10
<1> QED BY <1>5, <1>6, <1>9, <1>11, <1>12

\* What InTurn is about, and the rest.
AdcSame(s, t) ==
  /\ DOMAIN t = AdcFields /\ t.start = s.start /\ t.x = s.x /\ t.enc = s.enc /\ t.conseq = s.conseq
  /\ t.done = s.done

LEMMA SameInTurn ==
  ASSUME NEW s, InTurn(s), NEW t, AdcSame(s, t), t.st = "CONVERT" => t.sample = t.x
  PROVE  InTurn(t)
BY DEF InTurn, AdcState, AdcSame

LEMMA SetStates ==
  ASSUME NEW s, InTurn(s), NEW st, st # "CONVERT"
  PROVE  InTurn(A!SetState(s, st)) /\ A!SetState(s, st).st = st /\ A!SetState(s, st).enc = s.enc
<1> DEFINE t == A!SetState(s, st)
<1>1. DOMAIN s = AdcFields
  BY DEF InTurn, AdcState
<1>2. AdcSame(s, t) /\ t.st = st
  BY <1>1 DEF AdcSame, AdcFields, A!SetState
<1> HIDE DEF t
<1>3. InTurn(t) /\ t.st = st /\ t.enc = s.enc
  BY <1>2, SameInTurn DEF AdcSame
<1> QED BY <1>3 DEF t

LEMMA Samples ==
  ASSUME NEW s, InTurn(s)
  PROVE  InTurn(A!Sample(s)) /\ A!Sample(s).enc = s.enc
<1> DEFINE t == A!Sample(s)
<1>1. DOMAIN s = AdcFields
  BY DEF InTurn, AdcState
<1>2. AdcSame(s, t) /\ t.sample = s.x
  BY <1>1 DEF AdcSame, AdcFields, A!SetState, A!Sample
<1> HIDE DEF t
<1>3. InTurn(t) /\ t.enc = s.enc
  BY <1>2, SameInTurn DEF AdcSame
<1> QED BY <1>3 DEF t

LEMMA Continues ==
  ASSUME NEW s, InTurn(s)
  PROVE  InTurn(A!Continue(s)) /\ A!Continue(s).enc = s.enc
BY SetStates DEF A!Continue

LEMMA Finishes ==
  ASSUME NEW s, InTurn([s EXCEPT !.enc = FALSE]), DOMAIN s = AdcFields
  PROVE  AdcInv(A!Finish(s))
<1> DEFINE f == [s EXCEPT !.enc = FALSE]
           t == A!Finish(s)
<1>1. AdcSame(f, t) /\ t.st = "WAIT_ENABLE"
  BY DEF AdcSame, AdcFields, A!SetState, A!Finish
<1> HIDE DEF t, f
<1>2. InTurn(f)
  BY DEF f
<1>3. AdcInv(t)
  BY <1>1, <1>2, SameInTurn DEF AdcInv
<1> QED BY <1>3 DEF t

LEMMA Stores ==
  ASSUME NEW s, InTurn(s), s.enc, s.st = "CONVERT"
  PROVE  AdcInv(A!Store(s))
<1> DEFINE done == [x |-> s.x, sample |-> s.sample, k |-> (s.done.k + 1) % Channels]
           n == A!CheckIfg([A!SetState(s, "STORE") EXCEPT !.ifg = @ \cup {s.x}, !.done = done])
           single == s.conseq \in {A!SINGLE, A!REPEAT}
           k == s.done.k
<1>1. /\ DOMAIN s = AdcFields /\ s.start \in A!Memories /\ s.x \in A!Memories /\ k \in A!Memories
      /\ s.enc \in BOOLEAN /\ s.conseq \in 0..3 /\ s.sample = s.x
      /\ s.x = IF single THEN s.start ELSE (s.start + k + 1) % Channels
  BY DEF InTurn, AdcState
<1>2. /\ DOMAIN n = AdcFields /\ n.start = s.start /\ n.x = s.x /\ n.enc = s.enc /\ n.conseq = s.conseq
      /\ n.done = done /\ n.st = "STORE"
  BY <1>1 DEF AdcFields, A!SetState, A!CheckIfg
<1>3. done.x = s.x /\ done.sample = s.x /\ done.k = (k + 1) % Channels
  BY <1>1
<1>4. done.k \in A!Memories /\ done.x = IF single THEN s.start ELSE (s.start + done.k) % Channels
  BY <1>1, <1>3, NextPlace
<1>5. A!Store(s) = CASE s.conseq = A!SINGLE -> A!Finish(n)
                     [] s.conseq = A!SEQ -> IF s.x \in s.eos THEN A!Finish(n) ELSE A!Advance(n)
                     [] s.conseq = A!REPEAT -> A!Continue(n)
                     [] OTHER -> A!Advance(n)
  BY Zenon DEF A!Store
<1> HIDE DEF n, done
<1>6. AdcInv(A!Finish(n))
  <2> DEFINE f == [n EXCEPT !.enc = FALSE]
  <2>1. /\ DOMAIN f = AdcFields /\ f.start = s.start /\ f.x = s.x /\ f.enc = FALSE /\ f.conseq = s.conseq
        /\ f.done = done /\ f.st = "STORE"
    BY <1>2 DEF AdcFields
  <2> HIDE DEF f
  <2>2. InTurn(f)
    BY <1>1, <1>3, <1>4, <2>1 DEF InTurn, AdcState
  <2> QED BY <1>2, <2>2, Finishes DEF f
<1>7. ASSUME single
      PROVE  AdcInv(A!Continue(n))
  <2>1. InTurn(n)
    BY <1>1, <1>2, <1>3, <1>4, <1>7 DEF InTurn, AdcState
  <2> QED BY <1>2, <2>1, Continues DEF AdcInv
<1>8. ASSUME ~ single
      PROVE  AdcInv(A!Advance(n))
  <2> DEFINE a == [n EXCEPT !.x = (n.x + 1) % Channels]
  <2>1. /\ DOMAIN a = AdcFields /\ a.start = s.start /\ a.x = (s.x + 1) % Channels /\ a.enc = s.enc
        /\ a.conseq = s.conseq /\ a.done = done /\ a.st = "STORE"
    BY <1>2 DEF AdcFields
  <2> HIDE DEF a
  <2>2. (s.x + 1) % Channels = (s.start + done.k + 1) % Channels
    BY <1>1, <1>3, <1>8, NextPlace
  <2>3. (s.x + 1) % Channels \in A!Memories
    BY <1>1, NextPlace
  <2>4. InTurn(a)
    BY <1>1, <1>3, <1>4, <1>8, <2>1, <2>2, <2>3 DEF InTurn, AdcState
  <2>5. A!Advance(n) = A!Continue(a)
    BY DEF A!Advance, a
  <2> QED BY <2>1, <2>4, <2>5, Continues DEF AdcInv
<1>9. (s.conseq = A!SINGLE \/ s.conseq = A!REPEAT) <=> single
  OBVIOUS
<1> HIDE DEF single
<1> QED BY <1>1, <1>5, <1>6, <1>7, <1>8, <1>9 DEF A!SINGLE, A!SEQ, A!REPEAT

LEMMA Converts ==
  ASSUME NEW s, InTurn(s), NEW samples
  PROVE  AdcInv(A!Convert(s, samples))
<1>1. AdcInv(A!SetState(s, "WAIT_ENABLE"))
  BY SetStates DEF AdcInv
<1>2. CASE s.st \in {"OFF", "WAIT_ENABLE"}
  <2>1. A!Convert(s, samples) = A!Enable(s)
    BY <1>2 DEF A!Convert
  <2> QED BY <1>1, <2>1, SetStates DEF A!Enable, AdcInv
<1>3. CASE s.st \notin {"OFF", "WAIT_ENABLE"} /\ ~ s.enc
  BY <1>1, <1>3 DEF A!Convert
<1>4. CASE s.st \notin {"OFF", "WAIT_ENABLE"} /\ s.enc
  <2>1. AdcInv(s)
    BY <1>4 DEF AdcInv
  <2>2. AdcInv(A!Sample(s)) /\ AdcInv(A!SetState(s, "SAMPLE"))
    BY <1>4, Samples, SetStates DEF AdcInv
  <2>3. s.st = "CONVERT" => AdcInv(A!Store(s))
    BY <1>4, Stores
  <2> QED BY <1>4, <2>1, <2>2, <2>3 DEF A!Convert
<1> QED BY <1>2, <1>3, <1>4

LEMMA AdcTurn == ASSUME NEW s, InTurn(s), A!EndTurn(s) PROVE AdcInv(m')
<1>1. PICK ticks \in AdcTicks : m' = A!StartInterrupt(A!AdcUpdate(s, ticks))
  BY DEF A!EndTurn
<1> DEFINE u == A!AdcUpdate(s, ticks)
<1>2. AdcInv(u)
  <2>1. CASE ~ s.on
    BY <2>1, SetStates DEF A!AdcUpdate, AdcInv
  <2>2. CASE s.on
    <3>1. ASSUME NEW sht, NEW since, NEW samples
          PROVE  AdcInv(A!Convert([s EXCEPT !.sht = sht, !.since = since], samples))
      <4> DEFINE t == [s EXCEPT !.sht = sht, !.since = since]
      <4>1. AdcSame(s, t) /\ t.st = s.st /\ t.sample = s.sample
        BY DEF InTurn, AdcState, AdcSame, AdcFields
      <4> HIDE DEF t
      <4>2. s.st = "CONVERT" => s.sample = s.x
        BY DEF InTurn
      <4>3. t.st = "CONVERT" => t.sample = t.x
        BY <4>1, <4>2 DEF AdcSame
      <4>4. InTurn(t)
        BY <4>1, <4>3, SameInTurn
      <4>5. AdcInv(A!Convert(t, samples))
        BY <4>4, Converts
      <4> QED BY <4>5 DEF t
    <3> QED BY <2>2, <3>1, Zenon DEF A!AdcUpdate
  <2> QED BY <2>1, <2>2
<1> HIDE DEF u
<1>3. m' = A!StartInterrupt(u)
  BY <1>1 DEF u
<1>4. AdcSame(u, m') /\ m'.st = u.st /\ m'.sample = u.sample
  BY <1>2, <1>3 DEF AdcInv, InTurn, AdcState, AdcSame, AdcFields, A!StartInterrupt
<1>5. u.st = "CONVERT" => u.sample = u.x
  BY <1>2 DEF AdcInv, InTurn
<1>6. m'.st = "CONVERT" => m'.sample = m'.x
  BY <1>4, <1>5 DEF AdcSame
<1>7. InTurn(m')
  BY <1>2, <1>4, <1>6, SameInTurn DEF AdcInv
<1> QED BY <1>2, <1>4, <1>7 DEF AdcInv, AdcSame

LEMMA InitAdc == A!AdcInit => AdcInv(m)
<1> SUFFICES ASSUME A!AdcInit
             PROVE  AdcInv(m)
  OBVIOUS
<1>1. 0 \in A!Memories /\ Channels - 1 \in A!Memories
  BY ChannelAssumption DEF A!Memories
<1>2. /\ DOMAIN m = AdcFields /\ m.start = 0 /\ m.x = 0 /\ m.enc = FALSE /\ m.st = "OFF" /\ m.done = A!None
      /\ m.conseq \in 0..3
  BY DEF A!AdcInit, AdcFields, A!SINGLE, A!REPEAT_SEQ
<1>3. A!None.k \in A!Memories
  BY <1>1 DEF A!None
<1>4. 0 = IF m.conseq \in {A!SINGLE, A!REPEAT} THEN m.start ELSE 0
  BY <1>2
<1> QED BY <1>1, <1>2, <1>3, <1>4 DEF AdcInv, InTurn, AdcState

LEMMA NextAdc == AdcInv(m) /\ A!AdcNext => AdcInv(m')
<1> SUFFICES ASSUME AdcInv(m), A!AdcNext
             PROVE  AdcInv(m')
  OBVIOUS
<1>1. InTurn(m) /\ DOMAIN m = AdcFields /\ AdcState(m)
  BY DEF AdcInv, InTurn, AdcState
<1> DEFINE Same(t) == AdcSame(m, t) /\ t.st = m.st /\ t.sample = m.sample
<1>2. \A t : Same(t) => InTurn(t)
  <2>1. m.st = "CONVERT" => m.sample = m.x
    BY <1>1 DEF InTurn
  <2> QED BY <1>1, <2>1, SameInTurn DEF AdcSame
<1>3. CASE A!Nop
  BY <1>1, <1>3, AdcTurn DEF A!Nop
<1>4. CASE A!Write0
  <2>1. PICK on \in BOOLEAN, enc \in BOOLEAN, sc \in BOOLEAN :
          A!EndTurn([A!WriteCtl0(m, on, enc, sc) EXCEPT !.starts = IF enc /\ ~ m.enc THEN @ + 1 ELSE @])
    BY <1>4 DEF A!Write0
  <2> DEFINE w == A!WriteCtl0(m, on, enc, sc)
             t == [w EXCEPT !.starts = IF enc /\ ~ m.enc THEN @ + 1 ELSE @]
  <2>2. InTurn(t)
    <3>1. CASE m.enc
      <4>1. DOMAIN w = AdcFields /\ w.start = m.start /\ w.x = m.x /\ w.enc = enc /\ w.conseq = m.conseq
            /\ w.done = m.done /\ w.st = m.st /\ w.sample = m.sample
        BY <1>1, <3>1 DEF A!WriteCtl0, AdcFields
      <4> HIDE DEF w
      <4>2. DOMAIN t = AdcFields /\ t.start = m.start /\ t.x = m.x /\ t.enc = enc /\ t.conseq = m.conseq
            /\ t.done = m.done /\ t.st = m.st /\ t.sample = m.sample
        BY <4>1 DEF AdcFields
      <4> HIDE DEF t
      <4> QED BY <1>1, <3>1, <4>2 DEF InTurn, AdcState
    <3>2. CASE ~ m.enc /\ ~ enc
      <4>1. AdcSame(m, w) /\ w.st = m.st /\ w.sample = m.sample
        BY <1>1, <3>2 DEF A!WriteCtl0, AdcFields, AdcSame, AdcState
      <4> HIDE DEF w
      <4>2. Same(t)
        BY <4>1 DEF AdcSame, AdcFields
      <4> QED BY <1>2, <4>2
    <3>3. CASE ~ m.enc /\ enc
      <4>1. DOMAIN w = AdcFields /\ w.start = m.start /\ w.x = m.start /\ w.enc = TRUE /\ w.conseq = m.conseq
            /\ w.done = A!None /\ w.st = m.st
        BY <1>1, <3>3 DEF A!WriteCtl0, AdcFields
      <4> HIDE DEF w
      <4>2. DOMAIN t = AdcFields /\ t.start = m.start /\ t.x = m.start /\ t.enc = TRUE /\ t.conseq = m.conseq
            /\ t.done = A!None /\ t.st = m.st
        BY <4>1 DEF AdcFields
      <4> HIDE DEF t
      <4>3. t.st # "CONVERT"
        BY <3>3, <4>2 DEF AdcInv
      <4>4. A!None.k = Channels - 1 /\ Channels - 1 \in A!Memories
        BY ChannelAssumption DEF A!None, A!Memories
      <4>5. (m.start + (Channels - 1) + 1) % Channels = m.start
        <5>1. m.start \in Nat /\ m.start < Channels
          BY <1>1, ChannelAssumption DEF AdcState, A!Memories
        <5>2. m.start + (Channels - 1) + 1 = m.start + Channels
          BY <5>1, ChannelAssumption
        <5> QED BY <5>1, <5>2, ChannelAssumption, Wraps
      <4> QED BY <1>1, <4>2, <4>3, <4>4, <4>5 DEF InTurn, AdcState
    <3> QED BY <3>1, <3>2, <3>3
  <2> QED BY <2>1, <2>2, AdcTurn
<1>5. CASE A!SetUp
  <2>1. PICK start \in A!Memories, last \in A!Memories : ~ m.enc /\ A!EndTurn(A!Configure(m, m.conseq, start, {last}))
    BY <1>5 DEF A!SetUp
  <2> DEFINE t == A!Configure(m, m.conseq, start, {last})
  <2>2. /\ DOMAIN t = AdcFields /\ t.start = start /\ t.x = m.x /\ t.enc = m.enc /\ t.conseq = m.conseq
        /\ t.done = A!None /\ t.st = m.st
    BY <1>1, <2>1 DEF A!Configure, AdcFields
  <2> HIDE DEF t
  <2>3. m.st # "CONVERT" /\ A!None.k \in A!Memories
    BY <2>1, ChannelAssumption DEF AdcInv, A!None, A!Memories
  <2>4. InTurn(t)
    BY <1>1, <2>1, <2>2, <2>3 DEF InTurn, AdcState
  <2> QED BY <2>1, <2>4, AdcTurn DEF t
<1>6. CASE A!Read
  <2>1. \A x : Same(A!ReadMem(m, x))
    BY <1>1 DEF A!ReadMem, AdcSame, AdcFields
  <2> HIDE DEF Same
  <2> QED BY <1>2, <1>6, <2>1, AdcTurn DEF A!Read
<1>7. CASE A!Allow
  <2>1. \A ie : Same(A!WriteIe(m, ie))
    BY <1>1 DEF A!WriteIe, AdcSame, AdcFields
  <2> HIDE DEF Same
  <2> QED BY <1>2, <1>7, <2>1, AdcTurn DEF A!Allow
<1>8. CASE A!Return
  <2>1. Same(A!CheckIfg([m EXCEPT !.isr = FALSE]))
    BY <1>1 DEF A!CheckIfg, AdcSame, AdcFields
  <2> HIDE DEF Same
  <2> QED BY <1>2, <1>8, <2>1, AdcTurn DEF A!Return
<1> QED BY <1>3, <1>4, <1>5, <1>6, <1>7, <1>8 DEF A!AdcNext

LEMMA AdcKeeps == AdcInv(m) => A!ConvertsInOrder
BY DEF AdcInv, InTurn, A!ConvertsInOrder

-----------------------------------------------------------------------------
(* The ports: an input is at the level of its line unless the line moved      *)
(* while it was an output, and so the flags tell of the edges.                *)

PortFields ==
  {"kind", "settings", "regs", "wrote", "out", "dir", "sel", "in", "ie", "ies", "ifg", "outup", "posted", "isr",
   "line", "seen", "late", "edges", "odd", "blind"}

\* What an instruction leaves, before the devices of the board have seen it.
PortTurn(s) ==
  /\ DOMAIN s = PortFields
  /\ s.kind = "port1" => \A pin \in Pins \ s.odd : pin \in s.ifg <=> pin \in s.edges
  /\ \A pin \in Pins \ s.blind : pin \in s.in <=> pin \in s.line
  /\ s.outup = {} => s.seen = s.out
  /\ s.kind = "avr" => \A addr \in D!Addresses : D!AvrRead(s, addr) = s.wrote[addr]
  /\ DOMAIN s.regs = 0..20 /\ DOMAIN s.wrote = D!Addresses
PortInv(s) == PortTurn(s) /\ s.outup = {}

\* Each address has a register of its own.
LEMMA Indexes ==
  ASSUME NEW addr \in D!Addresses
  PROVE  /\ D!IndexOf(addr) \in 0..20
         /\ D!IsInput(addr) <=> addr \in D!PinOf
         /\ D!IndexOf(addr) = IF addr = 32 THEN 15 ELSE IF addr < 36 THEN addr - 33
                              ELSE IF addr < 60 THEN addr - 45 ELSE addr - 81
<1>1. addr \in 32..35 \/ addr \in 48..59 \/ addr \in 97..101
  BY DEF D!Addresses
<1>2. D!IndexOf(addr) = IF addr = 32 THEN 15 ELSE IF addr < 36 THEN addr - 33
                        ELSE IF addr < 60 THEN addr - 45 ELSE addr - 81
  <2>1. CASE addr \in 32..35
    BY <2>1 DEF D!IndexOf
  <2>2. CASE addr \in 48..59
    BY <2>2 DEF D!IndexOf
  <2>3. CASE addr \in 97..101
    BY <2>3 DEF D!IndexOf
  <2> QED BY <1>1, <2>1, <2>2, <2>3
<1>3. D!IndexOf(addr) \in 0..20
  BY <1>1, <1>2
<1>4. D!IsInput(addr) <=> addr \in D!PinOf
  BY <1>1, <1>2 DEF D!IsInput, D!PinOf
<1> QED BY <1>2, <1>3, <1>4

LEMMA OneIndex ==
  ASSUME NEW a \in D!Addresses, NEW b \in D!Addresses, D!IndexOf(a) = D!IndexOf(b)
  PROVE  a = b
<1>1. a \in 32..35 \/ a \in 48..59 \/ a \in 97..101
  BY DEF D!Addresses
<1>2. b \in 32..35 \/ b \in 48..59 \/ b \in 97..101
  BY DEF D!Addresses
<1> QED BY <1>1, <1>2, Indexes

LEMMA PortDrives ==
  ASSUME NEW s, PortTurn(s), NEW pins \in SUBSET Pins
  PROVE  PortTurn(D!Drive(s, pins)) /\ D!Drive(s, pins).out = s.out /\ D!Drive(s, pins).seen = s.seen
<1> DEFINE ifg == IF s.kind = "port1" THEN D!Edges(s, pins \ s.line, pins) ELSE {}
           w == D!DevWrite(s, pins \ s.line, pins)
           t == D!Drive(s, pins)
<1>1. DOMAIN s = PortFields
  BY DEF PortTurn
<1>2. /\ DOMAIN w = PortFields /\ w.in = (s.in \ pins) \cup ((pins \ s.line) \ s.dir) /\ w.ifg = s.ifg \cup ifg
      /\ \A x \in PortFields \ {"in", "ifg", "posted"} : w[x] = s[x]
  <2>1. w = [s EXCEPT !.in = (s.in \ pins) \cup (((pins \ s.line) \cap pins) \ s.dir),
                      !.ifg = s.ifg \cup ifg, !.posted = s.posted \/ s.ie \cap ifg # {}]
    BY Zenon DEF D!DevWrite
  <2>2. (pins \ s.line) \cap pins = pins \ s.line
    OBVIOUS
  <2> HIDE DEF w, ifg
  <2>3. w.in = (s.in \ pins) \cup (((pins \ s.line) \cap pins) \ s.dir) /\ w.ifg = s.ifg \cup ifg
    BY <1>1, <2>1 DEF PortFields
  <2>4. DOMAIN w = PortFields
    BY <1>1, <2>1, Zenon
  <2>5. \A x \in PortFields \ {"in", "ifg", "posted"} : w[x] = s[x]
    BY <1>1, <2>1 DEF PortFields
  <2> QED BY <2>2, <2>3, <2>4, <2>5
<1>3. /\ w.line = s.line /\ w.blind = s.blind /\ w.odd = s.odd /\ w.edges = s.edges /\ w.kind = s.kind
      /\ w.out = s.out /\ w.seen = s.seen /\ w.outup = s.outup /\ w.regs = s.regs /\ w.wrote = s.wrote
  BY <1>2 DEF PortFields
<1> HIDE DEF w
<1>4. t = [w EXCEPT !.line = D!Differ(s.line, pins), !.blind = (s.blind \ pins) \cup (pins \cap s.dir),
                    !.odd = s.odd \cup (pins \cap (s.dir \cup s.blind)),
                    !.edges = s.edges \cup {pin \in pins : (pin \in s.ies) = (pin \in s.line)}]
  BY <1>2, <1>3 DEF D!Drive, w, PortFields
<1>5. /\ DOMAIN t = PortFields /\ t.line = D!Differ(s.line, pins) /\ t.blind = (s.blind \ pins) \cup (pins \cap s.dir)
      /\ t.odd = s.odd \cup (pins \cap (s.dir \cup s.blind))
      /\ t.edges = s.edges \cup {pin \in pins : (pin \in s.ies) = (pin \in s.line)}
      /\ t.in = w.in /\ t.ifg = w.ifg /\ t.kind = w.kind /\ t.out = w.out /\ t.seen = w.seen /\ t.outup = w.outup
      /\ t.regs = w.regs /\ t.wrote = w.wrote
  BY <1>2, <1>4 DEF PortFields
<1> HIDE DEF t
<1>6. \A pin \in Pins \ t.blind : pin \in t.in <=> pin \in t.line
  <2> SUFFICES ASSUME NEW pin \in Pins, pin \notin t.blind
               PROVE  pin \in t.in <=> pin \in t.line
    OBVIOUS
  <2>1. CASE pin \in pins
    BY <1>2, <1>5, <2>1 DEF D!Differ
  <2>2. CASE pin \notin pins
    <3>1. pin \in s.in <=> pin \in s.line
      BY <1>5, <2>2 DEF PortTurn
    <3> QED BY <1>2, <1>5, <2>2, <3>1 DEF D!Differ
  <2> QED BY <2>1, <2>2
<1>7. t.kind = "port1" => \A pin \in Pins \ t.odd : pin \in t.ifg <=> pin \in t.edges
  <2> SUFFICES ASSUME s.kind = "port1", NEW pin \in Pins, pin \notin t.odd
               PROVE  pin \in t.ifg <=> pin \in t.edges
    BY <1>3, <1>5
  <2>1. pin \in s.ifg <=> pin \in s.edges
    BY <1>5 DEF PortTurn
  <2>2. pin \in ifg <=> pin \in pins /\ ((pin \in s.ies) = (pin \in s.line))
    <3>1. CASE pin \in pins
      <4>1. pin \in s.in <=> pin \in s.line
        BY <1>5, <3>1 DEF PortTurn
      <4> QED BY <3>1, <4>1 DEF D!Edges
    <3>2. CASE pin \notin pins
      BY <3>2 DEF D!Edges
    <3> QED BY <3>1, <3>2
  <2> HIDE DEF ifg
  <2> QED BY <1>2, <1>5, <2>1, <2>2
<1>8. t.outup = {} => t.seen = t.out
  BY <1>3, <1>5 DEF PortTurn
<1>9. t.kind = "avr" => \A addr \in D!Addresses : D!AvrRead(t, addr) = t.wrote[addr]
  BY <1>3, <1>5 DEF PortTurn, D!AvrRead
<1>10. DOMAIN t.regs = 0..20 /\ DOMAIN t.wrote = D!Addresses
  BY <1>3, <1>5 DEF PortTurn
<1>11. PortTurn(t) /\ t.out = s.out /\ t.seen = s.seen
  BY <1>3, <1>5, <1>6, <1>7, <1>8, <1>9, <1>10 DEF PortTurn
<1> QED BY <1>11 DEF t

\* What PortTurn is about.
PortSame(s, t) ==
  /\ DOMAIN t = PortFields /\ t.kind = s.kind /\ t.ifg = s.ifg /\ t.edges = s.edges /\ t.odd = s.odd
  /\ t.in = s.in /\ t.line = s.line /\ t.blind = s.blind /\ t.regs = s.regs /\ t.wrote = s.wrote
  /\ t.out = s.out

LEMMA SamePort ==
  ASSUME NEW s, PortTurn(s), NEW t, PortSame(s, t), t.outup = {} => t.seen = t.out
  PROVE  PortTurn(t)
BY DEF PortTurn, PortSame, D!AvrRead

LEMMA PortEnds == ASSUME NEW s, PortTurn(s), D!Turn(s) PROVE PortInv(m')
<1>1. PICK pins \in SUBSET Pins : m' = D!StartInterrupt(D!UpdateDone(D!Drive(D!DevRead(s), pins)))
  BY DEF D!Turn, D!EndTurn
<1> DEFINE r == D!DevRead(s)
           d == D!Drive(r, pins)
           u == D!UpdateDone(d)
<1>2. PortTurn(r) /\ r.seen = r.out
  <2>1. PortSame(s, r) /\ r.seen = r.out
    BY DEF PortTurn, PortSame, PortFields, D!DevRead
  <2> HIDE DEF r
  <2> QED BY <2>1, SamePort
<1> HIDE DEF r
<1>3. PortTurn(d) /\ d.seen = d.out
  BY <1>2, PortDrives
<1> HIDE DEF d
<1>4. PortSame(d, u) /\ u.seen = u.out /\ u.outup = {}
  BY <1>3 DEF PortTurn, PortSame, PortFields, D!UpdateDone
<1> HIDE DEF u
<1>5. PortTurn(u)
  BY <1>3, <1>4, SamePort
<1>6. m' = D!StartInterrupt(u)
  BY <1>1 DEF r, d, u
<1>7. PortSame(u, m') /\ m'.seen = m'.out /\ m'.outup = {}
  BY <1>4, <1>5, <1>6 DEF PortTurn, PortSame, PortFields, D!StartInterrupt
<1> QED BY <1>5, <1>7, SamePort DEF PortInv

LEMMA InitPorts == D!PortInit => PortInv(m)
<1> SUFFICES ASSUME D!PortInit
             PROVE  PortInv(m)
  OBVIOUS
<1>1. /\ DOMAIN m = PortFields /\ m.regs = D!AvrReset /\ m.wrote = [a \in D!Addresses |-> 0]
      /\ m.in = {} /\ m.line = {} /\ m.ifg = {} /\ m.edges = {} /\ m.outup = {} /\ m.seen = {} /\ m.out = {}
  BY DEF D!PortInit, PortFields
<1>2. \A addr \in D!Addresses : D!AvrRead(m, addr) = m.wrote[addr]
  BY <1>1, Indexes DEF D!AvrRead, D!AvrReset
<1> QED BY <1>1, <1>2 DEF PortInv, PortTurn, D!AvrReset

LEMMA NextPorts == PortInv(m) /\ D!PortNext => PortInv(m')
<1> SUFFICES ASSUME PortInv(m), D!PortNext
             PROVE  PortInv(m')
  OBVIOUS
<1>1. PortTurn(m) /\ DOMAIN m = PortFields /\ m.outup = {} /\ m.seen = m.out
  BY DEF PortInv, PortTurn
<1>2. CASE D!PortNop
  BY <1>1, <1>2, PortEnds DEF D!PortNop
<1>3. CASE D!SetUpPort
  <2> DEFINE Set(val, w) ==
        CASE w = 1 -> D!WriteDir(m, val) [] w = 2 -> D!WriteSel(m, val) [] w = 3 -> D!WriteIes(m, val)
          [] w = 4 -> D!WriteIe(m, val) [] OTHER -> D!Reset(m)
  <2>1. PICK val \in SUBSET Pins, w \in {1, 2, 3, 4, 5} : D!Turn([Set(val, w) EXCEPT !.settings = @ + 1])
    BY <1>3 DEF D!SetUpPort
  <2>2. PortSame(m, Set(val, w)) /\ Set(val, w).outup = {} /\ Set(val, w).seen = Set(val, w).out
    <3> DEFINE Good(t) == PortSame(m, t) /\ t.outup = {} /\ t.seen = t.out
    <3>1. Good(D!WriteDir(m, val))
      BY <1>1 DEF D!WriteDir, PortSame, PortFields
    <3>2. Good(D!WriteSel(m, val))
      BY <1>1 DEF D!WriteSel, PortSame, PortFields
    <3>3. Good(D!WriteIes(m, val))
      BY <1>1 DEF D!WriteIes, PortSame, PortFields
    <3>4. Good(D!WriteIe(m, val))
      BY <1>1 DEF D!WriteIe, PortSame, PortFields
    <3>5. Good(D!Reset(m))
      BY <1>1 DEF D!Reset, PortSame, PortFields
    <3> HIDE DEF Good
    <3>6. Good(Set(val, w))
      BY <3>1, <3>2, <3>3, <3>4, <3>5
    <3> QED BY <3>6 DEF Good
  <2> DEFINE s == Set(val, w)
             t == [s EXCEPT !.settings = @ + 1]
  <2> HIDE DEF Set
  <2>3. PortSame(m, t) /\ t.outup = {} /\ t.seen = t.out
    BY <2>2 DEF PortSame, PortFields
  <2> HIDE DEF s
  <2>4. PortTurn(t)
    BY <1>1, <2>3, SamePort
  <2>5. D!Turn(t)
    BY <2>1 DEF s
  <2> QED BY <2>4, <2>5, PortEnds
<1>4. CASE D!Output
  <2>1. PICK val \in SUBSET Pins : D!Turn(D!WriteOut(m, val))
    BY <1>4 DEF D!Output
  <2> DEFINE out == val \ m.sel
             t == D!WriteOut(m, val)
  <2>2. /\ DOMAIN t = PortFields /\ t.out = out /\ t.outup = D!Differ(m.out, out) /\ t.seen = m.seen
        /\ t.kind = m.kind /\ t.ifg = m.ifg /\ t.edges = m.edges /\ t.odd = m.odd
        /\ t.in = m.in /\ t.line = m.line /\ t.blind = m.blind /\ t.regs = m.regs /\ t.wrote = m.wrote
    BY <1>1 DEF PortFields, D!WriteOut
  <2>3. D!Differ(m.out, out) = {} => m.out = out
    BY DEF D!Differ
  <2> HIDE DEF out, t
  <2>4. PortTurn(t)
    BY <1>1, <2>2, <2>3 DEF PortTurn, D!AvrRead
  <2> QED BY <2>1, <2>4, PortEnds DEF t
<1>5. ASSUME NEW val, m.kind = "port1" PROVE PortTurn(D!WriteIfg(m, val))
  <2> DEFINE t == D!WriteIfg(m, val)
  <2>1. /\ DOMAIN t = PortFields /\ t.out = m.out /\ t.outup = m.outup /\ t.seen = m.seen
        /\ t.kind = m.kind /\ t.ifg = val /\ t.edges = m.edges \cap val
        /\ t.odd = (m.odd \cup (val \ m.ifg)) \cap val
        /\ t.in = m.in /\ t.line = m.line /\ t.blind = m.blind /\ t.regs = m.regs /\ t.wrote = m.wrote
    BY <1>1 DEF PortFields, D!WriteIfg
  <2> HIDE DEF t
  <2>2. \A pin \in Pins \ t.odd : pin \in t.ifg <=> pin \in t.edges
    <3>1. \A pin \in Pins \ m.odd : pin \in m.ifg <=> pin \in m.edges
      BY <1>1, <1>5 DEF PortTurn
    <3> QED BY <2>1, <3>1
  <2>3. PortTurn(t)
    BY <1>1, <1>5, <2>1, <2>2 DEF PortTurn, D!AvrRead
  <2> QED BY <2>3 DEF t
<1>6. CASE D!Acknowledge
  BY <1>5, <1>6, PortEnds DEF D!Acknowledge
<1>7. CASE D!SoftInterrupt
  <2>1. PICK val \in SUBSET Pins : m.kind = "port1" /\ D!Turn([D!WriteIfg(m, val) EXCEPT !.settings = @ + 1])
    BY <1>7 DEF D!SoftInterrupt
  <2> DEFINE s == D!WriteIfg(m, val)
             t == [s EXCEPT !.settings = @ + 1]
  <2>2. PortTurn(s)
    BY <1>5, <2>1
  <2> HIDE DEF s
  <2>3. PortSame(s, t) /\ t.outup = s.outup /\ t.seen = s.seen
    BY <2>2 DEF PortTurn, PortSame, PortFields
  <2> HIDE DEF t
  <2>4. PortTurn(t)
    BY <2>2, <2>3, SamePort DEF PortTurn, PortSame
  <2> QED BY <2>1, <2>4, PortEnds DEF s, t
<1>8. CASE D!Return
  <2> DEFINE t == D!CheckIfg([m EXCEPT !.isr = FALSE])
  <2>1. PortSame(m, t) /\ t.outup = {} /\ t.seen = t.out
    BY <1>1 DEF PortSame, PortFields, D!CheckIfg
  <2> HIDE DEF t
  <2>2. PortTurn(t)
    BY <1>1, <2>1, SamePort
  <2> QED BY <1>8, <2>2, PortEnds DEF D!Return, t
<1>9. CASE D!AvrStore
  <2>1. PICK addr \in D!Addresses, val \in 1..2 :
          m' = [D!AvrWrite(m, addr, val) EXCEPT
                  !.settings = @ + 1, !.wrote = IF addr \in D!PinOf THEN @ ELSE [@ EXCEPT ![addr] = val]]
    BY <1>9, Zenon DEF D!AvrStore
  <2>2. m.kind = "avr"
    BY <1>9 DEF D!AvrStore
  <2> DEFINE w == D!AvrWrite(m, addr, val)
             regs == IF addr \in D!PinOf THEN m.regs ELSE [m.regs EXCEPT ![D!IndexOf(addr)] = val]
             wrote == IF addr \in D!PinOf THEN m.wrote ELSE [m.wrote EXCEPT ![addr] = val]
  <2>3. /\ DOMAIN w = PortFields /\ w.regs = regs /\ \A x \in PortFields \ {"regs"} : w[x] = m[x]
    BY <1>1, Indexes DEF PortFields, D!AvrWrite
  <2> HIDE DEF w, regs
  <2>4. w.wrote = m.wrote
    BY <2>3 DEF PortFields
  <2>5. m' = [w EXCEPT !.settings = @ + 1, !.wrote = wrote]
    BY <2>1, <2>4, Zenon DEF w
  <2> HIDE DEF wrote
  <2>6. DOMAIN m' = PortFields /\ m'.wrote = wrote /\ \A x \in PortFields \ {"settings", "wrote"} : m'[x] = w[x]
    BY <2>3, <2>5 DEF PortFields
  <2>7. /\ m'.kind = m.kind /\ m'.ifg = m.ifg /\ m'.edges = m.edges /\ m'.odd = m.odd
        /\ m'.in = m.in /\ m'.line = m.line /\ m'.blind = m.blind /\ m'.outup = m.outup /\ m'.seen = m.seen
        /\ m'.out = m.out /\ m'.regs = regs
    BY <2>3, <2>6 DEF PortFields
  <2>8. DOMAIN m.regs = 0..20 /\ DOMAIN m.wrote = D!Addresses
    BY <1>1 DEF PortTurn
  <2>9. ASSUME NEW a \in D!Addresses PROVE regs[D!IndexOf(a)] = wrote[a]
    <3>1. m.regs[D!IndexOf(a)] = m.wrote[a]
      BY <1>1, <2>2 DEF PortTurn, D!AvrRead
    <3>2. D!IndexOf(a) \in 0..20 /\ D!IndexOf(addr) \in 0..20 /\ (D!IndexOf(a) = D!IndexOf(addr) => a = addr)
      BY Indexes, OneIndex
    <3> QED BY <2>8, <3>1, <3>2 DEF regs, wrote
  <2>10. DOMAIN regs = 0..20 /\ DOMAIN wrote = D!Addresses
    BY <2>8 DEF regs, wrote
  <2> QED BY <1>1, <2>6, <2>7, <2>9, <2>10 DEF PortInv, PortTurn, D!AvrRead
<1>10. CASE D!AvrOver
  BY <1>10 DEF D!AvrOver
<1> QED BY <1>2, <1>3, <1>4, <1>6, <1>7, <1>8, <1>9, <1>10 DEF D!PortNext

LEMMA PortsKeep == PortInv(m) => D!PinsKept
BY DEF PortInv, PortTurn, D!PinsKept

-----------------------------------------------------------------------------
(* The serial port: what was written and what came, against the registers     *)
(* they are in, through the steps of a turn.                                  *)

SerialFields ==
  {"kind", "how", "me", "ie", "ifg", "iv", "trig", "isr", "sets", "swrst", "txbuf", "txfull", "fulldelay",
   "txshift", "txempty", "txready", "txdelay", "rxbuf", "rxfull", "rxshift", "rxempty", "rxready", "rxdelay",
   "oe", "slavedone", "dma", "next", "due", "fed", "came"}

TxPart(s) ==
  /\ s.txfull \in BOOLEAN /\ s.txempty \in BOOLEAN /\ s.txready \in BOOLEAN
  /\ s.due = S!TxInFlight(s)
  /\ s.txready => ~ s.txempty

\* A byte shifted in and not yet delivered: a usart in UART mode keeps what it has
\* delivered until the end of the turn.
Arriving(s) == ~ s.rxempty /\ ~ s.rxready
After(s) == IF Arriving(s) THEN {s.rxshift} ELSE {}
RxPart(s) ==
  /\ s.rxfull \in BOOLEAN /\ s.rxempty \in BOOLEAN /\ s.rxready \in BOOLEAN /\ s.oe \in BOOLEAN
  /\ s.rxbuf \in Nat /\ s.rxshift \in Nat /\ s.fed \in Nat /\ s.came \in SUBSET Nat
  /\ \A b \in s.came : b < s.fed
  /\ s.rxfull => s.rxbuf < s.fed /\ {b \in s.came : b > s.rxbuf} = After(s)
  /\ Arriving(s) => s.rxshift < s.fed /\ (s.rxfull => s.rxbuf < s.rxshift)
  /\ ~ s.rxfull => ~ s.oe /\ s.came = After(s)
  /\ s.rxfull /\ ~ s.oe => s.came = {s.rxbuf} \cup After(s)
  /\ s.rxready => ~ s.rxempty /\ s.kind = "uart"
  /\ ~ S!IsUart(s) /\ ~ s.rxempty => s.rxdelay = 0

\* The DMA is triggered by a register that is free, or that has been filled.
DmaPart(s) ==
  /\ s.how \in {"cpu", "dmatx", "dmarx"}
  /\ s.how = "dmatx" /\ ("tx" \in s.trig \/ s.dma.state = "HOLD") => ~ s.txfull
  /\ s.how = "dmarx" /\ ("rx" \in s.trig \/ s.dma.state = "HOLD") => s.rxfull
IntPart(s) == s.isr = "none" => s.ifg \cap s.ie \subseteq s.iv

SerialTurn(s) ==
  /\ DOMAIN s = SerialFields /\ DOMAIN s.dma = {"state", "en", "sz", "ifg"}
  /\ TxPart(s) /\ RxPart(s) /\ DmaPart(s) /\ IntPart(s)
Quiet(s) == ~ s.txready /\ ~ s.rxready
SerialInv(s) == SerialTurn(s) /\ Quiet(s) /\ s.trig = {}

\* What each part is about.
TxSame(s, t) ==
  /\ t.txfull = s.txfull /\ t.txempty = s.txempty /\ t.txready = s.txready /\ t.due = s.due
  /\ t.txbuf = s.txbuf /\ t.txshift = s.txshift
RxSame(s, t) ==
  /\ t.kind = s.kind /\ t.me = s.me /\ t.rxfull = s.rxfull /\ t.rxempty = s.rxempty /\ t.rxready = s.rxready /\ t.oe = s.oe
  /\ t.rxbuf = s.rxbuf /\ t.rxshift = s.rxshift /\ t.fed = s.fed /\ t.came = s.came /\ t.rxdelay = s.rxdelay
IntSame(s, t) == t.isr = s.isr /\ t.ifg = s.ifg /\ t.ie = s.ie /\ t.iv = s.iv
Formed(s) == DOMAIN s = SerialFields /\ DOMAIN s.dma = {"state", "en", "sz", "ifg"}

LEMMA SameTx == ASSUME NEW s, TxPart(s), NEW t, TxSame(s, t) PROVE TxPart(t)
BY DEF TxPart, TxSame, S!TxInFlight

LEMMA SameRx == ASSUME NEW s, RxPart(s), NEW t, RxSame(s, t) PROVE RxPart(t)
<1>1. After(t) = After(s) /\ Arriving(t) = Arriving(s) /\ S!IsUart(t) = S!IsUart(s)
  BY DEF After, Arriving, RxSame, S!IsUart
<1> QED BY <1>1 DEF RxPart, RxSame

\* At most two bytes are on their way.
LEMMA Two ==
  ASSUME NEW a, NEW b
  PROVE  <<a>> \o <<b>> = <<a, b>> /\ Append(<<a>>, b) = <<a, b>>
<1>1. <<a>> \in Seq({a, b}) /\ <<b>> \in Seq({a, b}) /\ <<a, b>> \in Seq({a, b}) /\ b \in {a, b}
  OBVIOUS
<1>2. \A i \in 1..2 : i = 1 \/ i = 2
  OBVIOUS
<1>3. Len(<<a, b>>) = 2 /\ <<a, b>>[1] = a /\ <<a, b>>[2] = b
  OBVIOUS
<1>4. <<a>> \o <<b>> = <<a, b>>
  <2>1. /\ Len(<<a>> \o <<b>>) = 2 /\ (<<a>> \o <<b>>)[1] = a /\ (<<a>> \o <<b>>)[2] = b
        /\ <<a>> \o <<b>> \in Seq({a, b})
    BY <1>1, ConcatProperties
  <2>2. \A i \in 1..2 : (<<a>> \o <<b>>)[i] = <<a, b>>[i]
    BY <1>2, <1>3, <2>1, Zenon
  <2> QED BY <1>1, <1>3, <2>1, <2>2, SeqEqual
<1>5. Append(<<a>>, b) = <<a, b>>
  <2>1. /\ Len(Append(<<a>>, b)) = 2 /\ Append(<<a>>, b)[1] = a /\ Append(<<a>>, b)[2] = b
        /\ Append(<<a>>, b) \in Seq({a, b})
    BY <1>1
  <2>2. \A i \in 1..2 : Append(<<a>>, b)[i] = <<a, b>>[i]
    BY <1>2, <1>3, <2>1, Zenon
  <2> QED BY <1>1, <1>3, <2>1, <2>2, SeqEqual
<1> QED BY <1>4, <1>5

LEMMA InFlight ==
  ASSUME NEW s
  PROVE  /\ s.txempty /\ ~ s.txfull => S!TxInFlight(s) = <<>>
         /\ ~ s.txempty /\ ~ s.txfull => S!TxInFlight(s) = <<s.txshift>>
         /\ s.txempty /\ s.txfull => S!TxInFlight(s) = <<s.txbuf>>
         /\ ~ s.txempty /\ s.txfull => S!TxInFlight(s) = <<s.txshift, s.txbuf>>
<1>1. <<s.txshift>> \in Seq({s.txshift}) /\ <<s.txbuf>> \in Seq({s.txbuf}) /\ <<>> \in Seq({s.txbuf})
  OBVIOUS
<1>2. /\ <<s.txshift>> \o <<>> = <<s.txshift>> /\ <<>> \o <<s.txbuf>> = <<s.txbuf>>
      /\ <<>> \o <<>> = <<>>
  BY <1>1, ConcatEmptySeq
<1>3. <<s.txshift>> \o <<s.txbuf>> = <<s.txshift, s.txbuf>>
  BY Two
<1> QED BY <1>2, <1>3, Zenon DEF S!TxInFlight

\* A flag raised.
LEMMA Raises ==
  ASSUME NEW s, Formed(s), NEW f, IntPart(s)
  PROVE  LET t == S!Raise(s, f)
         IN  /\ Formed(t) /\ TxSame(s, t) /\ RxSame(s, t) /\ IntPart(t)
             /\ t.how = s.how /\ t.dma = s.dma /\ t.trig \subseteq s.trig \cup {f}
<1> DEFINE n == [s EXCEPT !.ifg = @ \cup {f}]
           t == S!Raise(s, f)
<1>1. Formed(n) /\ n.ifg = s.ifg \cup {f} /\ \A x \in SerialFields \ {"ifg"} : n[x] = s[x]
  BY DEF Formed, SerialFields
<1>2. TxSame(s, n) /\ RxSame(s, n) /\ n.how = s.how /\ n.dma = s.dma /\ n.trig = s.trig
  BY <1>1 DEF TxSame, RxSame, SerialFields
<1>3. n.isr = s.isr /\ n.ie = s.ie /\ n.iv = s.iv
  BY <1>1 DEF SerialFields
<1>4. t = IF f \in s.ie THEN [n EXCEPT !.iv = @ \cup {f}]
          ELSE IF s.kind = "uscib" THEN n ELSE [n EXCEPT !.trig = @ \cup {f}]
  BY Zenon DEF S!Raise
<1> HIDE DEF n, t
<1>5. Formed(t) /\ TxSame(n, t) /\ RxSame(n, t) /\ t.how = n.how /\ t.dma = n.dma
  BY <1>1, <1>4 DEF Formed, TxSame, RxSame, SerialFields
<1>6. t.trig \subseteq s.trig \cup {f}
  BY <1>1, <1>2, <1>4 DEF Formed, SerialFields
<1>7. t.isr = s.isr /\ t.ie = s.ie /\ t.ifg = s.ifg \cup {f} /\ t.iv = IF f \in s.ie THEN s.iv \cup {f} ELSE s.iv
  BY <1>1, <1>3, <1>4 DEF Formed, SerialFields
<1>8. IntPart(t)
  BY <1>7 DEF IntPart
<1>9. TxSame(s, t)
  BY <1>2, <1>5 DEF TxSame
<1>10. RxSame(s, t)
  BY <1>2, <1>5 DEF RxSame
<1> QED BY <1>2, <1>5, <1>6, <1>8, <1>9, <1>10 DEF t

\* The byte written goes to the shift register.
LEMMA Loads ==
  ASSUME NEW s, SerialTurn(s), s.txfull, s.txempty, ~ s.txready
  PROVE  /\ SerialTurn(S!Load(s)) /\ ~ S!Load(s).txready /\ RxSame(s, S!Load(s)) /\ ~ S!Load(s).txempty
<1> DEFINE n == [s EXCEPT !.txshift = s.txbuf, !.txfull = FALSE, !.fulldelay = 0, !.txempty = FALSE,
                  !.txready = FALSE, !.txdelay = IF s.kind = "slave" THEN 0 ELSE ByteTime,
                  !.slavedone = FALSE]
           t == S!Load(s)
<1>1. Formed(s) /\ TxPart(s) /\ RxPart(s) /\ DmaPart(s) /\ IntPart(s)
  BY DEF SerialTurn, Formed
<1>2. Formed(n) /\ IntSame(s, n) /\ RxSame(s, n)
  <2>1. DOMAIN n = DOMAIN s
    BY Zenon
  <2>2. n.dma = s.dma /\ IntSame(s, n)
    BY <1>1 DEF Formed, IntSame, SerialFields
  <2>3. RxSame(s, n)
    BY <1>1 DEF Formed, RxSame, SerialFields
  <2> QED BY <1>1, <2>1, <2>2, <2>3 DEF Formed
<1>3. /\ n.txshift = s.txbuf /\ n.txfull = FALSE /\ n.txempty = FALSE /\ n.txready = FALSE /\ n.due = s.due
      /\ n.how = s.how /\ n.dma = s.dma /\ n.trig = s.trig
  BY <1>1 DEF Formed, SerialFields
<1>4. t = S!Raise(n, "tx")
  BY Zenon DEF S!Load
<1> HIDE DEF n, t
<1>5. IntPart(n)
  BY <1>1, <1>2 DEF IntPart, IntSame
<1>6. /\ Formed(t) /\ TxSame(n, t) /\ RxSame(n, t) /\ IntPart(t)
      /\ t.how = n.how /\ t.dma = n.dma /\ t.trig \subseteq n.trig \cup {"tx"}
  BY <1>2, <1>4, <1>5, Raises
<1>7. TxPart(t)
  <2>1. s.due = <<s.txbuf>>
    BY <1>1, InFlight DEF TxPart
  <2>2. t.txfull = FALSE /\ t.txempty = FALSE /\ t.txready = FALSE /\ t.due = s.due /\ t.txshift = s.txbuf
    BY <1>3, <1>6 DEF TxSame
  <2>3. S!TxInFlight(t) = <<t.txshift>>
    BY <2>2, InFlight
  <2> QED BY <2>1, <2>2, <2>3 DEF TxPart
<1>8. RxSame(s, t)
  BY <1>2, <1>6 DEF RxSame
<1>9. DmaPart(t)
  BY <1>1, <1>3, <1>6, <1>8 DEF DmaPart, TxSame, RxSame
<1>10. SerialTurn(t) /\ ~ t.txready /\ ~ t.txempty
  BY <1>1, <1>3, <1>6, <1>7, <1>8, <1>9, SameRx DEF SerialTurn, Formed, TxSame
<1> QED BY <1>8, <1>10 DEF t

LEMMA TxShifts ==
  ASSUME NEW s, SerialTurn(s), ~ s.txready, NEW ticks
  PROVE  SerialTurn(S!TxShift(s, ticks)) /\ RxSame(s, S!TxShift(s, ticks))
<1> DEFINE t == S!TxShift(s, ticks)
<1>1. Formed(s) /\ TxPart(s) /\ RxPart(s) /\ DmaPart(s) /\ IntPart(s)
  BY DEF SerialTurn, Formed
<1>2. CASE s.txempty
  BY <1>2 DEF S!TxShift, RxSame
<1>3. CASE ~ s.txempty
  <2>1. /\ Formed(t) /\ IntSame(s, t) /\ RxSame(s, t) /\ t.how = s.how /\ t.dma = s.dma /\ t.trig = s.trig
    BY <1>1, <1>3 DEF Formed, SerialFields, IntSame, RxSame, S!TxShift
  <2>2. /\ t.txfull = s.txfull /\ t.txempty = s.txempty /\ t.due = s.due
        /\ t.txbuf = s.txbuf /\ t.txshift = s.txshift /\ t.txready = (s.txready \/ s.txdelay <= ticks)
    BY <1>1, <1>3 DEF Formed, SerialFields, S!TxShift
  <2> HIDE DEF t
  <2>3. TxPart(t)
    <3>1. S!TxInFlight(t) = S!TxInFlight(s)
      BY <2>2 DEF S!TxInFlight
    <3> QED BY <1>1, <1>3, <2>2, <3>1 DEF TxPart
  <2>4. DmaPart(t)
    BY <1>1, <2>1, <2>2 DEF DmaPart, RxSame
  <2>5. IntPart(t)
    BY <1>1, <2>1 DEF IntPart, IntSame
  <2>6. SerialTurn(t)
    BY <1>1, <2>1, <2>3, <2>4, <2>5, SameRx DEF SerialTurn, Formed
  <2> QED BY <2>1, <2>6 DEF t
<1> QED BY <1>1, <1>2, <1>3 DEF TxPart

\* The byte received, read or not the one before it.
LEMMA Delivers ==
  ASSUME NEW s, SerialTurn(s), ~ s.rxready, NEW ticks \in Nat
  PROVE  LET t == S!RxDeliver(S!RxShift(s, ticks))
         IN  /\ SerialTurn(t) /\ TxSame(s, t) /\ t.kind = s.kind /\ t.me = s.me
             /\ ~ S!IsUart(s) => t.rxempty
<1> DEFINE a == S!RxShift(s, ticks)
           t == S!RxDeliver(a)
<1>1. Formed(s) /\ TxPart(s) /\ RxPart(s) /\ DmaPart(s) /\ IntPart(s)
  BY DEF SerialTurn, Formed
<1>2. CASE s.rxempty
  <2>1. a = s
    BY <1>2 DEF S!RxShift
  <2>2. t = s
    BY <2>1 DEF S!RxDeliver
  <2> QED BY <1>2, <2>2 DEF TxSame
<1>3. CASE ~ s.rxempty
  <2> DEFINE ready == s.rxdelay <= ticks
  <2>1. /\ Formed(a) /\ IntSame(s, a) /\ TxSame(s, a) /\ a.how = s.how /\ a.dma = s.dma /\ a.trig = s.trig
    BY <1>1, <1>3 DEF Formed, SerialFields, IntSame, TxSame, S!RxShift
  <2>2. /\ a.kind = s.kind /\ a.me = s.me /\ a.rxfull = s.rxfull /\ a.rxempty = s.rxempty /\ a.oe = s.oe
        /\ a.rxbuf = s.rxbuf /\ a.rxshift = s.rxshift /\ a.fed = s.fed /\ a.came = s.came
        /\ a.rxdelay = S!Sub(s.rxdelay, ticks)
    BY <1>1, <1>3 DEF Formed, SerialFields, S!RxShift
  <2>3. a.rxready = ready
    BY <1>1, <1>3 DEF Formed, SerialFields, S!RxShift
  <2>4. ~ S!IsUart(s) => ready
    BY <1>1, <1>3 DEF RxPart
  <2> HIDE DEF a
  <2>5. TxPart(a) /\ IntPart(a)
    BY <1>1, <2>1, SameTx DEF IntPart, IntSame
  <2>6. Arriving(s)
    BY <1>3 DEF Arriving
  <2>7. CASE ~ ready
    <3>1. t = a
      BY <2>3, <2>7 DEF S!RxDeliver
    <3>2. RxPart(a)
      <4>1. After(a) = After(s) /\ Arriving(a) = Arriving(s) /\ S!IsUart(a) = S!IsUart(s) /\ a.rxready = s.rxready
        BY <1>1, <2>2, <2>3, <2>7 DEF After, Arriving, S!IsUart, RxPart
      <4> QED BY <1>1, <1>3, <2>2, <2>3, <2>4, <2>7, <4>1 DEF RxPart
    <3>3. DmaPart(a)
      BY <1>1, <2>1, <2>2 DEF DmaPart, TxSame
    <3>4. SerialTurn(a)
      BY <2>1, <2>5, <3>2, <3>3 DEF SerialTurn, Formed
    <3>5. S!IsUart(s)
      BY <2>4, <2>7
    <3>6. SerialTurn(t) /\ TxSame(s, t) /\ t.kind = s.kind /\ t.me = s.me
      BY <2>1, <2>2, <3>1, <3>4
    <3> QED BY <3>5, <3>6 DEF a
  <2>8. CASE ready
    <3> DEFINE n == [a EXCEPT !.oe = @ \/ a.rxfull, !.rxbuf = a.rxshift, !.rxfull = TRUE,
                              !.rxready = a.kind = "uart", !.rxempty = a.kind # "uart"]
    <3>1. t = S!Raise(n, "rx")
      BY <2>3, <2>8, Zenon DEF S!RxDeliver
    <3>2. Formed(n) /\ IntSame(a, n) /\ TxSame(a, n) /\ n.how = a.how /\ n.dma = a.dma /\ n.trig = a.trig
      <4>1. DOMAIN n = DOMAIN a
        BY Zenon
      <4>2. n.dma = a.dma /\ n.how = a.how /\ n.trig = a.trig
        BY <2>1 DEF Formed, SerialFields
      <4>3. IntSame(a, n)
        BY <2>1 DEF Formed, SerialFields, IntSame
      <4>4. TxSame(a, n)
        BY <2>1 DEF Formed, SerialFields, TxSame
      <4> QED BY <2>1, <4>1, <4>2, <4>3, <4>4 DEF Formed
    <3>3. /\ n.kind = a.kind /\ n.me = a.me /\ n.rxshift = a.rxshift /\ n.fed = a.fed /\ n.came = a.came
          /\ n.rxbuf = a.rxshift /\ n.rxdelay = a.rxdelay
      BY <2>1 DEF Formed, SerialFields
    <3>4. n.rxfull = TRUE
      BY <2>1 DEF Formed, SerialFields
    <3>5. n.rxready = (a.kind = "uart")
      BY <2>1 DEF Formed, SerialFields
    <3>6. n.rxempty = (a.kind # "uart")
      BY <2>1 DEF Formed, SerialFields
    <3>7. n.oe = (a.oe \/ a.rxfull)
      BY <2>1 DEF Formed, SerialFields
    <3> HIDE DEF n
    <3>8. IntPart(n) /\ TxPart(n)
      BY <2>5, <3>2, SameTx DEF IntPart, IntSame
    <3>9. RxPart(n)
      <4>1. After(n) = {}
        BY <3>5, <3>6 DEF After, Arriving
      <4>2. ~ Arriving(n)
        BY <3>5, <3>6 DEF Arriving
      <4>3. After(s) = {s.rxshift} /\ s.rxshift \in Nat /\ s.came \in SUBSET Nat /\ s.rxbuf \in Nat /\ s.fed \in Nat
        BY <1>1, <2>6 DEF After, RxPart
      <4>4. \A b \in s.came : ~ (b > s.rxshift)
        <5>1. CASE s.rxfull
          <6>1. {b \in s.came : b > s.rxbuf} = {s.rxshift} /\ s.rxbuf < s.rxshift
            BY <1>1, <2>6, <4>3, <5>1 DEF RxPart
          <6>2. \A b \in s.came : b > s.rxbuf => b = s.rxshift
            BY <6>1
          <6> QED BY <4>3, <6>1, <6>2
        <5>2. CASE ~ s.rxfull
          BY <1>1, <4>3, <5>2 DEF RxPart
        <5> QED BY <1>1, <5>1, <5>2 DEF RxPart
      <4>5. {b \in n.came : b > n.rxbuf} = {}
        BY <2>2, <3>3, <4>4
      <4>6. ~ n.oe => n.came = {n.rxbuf} \cup {}
        BY <1>1, <2>2, <3>3, <3>7, <4>3 DEF RxPart
      <4>7. n.rxbuf < n.fed /\ n.rxbuf \in Nat /\ n.fed \in Nat /\ n.came \in SUBSET Nat /\ n.rxshift \in Nat
            /\ \A b \in n.came : b < n.fed
        BY <1>1, <2>2, <2>6, <3>3 DEF RxPart
      <4>8. n.oe \in BOOLEAN /\ n.rxfull \in BOOLEAN /\ n.rxready \in BOOLEAN /\ n.rxempty \in BOOLEAN
        BY <3>4, <3>5, <3>6, <3>7
      <4>9. ~ S!IsUart(n) => n.rxempty
        BY <3>3, <3>6 DEF S!IsUart
      <4> QED BY <3>3, <3>4, <3>5, <3>6, <4>1, <4>2, <4>5, <4>6, <4>7, <4>8, <4>9 DEF RxPart
    <3>10. /\ Formed(t) /\ TxSame(n, t) /\ RxSame(n, t) /\ IntPart(t)
           /\ t.how = n.how /\ t.dma = n.dma /\ t.trig \subseteq n.trig \cup {"rx"}
      BY <3>1, <3>2, <3>8, Raises
    <3> HIDE DEF t
    <3>11. DmaPart(t)
      BY <1>1, <2>1, <2>2, <3>2, <3>4, <3>10 DEF DmaPart, TxSame, RxSame
    <3>12. SerialTurn(t)
      BY <3>8, <3>9, <3>10, <3>11, SameTx, SameRx DEF SerialTurn, Formed
    <3>13. TxSame(s, t) /\ t.kind = s.kind /\ t.me = s.me
      BY <2>1, <2>2, <3>2, <3>3, <3>10 DEF TxSame, RxSame
    <3>14. ~ S!IsUart(s) => t.rxempty
      BY <2>2, <3>6, <3>10 DEF S!IsUart, RxSame
    <3> QED BY <3>12, <3>13, <3>14 DEF t, a
  <2> QED BY <2>7, <2>8
<1> QED BY <1>1, <1>2, <1>3 DEF RxPart

\* A byte written waits for the shift register.
LEMMA Buffers ==
  ASSUME NEW s, SerialTurn(s), Quiet(s), NEW ticks
  PROVE  LET t == S!TxBuffer(s, ticks)
         IN  SerialTurn(t) /\ Quiet(t) /\ t.kind = s.kind /\ t.me = s.me
<1> DEFINE t == S!TxBuffer(s, ticks)
           n == [s EXCEPT !.fulldelay = S!Sub(@, ticks)]
<1>1. Formed(s) /\ TxPart(s) /\ RxPart(s) /\ DmaPart(s) /\ IntPart(s)
  BY DEF SerialTurn, Formed
<1>2. /\ Formed(n) /\ IntSame(s, n) /\ RxSame(s, n) /\ TxSame(s, n)
      /\ n.how = s.how /\ n.dma = s.dma /\ n.trig = s.trig
  BY <1>1 DEF Formed, SerialFields, IntSame, RxSame, TxSame
<1> HIDE DEF n
<1>3. SerialTurn(n)
  <2>1. IntPart(n) /\ DmaPart(n)
    BY <1>1, <1>2 DEF IntPart, IntSame, DmaPart, TxSame, RxSame
  <2> QED BY <1>1, <1>2, <2>1, SameTx, SameRx DEF SerialTurn, Formed
<1>4. CASE t = s
  BY <1>4
<1>5. CASE t = n
  BY <1>2, <1>3, <1>5 DEF Quiet, TxSame, RxSame
<1>6. CASE s.txfull /\ s.txempty /\ t = S!Load(s)
  <2>1. SerialTurn(t) /\ ~ t.txready /\ RxSame(s, t)
    BY <1>6, Loads DEF Quiet
  <2> QED BY <2>1 DEF Quiet, RxSame
<1>7. t = s \/ t = n \/ (s.txfull /\ s.txempty /\ t = S!Load(s))
  BY DEF S!TxBuffer, n
<1> QED BY <1>4, <1>5, <1>6, <1>7

\* The registers that shift.
LEMMA Shifts ==
  ASSUME NEW s, SerialTurn(s), Quiet(s), NEW ticks \in Nat
  PROVE  LET t == S!RxDeliver(S!RxShift(S!TxShift(s, ticks), ticks))
         IN  SerialTurn(t) /\ t.kind = s.kind /\ t.me = s.me /\ (~ S!IsUart(s) => t.rxempty)
<1> DEFINE a == S!TxShift(s, ticks)
<1>1. SerialTurn(a) /\ RxSame(s, a)
  BY TxShifts DEF Quiet
<1>2. ~ a.rxready /\ a.kind = s.kind /\ a.me = s.me
  BY <1>1 DEF RxSame, Quiet
<1> HIDE DEF a
<1> DEFINE t == S!RxDeliver(S!RxShift(a, ticks))
<1>3. SerialTurn(t) /\ t.kind = a.kind /\ t.me = a.me /\ (~ S!IsUart(a) => t.rxempty)
  BY <1>1, <1>2, Delivers
<1> HIDE DEF t
<1>4. SerialTurn(t) /\ t.kind = s.kind /\ t.me = s.me /\ (~ S!IsUart(s) => t.rxempty)
  BY <1>2, <1>3 DEF S!IsUart
<1> QED BY <1>4 DEF a, t

\* What comes in over an SPI bus is delivered at the next update, so that a device that
\* speaks finds the shift register empty.
Ready(s) == ~ S!IsUart(s) /\ (S!Usart(s) => "rx" \in s.me) => s.rxempty

LEMMA Clocks ==
  ASSUME NEW s, SerialTurn(s), Quiet(s), ~ S!IsUart(s), NEW ticks \in Nat
  PROVE  SerialTurn(S!Clocked(s, ticks)) /\ Ready(S!Clocked(s, ticks))
<1> DEFINE a == IF s.txfull /\ s.txempty /\ (s.kind # "slave" \/ s.slavedone) THEN S!Load(s) ELSE s
           t == S!Clocked(s, ticks)
<1>1. SerialTurn(a) /\ Quiet(a) /\ a.kind = s.kind
  <2>1. CASE a = s
    BY <2>1
  <2>2. CASE s.txfull /\ s.txempty /\ a = S!Load(s)
    <3>1. SerialTurn(a) /\ ~ a.txready /\ RxSame(s, a)
      BY <2>2, Loads DEF Quiet
    <3> QED BY <3>1 DEF Quiet, RxSame
  <2>3. a = s \/ (s.txfull /\ s.txempty /\ a = S!Load(s))
    OBVIOUS
  <2> QED BY <2>1, <2>2, <2>3
<1>2. t = S!RxDeliver(S!RxShift(S!TxShift(a, ticks), ticks))
  BY Zenon DEF S!Clocked
<1> HIDE DEF a, t
<1>3. SerialTurn(t) /\ t.kind = a.kind /\ (~ S!IsUart(a) => t.rxempty)
  BY <1>1, <1>2, Shifts
<1>4. SerialTurn(t) /\ Ready(t)
  BY <1>1, <1>3 DEF Ready, S!IsUart
<1> QED BY <1>4 DEF t

LEMMA Updates ==
  ASSUME NEW s, SerialTurn(s), Quiet(s), NEW ticks \in Nat
  PROVE  SerialTurn(S!Update(s, ticks)) /\ Ready(S!Update(s, ticks))
<1> DEFINE b == S!TxBuffer(s, ticks)
<1>1. SerialTurn(b) /\ Quiet(b) /\ b.kind = s.kind
  BY Buffers
<1>2. CASE s.kind = "uart"
  <2> DEFINE a == IF "tx" \in s.me THEN b ELSE s
             t == S!Update(s, ticks)
  <2>1. SerialTurn(a) /\ Quiet(a) /\ a.kind = "uart"
    <3> HIDE DEF b
    <3> QED BY <1>1, <1>2
  <2>2. t = S!RxDeliver(S!RxShift(S!TxShift(a, ticks), ticks))
    BY <1>2 DEF S!Update, S!UartUpdate
  <2> HIDE DEF a, t
  <2>3. SerialTurn(t) /\ t.kind = "uart"
    BY <2>1, <2>2, Shifts
  <2>4. SerialTurn(t) /\ Ready(t)
    BY <2>3 DEF Ready, S!IsUart
  <2> QED BY <2>4 DEF t
<1>3. CASE s.kind = "uscia"
  <2> DEFINE t == S!Update(s, ticks)
  <2>1. t = S!RxDeliver(S!RxShift(S!TxShift(b, ticks), ticks))
    BY <1>3 DEF S!Update, S!UsciaUpdate
  <2> HIDE DEF b, t
  <2>2. SerialTurn(t) /\ t.kind = "uscia"
    BY <1>1, <1>3, <2>1, Shifts
  <2>3. SerialTurn(t) /\ Ready(t)
    BY <2>2 DEF Ready, S!IsUart
  <2> QED BY <2>3 DEF t
<1>4. CASE ~ S!IsUart(s)
  <2>1. S!Update(s, ticks) = IF s.kind \in {"spi", "slave"} /\ "rx" \notin s.me THEN s ELSE S!Clocked(s, ticks)
    BY <1>4 DEF S!Update, S!IsUart, S!SpiUpdate, S!UscibUpdate
  <2>2. s.kind \in {"spi", "slave"} /\ "rx" \notin s.me => Ready(s)
    BY DEF Ready, S!Usart
  <2>3. SerialTurn(S!Clocked(s, ticks)) /\ Ready(S!Clocked(s, ticks))
    BY <1>4, Clocks
  <2> QED BY <2>1, <2>2, <2>3, Zenon
<1> QED BY <1>2, <1>3, <1>4 DEF S!IsUart

\* The registers, written and read by the instruction or by the DMA.
LEMMA WritesTxbuf ==
  ASSUME NEW s, SerialTurn(s), ~ s.txfull
  PROVE  LET t == S!WriteTxbuf(s)
         IN  /\ Formed(t) /\ TxPart(t) /\ RxSame(s, t) /\ IntPart(t) /\ t.txready = s.txready
             /\ t.how = s.how /\ t.dma = s.dma /\ t.trig = s.trig
<1> DEFINE t == S!WriteTxbuf(s)
<1>1. Formed(s) /\ TxPart(s) /\ IntPart(s)
  BY DEF SerialTurn, Formed
<1>2. Formed(t)
  <2>1. DOMAIN t = DOMAIN s
    BY Zenon DEF S!WriteTxbuf
  <2>2. t.dma = s.dma
    BY <1>1 DEF Formed, SerialFields, S!WriteTxbuf
  <2> QED BY <1>1, <2>1, <2>2 DEF Formed
<1>3. RxSame(s, t)
  BY <1>1 DEF Formed, SerialFields, RxSame, S!WriteTxbuf
<1>4. /\ t.txready = s.txready /\ t.how = s.how /\ t.dma = s.dma /\ t.trig = s.trig /\ t.isr = s.isr
      /\ t.ifg \subseteq s.ifg /\ t.ie = s.ie /\ t.iv = s.iv
  BY <1>1 DEF Formed, SerialFields, S!WriteTxbuf
<1>5. /\ t.txempty = s.txempty /\ t.txfull = TRUE /\ t.txbuf = s.next /\ t.txshift = s.txshift
      /\ t.due = Append(s.due, s.next)
  BY <1>1 DEF Formed, SerialFields, S!WriteTxbuf
<1> HIDE DEF t
<1>6. IntPart(t)
  BY <1>1, <1>4 DEF IntPart
<1>7. t.due = S!TxInFlight(t)
  <2>1. CASE s.txempty
    <3>1. s.due = <<>>
      BY <1>1, <2>1, InFlight DEF TxPart
    <3>2. Append(s.due, s.next) = <<s.next>>
      BY <3>1
    <3> QED BY <1>5, <2>1, <3>2, InFlight
  <2>2. CASE ~ s.txempty
    <3>1. s.due = <<s.txshift>>
      BY <1>1, <2>2, InFlight DEF TxPart
    <3>2. Append(s.due, s.next) = <<s.txshift, s.next>>
      BY <3>1, Two
    <3>3. S!TxInFlight(t) = <<t.txshift, t.txbuf>>
      BY <1>5, <2>2, InFlight
    <3> QED BY <1>5, <3>2, <3>3
  <2> QED BY <2>1, <2>2
<1>8. TxPart(t)
  BY <1>1, <1>4, <1>5, <1>7 DEF TxPart
<1> QED BY <1>2, <1>3, <1>4, <1>6, <1>8 DEF t

LEMMA ReadsRxbuf ==
  ASSUME NEW s, SerialTurn(s), s.rxfull
  PROVE  LET t == S!ReadRxbuf(s)
         IN  /\ Formed(t) /\ RxPart(t) /\ TxSame(s, t) /\ IntPart(t) /\ t.rxready = s.rxready /\ t.rxempty = s.rxempty
             /\ t.kind = s.kind /\ t.me = s.me /\ t.how = s.how /\ t.dma = s.dma /\ t.trig = s.trig
<1> DEFINE came == IF s.oe THEN {b \in s.came : b > s.rxbuf} ELSE s.came \ {s.rxbuf}
           t == S!ReadRxbuf(s)
<1>1. Formed(s) /\ RxPart(s) /\ IntPart(s)
  BY DEF SerialTurn, Formed
<1>2. t = [s EXCEPT !.ifg = @ \ {"rx"}, !.rxfull = FALSE, !.oe = FALSE, !.came = came]
  BY Zenon DEF S!ReadRxbuf
<1> HIDE DEF came, t
<1>3. Formed(t) /\ TxSame(s, t)
  BY <1>1, <1>2 DEF Formed, SerialFields, TxSame
<1>4. /\ t.how = s.how /\ t.dma = s.dma /\ t.trig = s.trig /\ t.isr = s.isr
      /\ t.ifg \subseteq s.ifg /\ t.ie = s.ie /\ t.iv = s.iv
  BY <1>1, <1>2 DEF Formed, SerialFields
<1>5. /\ t.kind = s.kind /\ t.me = s.me /\ t.rxfull = FALSE /\ t.rxempty = s.rxempty /\ t.rxready = s.rxready
      /\ t.oe = FALSE /\ t.rxbuf = s.rxbuf /\ t.rxshift = s.rxshift /\ t.fed = s.fed /\ t.came = came
      /\ t.rxdelay = s.rxdelay
  BY <1>1, <1>2 DEF Formed, SerialFields
<1>6. IntPart(t)
  BY <1>1, <1>4 DEF IntPart
<1>7. After(t) = After(s) /\ Arriving(t) = Arriving(s) /\ S!IsUart(t) = S!IsUart(s)
  BY <1>5 DEF After, Arriving, S!IsUart
<1>8. came = After(s)
  <2>1. CASE s.oe
    BY <1>1, <2>1 DEF RxPart, came
  <2>2. CASE ~ s.oe
    <3>1. s.came = {s.rxbuf} \cup After(s)
      BY <1>1, <2>2 DEF RxPart
    <3>2. s.rxbuf \notin After(s)
      BY <1>1 DEF RxPart, After
    <3> QED BY <2>2, <3>1, <3>2 DEF came
  <2> QED BY <2>1, <2>2
<1>9. came \subseteq s.came
  BY DEF came
<1>10. RxPart(t)
  BY <1>1, <1>5, <1>7, <1>8, <1>9 DEF RxPart
<1> QED BY <1>3, <1>4, <1>5, <1>6, <1>10 DEF t

LEMMA Flushes ==
  ASSUME NEW s, SerialTurn(s), Quiet(s), s.how = "cpu"
  PROVE  LET t == S!Flush(s)
         IN  SerialTurn(t) /\ Quiet(t) /\ t.trig = s.trig /\ t.how = s.how
<1> DEFINE t == S!Flush(s)
<1>1. Formed(s) /\ TxPart(s) /\ RxPart(s)
  BY DEF SerialTurn, Formed
<1>2. Formed(t) /\ t.how = s.how /\ t.dma = s.dma /\ t.trig = s.trig /\ t.ie = {}
  <2>1. DOMAIN t = DOMAIN s
    BY Zenon DEF S!Flush
  <2>2. t.how = s.how /\ t.dma = s.dma /\ t.trig = s.trig /\ t.ie = {}
    BY <1>1 DEF Formed, SerialFields, S!Flush
  <2> QED BY <1>1, <2>1, <2>2 DEF Formed
<1>3. /\ t.txempty = TRUE /\ t.txfull = FALSE /\ t.due = <<>> /\ t.txready = s.txready
  BY <1>1 DEF Formed, SerialFields, S!Flush
<1>4. /\ t.rxfull = FALSE /\ t.rxempty = TRUE /\ t.oe = FALSE /\ t.rxready = s.rxready /\ t.came = {}
  BY <1>1 DEF Formed, SerialFields, S!Flush
<1>5. /\ t.kind = s.kind /\ t.rxbuf = s.rxbuf /\ t.rxshift = s.rxshift /\ t.fed = s.fed
  BY <1>1 DEF Formed, SerialFields, S!Flush
<1> HIDE DEF t
<1>6. TxPart(t)
  <2>1. S!TxInFlight(t) = <<>>
    BY <1>3, InFlight
  <2>2. ~ t.txready
    BY <1>3 DEF Quiet
  <2>3. t.txready \in BOOLEAN
    BY <1>1, <1>3 DEF TxPart
  <2> QED BY <1>3, <2>1, <2>2, <2>3 DEF TxPart
<1>7. RxPart(t)
  <2>1. ~ Arriving(t) /\ After(t) = {}
    BY <1>4 DEF Arriving, After
  <2> QED BY <1>1, <1>4, <1>5, <2>1 DEF RxPart, Quiet
<1>8. DmaPart(t) /\ IntPart(t)
  BY <1>2 DEF DmaPart, IntPart
<1>9. SerialTurn(t) /\ Quiet(t)
  BY <1>2, <1>3, <1>4, <1>6, <1>7, <1>8 DEF SerialTurn, Formed, Quiet
<1> QED BY <1>2, <1>9 DEF t

\* What nothing but the interrupts or the settings changes.
Kept(s, t) == /\ Formed(t) /\ TxSame(s, t) /\ RxSame(s, t)
              /\ t.how = s.how /\ t.trig = s.trig /\ t.dma = s.dma

LEMMA SameTurn ==
  ASSUME NEW s, SerialTurn(s), NEW t, Kept(s, t), IntPart(t)
  PROVE  SerialTurn(t)
<1>1. DmaPart(t)
  BY DEF SerialTurn, DmaPart, Kept, TxSame, RxSame
<1> QED BY <1>1, SameTx, SameRx DEF SerialTurn, Kept, Formed

LEMMA WritesCtl ==
  ASSUME NEW s, SerialTurn(s), Quiet(s), s.how = "cpu", NEW rst
  PROVE  LET t == S!WriteReg(s, "ctl", rst)
         IN  SerialTurn(t) /\ Quiet(t) /\ t.trig = s.trig
<1> DEFINE Ctl(a) == [a EXCEPT !.swrst = rst]
           t == S!WriteReg(s, "ctl", rst)
<1>1. ASSUME NEW a, SerialTurn(a), Quiet(a), a.trig = s.trig
      PROVE  SerialTurn(Ctl(a)) /\ Quiet(Ctl(a)) /\ Ctl(a).trig = s.trig
  <2> DEFINE n == Ctl(a)
  <2>1. Kept(a, n) /\ IntSame(a, n)
    <3>1. Formed(a)
      BY <1>1 DEF SerialTurn, Formed
    <3> QED BY <3>1 DEF Kept, Formed, SerialFields, TxSame, RxSame, IntSame
  <2> HIDE DEF n
  <2>2. IntPart(n)
    BY <1>1, <2>1 DEF SerialTurn, IntPart, IntSame
  <2>3. SerialTurn(n) /\ Quiet(n) /\ n.trig = s.trig
    BY <1>1, <2>1, <2>2, SameTurn DEF Kept, TxSame, RxSame, Quiet
  <2> QED BY <2>3 DEF n
<1>2. t = Ctl(s) \/ t = Ctl(S!Flush(s))
  BY Zenon DEF S!WriteReg, S!UsciaWrite, S!UscibWrite, S!UsartCtl, S!UsciCtl
<1> HIDE DEF Ctl, t
<1>3. SerialTurn(S!Flush(s)) /\ Quiet(S!Flush(s)) /\ S!Flush(s).trig = s.trig
  BY Flushes
<1>4. SerialTurn(t) /\ Quiet(t) /\ t.trig = s.trig
  BY <1>1, <1>2, <1>3
<1> QED BY <1>4 DEF t

\* The DMA, whose triggers last one turn.
LEMMA DmaCopies ==
  ASSUME NEW s, SerialTurn(s), s.how # "cpu", s.dma.state = "HOLD"
  PROVE  LET t == S!DmaCopy(s)
         IN  /\ Formed(t) /\ TxPart(t) /\ RxPart(t) /\ IntPart(t) /\ t.dma.state # "HOLD"
             /\ t.how = s.how /\ t.kind = s.kind /\ t.me = s.me /\ t.rxempty = s.rxempty
<1> DEFINE done == s.dma.sz = 1
           a == IF s.how = "dmatx" THEN S!WriteReg(s, "txbuf", FALSE) ELSE S!Read(s)
           t == S!DmaCopy(s)
<1>1. Formed(s) /\ TxPart(s) /\ RxPart(s) /\ DmaPart(s)
  BY DEF SerialTurn, Formed
<1>2. /\ Formed(a) /\ TxPart(a) /\ RxPart(a) /\ IntPart(a) /\ a.how = s.how
      /\ a.kind = s.kind /\ a.me = s.me /\ a.rxempty = s.rxempty
  <2>1. CASE s.how = "dmatx"
    <3> DEFINE w == S!WriteTxbuf(s)
    <3>1. a = w
      BY <2>1 DEF S!WriteReg, S!UsciaWrite, S!UscibWrite
    <3>2. ~ s.txfull
      BY <1>1, <2>1 DEF DmaPart
    <3>3. Formed(w) /\ TxPart(w) /\ RxSame(s, w) /\ IntPart(w) /\ w.how = s.how
      BY <3>2, WritesTxbuf
    <3> HIDE DEF w
    <3>4. RxPart(w) /\ w.kind = s.kind /\ w.me = s.me /\ w.rxempty = s.rxempty
      BY <1>1, <3>3, SameRx DEF RxSame
    <3> QED BY <3>1, <3>3, <3>4
  <2>2. CASE s.how = "dmarx"
    <3> DEFINE w == S!ReadRxbuf(s)
    <3>1. a = w
      BY <2>2 DEF S!Read, S!UsciaRead, S!UscibRead
    <3>2. s.rxfull
      BY <1>1, <2>2 DEF DmaPart
    <3>3. /\ Formed(w) /\ RxPart(w) /\ TxSame(s, w) /\ IntPart(w) /\ w.how = s.how
          /\ w.kind = s.kind /\ w.me = s.me /\ w.rxempty = s.rxempty
      BY <3>2, ReadsRxbuf
    <3> HIDE DEF w
    <3>4. TxPart(w)
      BY <1>1, <3>3, SameTx
    <3> QED BY <3>1, <3>3, <3>4
  <2> QED BY <1>1, <2>1, <2>2 DEF DmaPart
<1> DEFINE state == IF done \/ ~ s.dma.en THEN "RESET" ELSE "WAIT"
           en == ~ done
           ifg == s.dma.en /\ done
           n == [a EXCEPT !.dma.state = state, !.dma.sz = @ - 1, !.dma.en = @ /\ en, !.dma.ifg = @ \/ ifg]
<1>3. t = n
  BY Zenon DEF S!DmaCopy
<1> HIDE DEF a, t, done, en, ifg
<1>4. state # "HOLD"
  OBVIOUS
<1> HIDE DEF state
<1>5. Formed(n)
  <2>1. DOMAIN n = DOMAIN a
    BY Zenon
  <2>2. DOMAIN n.dma = DOMAIN a.dma
    BY <1>2 DEF Formed, SerialFields
  <2> QED BY <1>2, <2>1, <2>2 DEF Formed
<1>6. n.dma.state = state
  BY <1>2 DEF Formed, SerialFields
<1>7. TxSame(a, n)
  BY <1>2 DEF Formed, SerialFields, TxSame
<1>8. RxSame(a, n)
  BY <1>2 DEF Formed, SerialFields, RxSame
<1>9. IntSame(a, n) /\ n.how = a.how
  BY <1>2 DEF Formed, SerialFields, IntSame
<1> HIDE DEF n
<1>10. TxPart(n) /\ RxPart(n)
  BY <1>2, <1>7, <1>8, SameTx, SameRx
<1>11. IntPart(n)
  BY <1>2, <1>9 DEF IntPart, IntSame
<1>12. /\ Formed(t) /\ TxPart(t) /\ RxPart(t) /\ IntPart(t) /\ t.dma.state # "HOLD"
       /\ t.how = s.how /\ t.kind = s.kind /\ t.me = s.me /\ t.rxempty = s.rxempty
  BY <1>2, <1>3, <1>4, <1>5, <1>6, <1>8, <1>9, <1>10, <1>11 DEF RxSame
<1> QED BY <1>12 DEF t

LEMMA DmaUpdates ==
  ASSUME NEW s, SerialTurn(s), Ready(s)
  PROVE  LET t == S!DmaUpdate(s)
         IN  SerialTurn(t) /\ Ready(t) /\ t.trig = {}
<1> DEFINE copy == S!DmaCopy(s)
           await == S!DmaAwait(s)
           stop == [s EXCEPT !.dma.en = FALSE, !.dma.ifg = TRUE]
           n == IF s.how = "cpu" THEN s
                ELSE IF s.dma.state = "HOLD" THEN copy
                ELSE IF s.dma.state = "WAIT" \/ (s.dma.en /\ s.dma.sz > 0) THEN await
                ELSE IF s.dma.en THEN stop
                ELSE s
           t == S!DmaUpdate(s)
           Good(a) == /\ Formed(a) /\ TxPart(a) /\ RxPart(a) /\ IntPart(a) /\ a.how = s.how
                      /\ a.dma.state = "HOLD" /\ s.how = "dmatx" => ~ a.txfull
                      /\ a.dma.state = "HOLD" /\ s.how = "dmarx" => a.rxfull
                      /\ a.kind = s.kind /\ a.me = s.me /\ a.rxempty = s.rxempty
<1>1. Formed(s) /\ TxPart(s) /\ RxPart(s) /\ DmaPart(s) /\ IntPart(s)
  BY DEF SerialTurn, Formed
<1>2. Good(s)
  BY <1>1 DEF DmaPart
<1>3. s.how # "cpu" /\ s.dma.state = "HOLD" => Good(S!DmaCopy(s))
  BY <1>1, DmaCopies
<1>4. ASSUME NEW a, Formed(a), TxSame(s, a), RxSame(s, a), IntSame(s, a), a.how = s.how,
             a.dma.state = "HOLD" /\ s.how = "dmatx" => ~ s.txfull,
             a.dma.state = "HOLD" /\ s.how = "dmarx" => s.rxfull
      PROVE  Good(a)
  <2>1. TxPart(a) /\ RxPart(a) /\ IntPart(a)
    BY <1>1, <1>4, SameTx, SameRx DEF IntPart, IntSame
  <2> QED BY <1>4, <2>1 DEF TxSame, RxSame
<1>5. s.how # "cpu" => Good(S!DmaAwait(s))
  <2> DEFINE a == S!DmaAwait(s)
  <2>1. Formed(a) /\ TxSame(s, a) /\ a.how = s.how
    BY <1>1 DEF Formed, SerialFields, TxSame, S!DmaAwait
  <2>2. RxSame(s, a) /\ IntSame(s, a)
    BY <1>1 DEF Formed, SerialFields, RxSame, IntSame, S!DmaAwait
  <2>3. a.dma.state = "HOLD" => (IF s.how = "dmatx" THEN "tx" ELSE "rx") \in s.trig
    BY <1>1 DEF Formed, SerialFields, S!DmaAwait
  <2>4. /\ a.dma.state = "HOLD" /\ s.how = "dmatx" => ~ s.txfull
        /\ a.dma.state = "HOLD" /\ s.how = "dmarx" => s.rxfull
    BY <1>1, <2>3 DEF DmaPart
  <2> HIDE DEF a, Good
  <2>5. Good(a)
    BY <1>4, <2>1, <2>2, <2>4
  <2> QED BY <2>5 DEF a
<1>6. Good([s EXCEPT !.dma.en = FALSE, !.dma.ifg = TRUE])
  <2> DEFINE a == [s EXCEPT !.dma.en = FALSE, !.dma.ifg = TRUE]
  <2>1. Formed(a) /\ TxSame(s, a) /\ a.how = s.how /\ a.dma.state = s.dma.state
    BY <1>1 DEF Formed, SerialFields, TxSame
  <2>2. RxSame(s, a) /\ IntSame(s, a)
    BY <1>1 DEF Formed, SerialFields, RxSame, IntSame
  <2>3. /\ a.dma.state = "HOLD" /\ s.how = "dmatx" => ~ s.txfull
        /\ a.dma.state = "HOLD" /\ s.how = "dmarx" => s.rxfull
    BY <1>1, <2>1 DEF DmaPart
  <2> HIDE DEF a, Good
  <2>4. Good(a)
    BY <1>4, <2>1, <2>2, <2>3
  <2> QED BY <2>4 DEF a
<1>7. Good(n)
  <2> HIDE DEF Good
  <2>1. /\ s.how # "cpu" /\ s.dma.state = "HOLD" => Good(copy)
        /\ s.how # "cpu" => Good(await)
        /\ Good(stop)
    BY <1>3, <1>5, <1>6
  <2> HIDE DEF copy, await, stop
  <2>2. \/ n = s
        \/ n = stop
        \/ s.how # "cpu" /\ n = await
        \/ s.how # "cpu" /\ s.dma.state = "HOLD" /\ n = copy
    OBVIOUS
  <2> HIDE DEF n
  <2> QED BY <1>2, <2>1, <2>2
<1>8. t = [n EXCEPT !.trig = {}]
  BY Zenon DEF S!DmaUpdate
<1> HIDE DEF n, t
<1>9. /\ Formed(t) /\ TxSame(n, t) /\ RxSame(n, t) /\ IntSame(n, t)
      /\ t.how = n.how /\ t.dma = n.dma /\ t.trig = {}
  BY <1>7, <1>8 DEF Formed, SerialFields, TxSame, RxSame, IntSame
<1>10. TxPart(t) /\ RxPart(t)
  BY <1>7, <1>9, SameTx, SameRx
<1>11. IntPart(t)
  BY <1>7, <1>9 DEF IntPart, IntSame
<1>12. DmaPart(t)
  BY <1>1, <1>7, <1>9 DEF DmaPart, TxSame, RxSame
<1>13. SerialTurn(t)
  BY <1>9, <1>10, <1>11, <1>12 DEF SerialTurn, Formed
<1>14. Ready(t)
  BY <1>7, <1>9 DEF Ready, RxSame, S!IsUart, S!Usart
<1> QED BY <1>9, <1>13, <1>14 DEF t

\* The device takes what was shifted out, and what it says goes in.
LEMMA DevReads ==
  ASSUME NEW s, SerialTurn(s), Ready(s)
  PROVE  LET t == S!DevRead(s)
         IN  SerialTurn(t) /\ Ready(t) /\ ~ t.txready /\ t.trig = s.trig
<1> DEFINE t == S!DevRead(s)
<1>1. Formed(s) /\ TxPart(s) /\ RxPart(s) /\ DmaPart(s) /\ IntPart(s)
  BY DEF SerialTurn, Formed
<1>2. CASE ~ s.txready
  BY <1>2 DEF S!DevRead
<1>3. CASE s.txready
  <2>1. Formed(t) /\ IntSame(s, t) /\ t.how = s.how /\ t.dma = s.dma /\ t.trig = s.trig
    BY <1>1, <1>3 DEF Formed, SerialFields, IntSame, S!DevRead
  <2>2. RxSame(s, t)
    BY <1>1, <1>3 DEF Formed, SerialFields, RxSame, S!DevRead
  <2>3. /\ t.txready = FALSE /\ t.txempty = TRUE /\ t.due = Tail(s.due) /\ t.txfull = s.txfull
        /\ t.txbuf = s.txbuf
    BY <1>1, <1>3 DEF Formed, SerialFields, S!DevRead
  <2> HIDE DEF t
  <2>4. t.due = S!TxInFlight(t)
    <3>1. CASE ~ s.txfull
      <4>1. s.due = <<s.txshift>>
        BY <1>1, <1>3, <3>1, InFlight DEF TxPart
      <4>2. Tail(<<s.txshift>>) = <<>>
        OBVIOUS
      <4>3. S!TxInFlight(t) = <<>>
        BY <2>3, <3>1, InFlight
      <4> QED BY <2>3, <4>1, <4>2, <4>3
    <3>2. CASE s.txfull
      <4>1. s.due = <<s.txshift, s.txbuf>>
        BY <1>1, <1>3, <3>2, InFlight DEF TxPart
      <4>2. Tail(<<s.txshift, s.txbuf>>) = <<s.txbuf>>
        OBVIOUS
      <4>3. S!TxInFlight(t) = <<t.txbuf>>
        BY <2>3, <3>2, InFlight
      <4> QED BY <2>3, <4>1, <4>2, <4>3
    <3> QED BY <3>1, <3>2
  <2>5. TxPart(t)
    BY <1>1, <2>3, <2>4 DEF TxPart
  <2>6. IntPart(t)
    BY <1>1, <2>1 DEF IntPart, IntSame
  <2>7. DmaPart(t)
    BY <1>1, <2>1, <2>2, <2>3 DEF DmaPart, RxSame
  <2>8. SerialTurn(t)
    BY <1>1, <2>1, <2>2, <2>5, <2>6, <2>7, SameRx DEF SerialTurn, Formed
  <2>9. Ready(t)
    BY <2>2 DEF Ready, RxSame, S!IsUart, S!Usart
  <2> QED BY <2>1, <2>3, <2>8, <2>9 DEF t
<1> QED BY <1>1, <1>2, <1>3 DEF TxPart

\* A byte put in an empty shift register.
LEMMA Comes ==
  ASSUME NEW s, SerialTurn(s), s.rxempty, NEW t, Formed(t), TxSame(s, t), IntSame(s, t),
         t.how = s.how, t.dma = s.dma, t.trig = s.trig,
         t.kind = s.kind, t.rxfull = s.rxfull, t.oe = s.oe, t.rxbuf = s.rxbuf,
         t.rxshift = s.fed, t.rxempty = FALSE, t.rxready = FALSE, t.fed = s.fed + 1, t.came = s.came \cup {s.fed},
         S!IsUart(s) \/ t.rxdelay = 0
  PROVE  SerialTurn(t)
<1>1. Formed(s) /\ TxPart(s) /\ RxPart(s) /\ DmaPart(s) /\ IntPart(s)
  BY DEF SerialTurn, Formed
<1>2. TxPart(t) /\ IntPart(t)
  BY <1>1, SameTx DEF IntPart, IntSame
<1>3. DmaPart(t)
  BY <1>1 DEF DmaPart, TxSame
<1>4. After(s) = {} /\ After(t) = {s.fed} /\ Arriving(t)
  BY DEF After, Arriving
<1>5. s.fed \in Nat /\ s.rxbuf \in Nat /\ s.came \in SUBSET Nat /\ \A b \in s.came : b < s.fed
  BY <1>1 DEF RxPart
<1>6. s.rxfull => s.rxbuf < s.fed /\ {b \in t.came : b > t.rxbuf} = {s.fed}
  <2>1. s.rxfull => s.rxbuf < s.fed /\ {b \in s.came : b > s.rxbuf} = {}
    BY <1>1, <1>4 DEF RxPart
  <2>2. s.rxbuf < s.fed => {b \in t.came : b > t.rxbuf} = {b \in s.came : b > s.rxbuf} \cup {s.fed}
    BY <1>5
  <2> QED BY <2>1, <2>2
<1>7. ~ s.rxfull => t.came = {s.fed} /\ ~ s.oe
  BY <1>1, <1>4 DEF RxPart
<1>8. s.rxfull /\ ~ s.oe => t.came = {t.rxbuf} \cup {s.fed}
  BY <1>1, <1>4 DEF RxPart
<1>9. \A b \in t.came : b < t.fed
  BY <1>5
<1>10. t.fed \in Nat /\ t.rxshift \in Nat /\ t.rxbuf \in Nat /\ t.came \in SUBSET Nat /\ t.rxshift < t.fed
  BY <1>5
<1>11. t.rxfull \in BOOLEAN /\ t.oe \in BOOLEAN
  BY <1>1 DEF RxPart
<1>12. ~ S!IsUart(t) => t.rxdelay = 0
  BY DEF S!IsUart
<1>13. RxPart(t)
  <2>1. t.rxfull => t.rxbuf < t.fed /\ {b \in t.came : b > t.rxbuf} = After(t)
    BY <1>4, <1>5, <1>6
  <2>2. Arriving(t) => t.rxshift < t.fed /\ (t.rxfull => t.rxbuf < t.rxshift)
    BY <1>6, <1>10
  <2> QED BY <1>4, <1>7, <1>8, <1>9, <1>10, <1>11, <1>12, <2>1, <2>2 DEF RxPart
<1> QED BY <1>2, <1>3, <1>13 DEF SerialTurn, Formed

LEMMA DevicesSpeak ==
  ASSUME NEW s, SerialTurn(s), Ready(s), NEW speaks
  PROVE  LET t == S!Devices(s, speaks)
         IN  SerialTurn(t) /\ ~ t.txready /\ t.trig = s.trig
<1> DEFINE n == S!DevRead(s)
           u == S!DevWriteUart(n)
           p == S!DevWriteSpi(n)
           t == S!Devices(s, speaks)
           Good(a) == SerialTurn(a) /\ ~ a.txready /\ a.trig = s.trig
<1>1. SerialTurn(n) /\ Ready(n) /\ ~ n.txready /\ n.trig = s.trig
  BY DevReads
<1>2. n.kind = s.kind
  <2>1. Formed(s)
    BY DEF SerialTurn, Formed
  <2> QED BY <2>1 DEF Formed, SerialFields, S!DevRead
<1> HIDE DEF n
<1>3. Formed(n)
  BY <1>1 DEF SerialTurn, Formed
<1>4. S!IsUart(n) => Good(u)
  <2> SUFFICES ASSUME S!IsUart(n)
               PROVE  Good(u)
    OBVIOUS
  <2>1. CASE u = n
    BY <1>1, <2>1
  <2> DEFINE a == [n EXCEPT !.rxshift = n.fed, !.rxempty = FALSE, !.rxready = FALSE, !.rxdelay = ByteTime,
                            !.fed = @ + 1, !.came = @ \cup {n.fed}]
  <2>2. CASE n.rxempty /\ u = a
    <3>1. DOMAIN a = DOMAIN n
      BY Zenon
    <3>2. TxSame(n, a)
      BY <1>3 DEF Formed, SerialFields, TxSame
    <3>3. IntSame(n, a) /\ a.how = n.how /\ a.dma = n.dma /\ a.trig = n.trig
      BY <1>3 DEF Formed, SerialFields, IntSame
    <3>4. a.kind = n.kind /\ a.rxfull = n.rxfull /\ a.oe = n.oe /\ a.rxbuf = n.rxbuf
      BY <1>3 DEF Formed, SerialFields
    <3>5. /\ a.rxshift = n.fed /\ a.rxempty = FALSE /\ a.rxready = FALSE /\ a.fed = n.fed + 1
          /\ a.came = n.came \cup {n.fed}
      BY <1>3 DEF Formed, SerialFields
    <3> HIDE DEF a
    <3>6. Formed(a)
      BY <1>3, <3>1, <3>3 DEF Formed
    <3>7. SerialTurn(a)
      BY <1>1, <2>2, <3>2, <3>3, <3>4, <3>5, <3>6, Comes
    <3> QED BY <1>1, <2>2, <3>2, <3>3, <3>7 DEF TxSame
  <2>3. u = n \/ (n.rxempty /\ u = a)
    BY DEF S!DevWriteUart
  <2> QED BY <2>1, <2>2, <2>3
<1>5. ~ S!IsUart(n) => Good(p)
  <2> SUFFICES ASSUME ~ S!IsUart(n)
               PROVE  Good(p)
    OBVIOUS
  <2>1. CASE p = n
    BY <1>1, <2>1
  <2> DEFINE a == [n EXCEPT !.rxshift = n.fed, !.rxempty = FALSE, !.rxready = FALSE, !.rxdelay = 0,
                            !.slavedone = n.kind = "slave", !.fed = @ + 1, !.came = @ \cup {n.fed}]
  <2>2. CASE (S!Usart(n) => "rx" \in n.me) /\ p = a
    <3>1. DOMAIN a = DOMAIN n
      BY Zenon
    <3>2. TxSame(n, a)
      BY <1>3 DEF Formed, SerialFields, TxSame
    <3>3. IntSame(n, a) /\ a.how = n.how /\ a.dma = n.dma /\ a.trig = n.trig
      BY <1>3 DEF Formed, SerialFields, IntSame
    <3>4. a.kind = n.kind /\ a.rxfull = n.rxfull /\ a.oe = n.oe /\ a.rxbuf = n.rxbuf /\ a.rxdelay = 0
      BY <1>3 DEF Formed, SerialFields
    <3>5. /\ a.rxshift = n.fed /\ a.rxempty = FALSE /\ a.rxready = FALSE /\ a.fed = n.fed + 1
          /\ a.came = n.came \cup {n.fed}
      BY <1>3 DEF Formed, SerialFields
    <3> HIDE DEF a
    <3>6. Formed(a)
      BY <1>3, <3>1, <3>3 DEF Formed
    <3>7. n.rxempty
      BY <1>1, <2>2 DEF Ready
    <3>8. SerialTurn(a)
      BY <1>1, <3>2, <3>3, <3>4, <3>5, <3>6, <3>7, Comes
    <3> QED BY <1>1, <2>2, <3>2, <3>3, <3>8 DEF TxSame
  <2>3. p = n \/ ((S!Usart(n) => "rx" \in n.me) /\ p = a)
    BY DEF S!DevWriteSpi
  <2> QED BY <2>1, <2>2, <2>3
<1>6. t = n \/ (S!IsUart(n) /\ t = u) \/ (~ S!IsUart(n) /\ t = p)
  BY <1>2 DEF S!Devices, S!IsUart, n
<1> HIDE DEF u, p, t
<1>7. Good(t)
  BY <1>1, <1>4, <1>5, <1>6
<1> QED BY <1>7 DEF t

LEMMA SerialEnds ==
  ASSUME NEW s, SerialTurn(s), Quiet(s), S!EndTurn(s)
  PROVE  SerialInv(m')
<1>1. PICK ticks \in Ticks, speaks \in BOOLEAN :
        m' = S!StartInterrupt(S!UpdateDone(S!Devices(S!DmaUpdate(S!Update(s, ticks)), speaks)))
  BY Zenon DEF S!EndTurn
<1> DEFINE u == S!Update(s, ticks)
           d == S!DmaUpdate(u)
           t == S!Devices(d, speaks)
           e == S!UpdateDone(t)
<1>2. SerialTurn(u) /\ Ready(u)
  BY TickAssumption, Updates
<1> HIDE DEF u
<1>3. SerialTurn(d) /\ Ready(d) /\ d.trig = {}
  BY <1>2, DmaUpdates
<1> HIDE DEF d
<1>4. SerialTurn(t) /\ ~ t.txready /\ t.trig = {}
  BY <1>3, DevicesSpeak
<1> HIDE DEF t
<1>5. Formed(t) /\ RxPart(t) /\ DmaPart(t) /\ IntPart(t)
  BY <1>4 DEF SerialTurn, Formed
<1>6. SerialTurn(e) /\ Quiet(e) /\ e.trig = {}
  <2>1. CASE ~ (t.kind = "uart" /\ t.rxready)
    BY <1>4, <1>5, <2>1 DEF S!UpdateDone, Quiet, RxPart
  <2>2. CASE t.kind = "uart" /\ t.rxready
    <3>1. Formed(e) /\ TxSame(t, e) /\ e.trig = t.trig /\ e.how = t.how /\ e.dma = t.dma
      BY <1>5, <2>2 DEF Formed, SerialFields, TxSame, S!UpdateDone
    <3>2. IntSame(t, e)
      BY <1>5, <2>2 DEF Formed, SerialFields, IntSame, S!UpdateDone
    <3>3. /\ e.kind = t.kind /\ e.rxfull = t.rxfull /\ e.oe = t.oe /\ e.rxbuf = t.rxbuf /\ e.rxshift = t.rxshift
          /\ e.fed = t.fed /\ e.came = t.came /\ e.rxready = FALSE /\ e.rxempty = TRUE
      BY <1>5, <2>2 DEF Formed, SerialFields, S!UpdateDone
    <3> HIDE DEF e
    <3>4. RxPart(e)
      <4>1. After(e) = {} /\ ~ Arriving(e) /\ After(t) = {} /\ ~ Arriving(t)
        BY <2>2, <3>3 DEF After, Arriving
      <4> QED BY <1>5, <3>3, <4>1 DEF RxPart
    <3>5. IntPart(e) /\ DmaPart(e)
      BY <1>5, <3>1, <3>2, <3>3 DEF IntPart, IntSame, DmaPart, TxSame
    <3>6. SerialTurn(e)
      BY <1>4, <3>1, <3>4, <3>5, SameTx DEF SerialTurn, Formed
    <3>7. Quiet(e)
      BY <1>4, <3>1, <3>3 DEF Quiet, TxSame
    <3> QED BY <1>4, <3>1, <3>6, <3>7
  <2> QED BY <2>1, <2>2
<1> HIDE DEF e
<1>7. m' = S!StartInterrupt(e)
  BY <1>1 DEF u, d, t, e
<1>8. CASE m' = e
  BY <1>6, <1>8 DEF SerialInv
<1>9. CASE m' # e
  <2> DEFINE v == IF "rx" \in e.iv THEN "rx" ELSE "tx"
             n == [e EXCEPT !.iv = @ \ {v}, !.isr = v,
                            !.ifg = IF e.kind = "uscib" THEN @ ELSE @ \ {v}]
  <2>1. m' = n
    BY <1>7, <1>9 DEF S!StartInterrupt
  <2>2. v # "none"
    OBVIOUS
  <2> HIDE DEF v
  <2>3. Formed(e)
    BY <1>6 DEF SerialTurn, Formed
  <2>4. Kept(e, n)
    BY <2>3 DEF Kept, Formed, SerialFields, TxSame, RxSame
  <2>5. n.isr = v
    BY <2>3 DEF Formed, SerialFields
  <2> HIDE DEF n
  <2>6. SerialTurn(n)
    BY <1>6, <2>2, <2>4, <2>5, SameTurn DEF IntPart
  <2>7. SerialInv(n)
    BY <1>6, <2>4, <2>6 DEF SerialInv, Quiet, Kept, TxSame, RxSame
  <2> QED BY <2>1, <2>7
<1> QED BY <1>8, <1>9

LEMMA InitSerial == S!SerInit => SerialInv(m)
<1> SUFFICES ASSUME S!SerInit
             PROVE  SerialInv(m)
  OBVIOUS
<1>1. PICK p \in Ports :
        m = [kind |-> p.kind, how |-> p.how, me |-> {"tx", "rx"}, ie |-> {}, ifg |-> {"tx"},
             iv |-> {}, trig |-> {}, isr |-> "none", sets |-> 0, swrst |-> FALSE,
             txbuf |-> 0, txfull |-> FALSE, fulldelay |-> 0,
             txshift |-> 0, txempty |-> TRUE, txready |-> FALSE, txdelay |-> 0,
             rxbuf |-> 0, rxfull |-> FALSE, rxshift |-> 0, rxempty |-> TRUE, rxready |-> FALSE,
             rxdelay |-> 0, oe |-> FALSE, slavedone |-> FALSE,
             dma |-> [state |-> "RESET", en |-> FALSE, sz |-> 0, ifg |-> FALSE],
             next |-> 0, due |-> <<>>, fed |-> 0, came |-> {}]
  BY Zenon DEF S!SerInit
<1>2. DOMAIN m = SerialFields /\ DOMAIN m.dma = {"state", "en", "sz", "ifg"}
  BY <1>1 DEF SerialFields
<1>3. m.txfull = FALSE /\ m.txempty = TRUE /\ m.txready = FALSE /\ m.due = <<>>
  BY <1>1
<1>4. /\ m.rxbuf = 0 /\ m.rxfull = FALSE /\ m.rxshift = 0 /\ m.rxempty = TRUE /\ m.rxready = FALSE
      /\ m.oe = FALSE /\ m.fed = 0 /\ m.came = {}
  BY <1>1
<1>5. m.trig = {} /\ m.ie = {} /\ m.dma.state = "RESET" /\ m.how = p.how
  BY <1>1
<1>6. p.how \in {"cpu", "dmatx", "dmarx"}
  BY DEF Ports
<1>7. TxPart(m)
  BY <1>3, InFlight DEF TxPart
<1>8. RxPart(m)
  <2>1. ~ Arriving(m) /\ After(m) = {}
    BY <1>4 DEF After, Arriving
  <2>2. m.rxbuf \in Nat /\ m.rxshift \in Nat /\ m.fed \in Nat /\ m.came \in SUBSET Nat /\ \A b \in m.came : b < m.fed
    BY <1>4
  <2>3. m.rxfull \in BOOLEAN /\ m.rxempty \in BOOLEAN /\ m.rxready \in BOOLEAN /\ m.oe \in BOOLEAN
    BY <1>4
  <2>4. ~ m.rxfull /\ ~ m.rxready /\ ~ m.oe /\ m.rxempty
    BY <1>4
  <2> QED BY <1>4, <2>1, <2>2, <2>3, <2>4 DEF RxPart
<1>9. DmaPart(m) /\ IntPart(m)
  BY <1>5, <1>6 DEF DmaPart, IntPart
<1> QED BY <1>2, <1>3, <1>4, <1>5, <1>7, <1>8, <1>9 DEF SerialInv, SerialTurn, Quiet

\* A setting changes what it is about and counts.
LEMMA Counts ==
  ASSUME NEW s, SerialTurn(s), Quiet(s), S!Set(s)
  PROVE  SerialInv(m')
<1> DEFINE t == [s EXCEPT !.sets = @ + 1]
<1>1. S!EndTurn(t)
  BY DEF S!Set
<1>2. Formed(s) /\ IntPart(s)
  BY DEF SerialTurn, Formed
<1>3. Kept(s, t) /\ IntSame(s, t)
  BY <1>2 DEF Kept, Formed, SerialFields, TxSame, RxSame, IntSame
<1> HIDE DEF t
<1>4. IntPart(t)
  BY <1>2, <1>3 DEF IntPart, IntSame
<1>5. SerialTurn(t) /\ Quiet(t)
  BY <1>3, <1>4, SameTurn DEF Quiet, Kept, TxSame, RxSame
<1> QED BY <1>1, <1>5, SerialEnds

LEMMA NextSerial == SerialInv(m) /\ S!SerNext => SerialInv(m')
<1> SUFFICES ASSUME SerialInv(m), S!SerNext
             PROVE  SerialInv(m')
  OBVIOUS
<1>1. /\ SerialTurn(m) /\ Quiet(m) /\ Formed(m) /\ TxPart(m) /\ RxPart(m) /\ DmaPart(m) /\ IntPart(m)
      /\ m.trig = {}
  BY DEF SerialInv, SerialTurn, Formed
<1>2. CASE S!Nop
  BY <1>1, <1>2, SerialEnds DEF S!Nop
<1>3. CASE S!Send
  <2> DEFINE t == S!WriteTxbuf(m)
  <2>1. S!EndTurn(t)
    BY <1>3 DEF S!Send, S!WriteReg, S!UsciaWrite, S!UscibWrite
  <2>2. ~ m.txfull /\ m.how # "dmatx"
    BY <1>3 DEF S!Send
  <2>3. /\ Formed(t) /\ TxPart(t) /\ RxSame(m, t) /\ IntPart(t) /\ t.txready = m.txready
        /\ t.how = m.how /\ t.dma = m.dma /\ t.trig = m.trig
    BY <1>1, <2>2, WritesTxbuf
  <2> HIDE DEF t
  <2>4. DmaPart(t)
    BY <1>1, <2>2, <2>3 DEF DmaPart, RxSame
  <2>5. SerialTurn(t) /\ Quiet(t)
    BY <1>1, <2>3, <2>4, SameRx DEF SerialTurn, Formed, Quiet, RxSame
  <2> QED BY <2>1, <2>5, SerialEnds
<1>4. CASE S!Receive
  <2> DEFINE t == S!ReadRxbuf(m)
  <2>1. S!EndTurn(t)
    BY <1>4 DEF S!Receive, S!Read, S!UsciaRead, S!UscibRead
  <2>2. m.rxfull /\ m.how # "dmarx"
    BY <1>4 DEF S!Receive
  <2>3. /\ Formed(t) /\ RxPart(t) /\ TxSame(m, t) /\ IntPart(t) /\ t.rxready = m.rxready
        /\ t.how = m.how /\ t.dma = m.dma /\ t.trig = m.trig
    BY <1>1, <2>2, ReadsRxbuf
  <2> HIDE DEF t
  <2>4. DmaPart(t)
    BY <1>1, <2>2, <2>3 DEF DmaPart, TxSame
  <2>5. SerialTurn(t) /\ Quiet(t)
    BY <1>1, <2>3, <2>4, SameTx DEF SerialTurn, Formed, Quiet, TxSame
  <2> QED BY <2>1, <2>5, SerialEnds
<1>5. CASE S!Return
  <2> DEFINE a == [m EXCEPT !.isr = "none"]
             t == S!CheckIfg(a)
  <2>1. Kept(m, a) /\ a.ifg = m.ifg /\ a.ie = m.ie
    BY <1>1 DEF Kept, Formed, SerialFields, TxSame, RxSame
  <2> HIDE DEF a
  <2>2. Kept(a, t) /\ t.ifg = a.ifg /\ t.ie = a.ie /\ t.iv = a.iv \cup (a.ifg \cap a.ie)
    BY <2>1 DEF Kept, Formed, SerialFields, TxSame, RxSame, S!CheckIfg
  <2> HIDE DEF t
  <2>3. Kept(m, t)
    BY <2>1, <2>2 DEF Kept, TxSame, RxSame
  <2>4. IntPart(t)
    BY <2>2 DEF IntPart
  <2>5. SerialTurn(t) /\ Quiet(t)
    BY <1>1, <2>3, <2>4, SameTurn DEF Quiet, Kept, TxSame, RxSame
  <2>6. S!EndTurn(t)
    BY <1>5 DEF S!Return, t, a
  <2> QED BY <2>5, <2>6, SerialEnds
<1>6. CASE S!SetIe
  <2>1. PICK f \in {"tx", "rx"} :
          /\ IF f \in m.ie THEN m.isr = f ELSE f \notin m.ifg
          /\ S!Set([m EXCEPT !.ie = IF f \in @ THEN @ \ {f} ELSE @ \cup {f}])
    BY <1>6 DEF S!SetIe
  <2> DEFINE t == [m EXCEPT !.ie = IF f \in @ THEN @ \ {f} ELSE @ \cup {f}]
  <2>2. Kept(m, t)
    BY <1>1 DEF Kept, Formed, SerialFields, TxSame, RxSame
  <2>3. t.isr = m.isr /\ t.ifg = m.ifg /\ t.iv = m.iv /\ t.ie = IF f \in m.ie THEN m.ie \ {f} ELSE m.ie \cup {f}
    BY <1>1 DEF Formed, SerialFields
  <2> HIDE DEF t
  <2>4. IntPart(t)
    BY <1>1, <2>1, <2>3 DEF IntPart
  <2>5. SerialTurn(t) /\ Quiet(t)
    BY <1>1, <2>2, <2>4, SameTurn DEF Quiet, Kept, TxSame, RxSame
  <2> QED BY <2>1, <2>5, Counts DEF t
<1>7. CASE S!SetMe
  <2>1. PICK f \in {"tx", "rx"} : S!Set([m EXCEPT !.me = IF f \in @ THEN @ \ {f} ELSE @ \cup {f}])
    BY <1>7 DEF S!SetMe
  <2> DEFINE t == [m EXCEPT !.me = IF f \in @ THEN @ \ {f} ELSE @ \cup {f}]
  <2>2. Formed(t) /\ TxSame(m, t) /\ IntSame(m, t) /\ t.how = m.how /\ t.dma = m.dma /\ t.trig = m.trig
    BY <1>1 DEF Formed, SerialFields, TxSame, IntSame
  <2>3. /\ t.kind = m.kind /\ t.rxfull = m.rxfull /\ t.rxempty = m.rxempty /\ t.rxready = m.rxready /\ t.oe = m.oe
        /\ t.rxbuf = m.rxbuf /\ t.rxshift = m.rxshift /\ t.fed = m.fed /\ t.came = m.came /\ t.rxdelay = m.rxdelay
    BY <1>1 DEF Formed, SerialFields
  <2> HIDE DEF t
  <2>4. RxPart(t)
    <3>1. After(t) = After(m) /\ Arriving(t) = Arriving(m) /\ S!IsUart(t) = S!IsUart(m)
      BY <2>3 DEF After, Arriving, S!IsUart
    <3> QED BY <1>1, <2>3, <3>1 DEF RxPart
  <2>5. IntPart(t) /\ DmaPart(t)
    BY <1>1, <2>2, <2>3 DEF IntPart, IntSame, DmaPart, TxSame
  <2>6. SerialTurn(t) /\ Quiet(t)
    BY <1>1, <2>2, <2>3, <2>4, <2>5, SameTx DEF SerialTurn, Formed, Quiet, TxSame
  <2> QED BY <2>1, <2>6, Counts DEF t
<1>8. CASE S!WriteCtl
  <2>1. PICK rst \in BOOLEAN : m.how = "cpu" /\ S!Set(S!WriteReg(m, "ctl", rst))
    BY <1>8 DEF S!WriteCtl
  <2>2. SerialTurn(S!WriteReg(m, "ctl", rst)) /\ Quiet(S!WriteReg(m, "ctl", rst))
    BY <1>1, <2>1, WritesCtl
  <2> QED BY <2>1, <2>2, Counts
<1>9. CASE S!StartBlock
  <2>1. PICK size \in {0, Block} :
          S!Set([m EXCEPT !.dma.en = TRUE, !.dma.sz = size, !.dma.ifg = FALSE,
                          !.trig = IF m.how = "dmatx" THEN @ \cup {"tx"} ELSE @])
    BY <1>9 DEF S!StartBlock
  <2>2. m.how # "cpu" /\ m.dma.state = "RESET" /\ m.due = <<>>
    BY <1>9 DEF S!StartBlock
  <2> DEFINE t == [m EXCEPT !.dma.en = TRUE, !.dma.sz = size, !.dma.ifg = FALSE,
                            !.trig = IF m.how = "dmatx" THEN @ \cup {"tx"} ELSE @]
  <2>3. DOMAIN t = DOMAIN m /\ t.trig = (IF m.how = "dmatx" THEN {"tx"} ELSE {}) /\ t.how = m.how
    BY <1>1 DEF Formed, SerialFields
  <2>4. DOMAIN t.dma = DOMAIN m.dma /\ t.dma.state = "RESET"
    BY <1>1, <2>2 DEF Formed, SerialFields
  <2>5. TxSame(m, t)
    BY <1>1 DEF Formed, SerialFields, TxSame
  <2>6. RxSame(m, t)
    BY <1>1 DEF Formed, SerialFields, RxSame
  <2>7. IntSame(m, t)
    BY <1>1 DEF Formed, SerialFields, IntSame
  <2> HIDE DEF t
  <2>8. ~ m.txfull
    <3>1. m.due = S!TxInFlight(m)
      BY <1>1 DEF TxPart
    <3>2. <<m.txbuf>> # <<>> /\ <<m.txshift, m.txbuf>> # <<>>
      OBVIOUS
    <3> QED BY <2>2, <3>1, <3>2, InFlight
  <2>9. IntPart(t) /\ DmaPart(t)
    BY <1>1, <2>3, <2>4, <2>5, <2>7, <2>8 DEF IntPart, IntSame, DmaPart, TxSame
  <2>10. SerialTurn(t) /\ Quiet(t)
    BY <1>1, <2>3, <2>4, <2>5, <2>6, <2>9, SameTx, SameRx DEF SerialTurn, Formed, Quiet, TxSame, RxSame
  <2> QED BY <2>1, <2>10, Counts DEF t
<1>10. CASE S!StopBlock
  <2> DEFINE t == [m EXCEPT !.dma.en = FALSE]
  <2>1. S!Set(t)
    BY <1>10 DEF S!StopBlock
  <2>2. Formed(t) /\ t.dma.state = m.dma.state /\ t.how = m.how /\ t.trig = m.trig
    BY <1>1 DEF Formed, SerialFields
  <2>3. TxSame(m, t) /\ IntSame(m, t)
    BY <1>1 DEF Formed, SerialFields, TxSame, IntSame
  <2>4. RxSame(m, t)
    BY <1>1 DEF Formed, SerialFields, RxSame
  <2> HIDE DEF t
  <2>5. IntPart(t) /\ DmaPart(t)
    BY <1>1, <2>2, <2>3, <2>4 DEF IntPart, IntSame, DmaPart, TxSame, RxSame
  <2>6. SerialTurn(t) /\ Quiet(t)
    BY <1>1, <2>2, <2>3, <2>4, <2>5, SameTx, SameRx DEF SerialTurn, Formed, Quiet, TxSame, RxSame
  <2> QED BY <2>1, <2>6, Counts DEF t
<1> QED BY <1>2, <1>3, <1>4, <1>5, <1>6, <1>7, <1>8, <1>9, <1>10 DEF S!SerNext

LEMMA SerialKeeps == SerialInv(m) => S!BytesKept /\ S!SerInterruptKept
<1> SUFFICES ASSUME SerialInv(m)
             PROVE  S!BytesKept /\ S!SerInterruptKept
  OBVIOUS
<1>1. TxPart(m) /\ RxPart(m) /\ IntPart(m) /\ Quiet(m)
  BY DEF SerialInv, SerialTurn
<1>2. After(m) = IF m.rxempty THEN {} ELSE {m.rxshift}
  BY <1>1 DEF After, Arriving, Quiet
<1>3. m.oe \/ m.came = S!RxInFlight(m)
  BY <1>1, <1>2 DEF RxPart, S!RxInFlight
<1>4. m.rxfull /\ ~ m.rxempty => m.rxbuf < m.rxshift
  BY <1>1 DEF RxPart, Arriving, Quiet
<1> QED BY <1>1, <1>3, <1>4 DEF TxPart, IntPart, S!BytesKept, S!SerInterruptKept

-----------------------------------------------------------------------------
(* The interrupts: a flag that may interrupt has its vector posted, or a      *)
(* handler runs whose RETI looks at the flags again.                          *)

Asks(s) == (s.ifg \cap s.ie) \ s.late # {} => s.posted \/ s.isr
PortVector(s) == DOMAIN s = PortFields /\ Asks(s)

LEMMA PortPosts == ASSUME NEW s, PortVector(s), D!Turn(s) PROVE PortVector(m')
<1>1. PICK pins \in SUBSET Pins : m' = D!StartInterrupt(D!UpdateDone(D!Drive(D!DevRead(s), pins)))
  BY DEF D!Turn, D!EndTurn
<1> DEFINE r == D!DevRead(s)
           w == D!DevWrite(r, pins \ r.line, pins)
           d == D!Drive(r, pins)
           u == D!UpdateDone(d)
<1>2. PortVector(r)
  BY DEF PortVector, Asks, PortFields, D!DevRead
<1> HIDE DEF r
<1>3. PortVector(w)
  <2> DEFINE new == IF r.kind = "port1" THEN D!Edges(r, pins \ r.line, pins) ELSE {}
  <2>1. /\ DOMAIN w = PortFields /\ w.ifg = r.ifg \cup new /\ w.ie = r.ie /\ w.late = r.late /\ w.isr = r.isr
        /\ w.posted = (r.posted \/ r.ie \cap new # {})
    BY <1>2 DEF PortVector, PortFields, D!DevWrite
  <2> HIDE DEF w, new
  <2> QED BY <1>2, <2>1 DEF PortVector, Asks
<1>4. d = [w EXCEPT !.line = D!Differ(w.line, pins), !.blind = (w.blind \ pins) \cup (pins \cap r.dir),
                    !.odd = w.odd \cup (pins \cap (r.dir \cup r.blind)),
                    !.edges = w.edges \cup {pin \in pins : (pin \in r.ies) = (pin \in r.line)}]
  BY Zenon DEF D!Drive
<1> HIDE DEF w, d
<1>5. PortVector(d)
  BY <1>3, <1>4 DEF PortVector, Asks, PortFields
<1>6. PortVector(u)
  BY <1>5 DEF PortVector, Asks, PortFields, D!UpdateDone
<1> HIDE DEF u
<1>7. PortVector(D!StartInterrupt(u))
  BY <1>6 DEF PortVector, Asks, PortFields, D!StartInterrupt
<1> QED BY <1>1, <1>7 DEF r, d, u

LEMMA NextPortVector == PortVector(m) /\ D!PortNext => PortVector(m')
<1> SUFFICES ASSUME PortVector(m), D!PortNext
             PROVE  PortVector(m')
  OBVIOUS
<1>1. DOMAIN m = PortFields /\ Asks(m)
  BY DEF PortVector
<1>2. \A val : PortVector(D!WriteIfg(m, val))
  <2> SUFFICES ASSUME NEW val PROVE PortVector(D!WriteIfg(m, val))
    OBVIOUS
  <2> DEFINE t == D!WriteIfg(m, val)
  <2>1. /\ DOMAIN t = PortFields /\ t.ifg = val /\ t.ie = m.ie /\ t.isr = m.isr /\ t.late = m.late \cap val
        /\ t.posted = (m.posted \/ (val \ m.ifg # {} /\ m.ie \cap val # {}))
    BY <1>1 DEF PortFields, D!WriteIfg
  <2> HIDE DEF t
  <2>2. PortVector(t)
    BY <1>1, <2>1 DEF PortVector, Asks
  <2> QED BY <2>2 DEF t
<1>3. \A t, n : PortVector(t) => PortVector([t EXCEPT !.settings = n])
  BY DEF PortVector, Asks, PortFields
<1>4. CASE D!PortNop
  BY <1>4, PortPosts DEF D!PortNop
<1>5. CASE D!SetUpPort
  <2> DEFINE Set(val, w) ==
        CASE w = 1 -> D!WriteDir(m, val) [] w = 2 -> D!WriteSel(m, val) [] w = 3 -> D!WriteIes(m, val)
          [] w = 4 -> D!WriteIe(m, val) [] OTHER -> D!Reset(m)
  <2>1. PICK val \in SUBSET Pins, w \in {1, 2, 3, 4, 5} : D!Turn([Set(val, w) EXCEPT !.settings = @ + 1])
    BY <1>5 DEF D!SetUpPort
  <2>2. PortVector(Set(val, w))
    <3>1. PortVector(D!WriteDir(m, val)) /\ PortVector(D!WriteSel(m, val)) /\ PortVector(D!WriteIes(m, val))
      BY <1>1 DEF D!WriteDir, D!WriteSel, D!WriteIes, PortVector, Asks, PortFields
    <3>2. PortVector(D!WriteIe(m, val))
      <4> DEFINE t == D!WriteIe(m, val)
      <4>1. /\ DOMAIN t = PortFields /\ t.ifg = m.ifg /\ t.ie = val /\ t.isr = m.isr /\ t.posted = m.posted
            /\ t.late = (m.late \cup (val \ m.ie)) \cap m.ifg \cap val
        BY <1>1 DEF PortFields, D!WriteIe
      <4> HIDE DEF t
      <4>2. PortVector(t)
        BY <1>1, <4>1 DEF PortVector, Asks
      <4> QED BY <4>2 DEF t
    <3>3. PortVector(D!Reset(m))
      BY <1>1 DEF D!Reset, PortVector, Asks, PortFields
    <3> QED BY <3>1, <3>2, <3>3
  <2> HIDE DEF Set
  <2>3. PortVector([Set(val, w) EXCEPT !.settings = @ + 1])
    BY <1>3, <2>2
  <2> QED BY <2>1, <2>3, PortPosts
<1>6. CASE D!Output
  <2>1. \A val : PortVector(D!WriteOut(m, val))
    BY <1>1 DEF D!WriteOut, PortVector, Asks, PortFields
  <2> QED BY <1>6, <2>1, PortPosts DEF D!Output
<1>7. CASE D!Acknowledge
  BY <1>2, <1>7, PortPosts DEF D!Acknowledge
<1>8. CASE D!SoftInterrupt
  <2>1. PICK val \in SUBSET Pins : D!Turn([D!WriteIfg(m, val) EXCEPT !.settings = @ + 1])
    BY <1>8 DEF D!SoftInterrupt
  <2>2. PortVector([D!WriteIfg(m, val) EXCEPT !.settings = @ + 1])
    BY <1>2, <1>3
  <2> QED BY <2>1, <2>2, PortPosts
<1>9. CASE D!Return
  <2> DEFINE r == [m EXCEPT !.isr = FALSE]
             t == D!CheckIfg(r)
  <2>1. DOMAIN r = PortFields
    BY <1>1
  <2> HIDE DEF r
  <2>2. /\ DOMAIN t = PortFields /\ t.ifg = r.ifg /\ t.ie = r.ie /\ t.late = {}
        /\ t.posted = (r.posted \/ r.ifg \cap r.ie # {})
    BY <2>1 DEF D!CheckIfg, PortFields
  <2> HIDE DEF t
  <2>3. PortVector(t)
    BY <2>2 DEF PortVector, Asks
  <2> QED BY <1>9, <2>3, PortPosts DEF D!Return, r, t
<1>10. CASE D!AvrStore
  <2>1. PICK addr \in D!Addresses, val \in 1..2 :
          m' = [D!AvrWrite(m, addr, val) EXCEPT
                  !.settings = @ + 1, !.wrote = IF addr \in D!PinOf THEN @ ELSE [@ EXCEPT ![addr] = val]]
    BY <1>10, Zenon DEF D!AvrStore
  <2> DEFINE w == D!AvrWrite(m, addr, val)
  <2>2. PortVector(w)
    BY <1>1 DEF D!AvrWrite, PortVector, Asks, PortFields
  <2> HIDE DEF w
  <2>3. \A wrote, n : PortVector([w EXCEPT !.settings = n, !.wrote = wrote])
    BY <2>2 DEF PortVector, Asks, PortFields
  <2> QED BY <2>1, <2>3, Zenon DEF w
<1>11. CASE D!AvrOver
  BY <1>11 DEF D!AvrOver
<1> QED BY <1>4, <1>5, <1>6, <1>7, <1>8, <1>9, <1>10, <1>11 DEF D!PortNext

LEMMA InitPortVector == D!PortInit => PortVector(m)
BY DEF D!PortInit, PortVector, Asks, PortFields

LEMMA NoElement == A!Cardinality({}) = 0
<1>1. \A x : A!Cardinality(x) = Cardinality(x)
  BY DEF A!Cardinality, Cardinality
<1> QED BY <1>1, FS_EmptySet

AdcVector(s) == DOMAIN s = AdcFields /\ (A!Cardinality(s.ifg \cap s.ie) = 1 => s.posted \/ s.isr)

\* What AdcVector is about.
SameFlags(s, t) ==
  DOMAIN t = AdcFields /\ t.ifg = s.ifg /\ t.ie = s.ie /\ t.posted = s.posted /\ t.isr = s.isr

LEMMA AdcLooks == ASSUME NEW s, DOMAIN s = AdcFields PROVE AdcVector(A!CheckIfg(s))
<1>1. CASE A!Cardinality(s.ifg \cap s.ie) = 1
  <2> DEFINE t == [s EXCEPT !.posted = TRUE]
  <2>1. DOMAIN t = AdcFields /\ t.posted = TRUE
    BY DEF AdcFields
  <2> HIDE DEF t
  <2>2. A!CheckIfg(s) = t
    BY <1>1 DEF A!CheckIfg, t
  <2> QED BY <2>1, <2>2 DEF AdcVector
<1>2. CASE A!Cardinality(s.ifg \cap s.ie) # 1
  BY <1>2 DEF A!CheckIfg, AdcVector
<1> QED BY <1>1, <1>2

LEMMA AdcPosts == ASSUME NEW s, AdcVector(s), A!EndTurn(s) PROVE AdcVector(m')
<1> DEFINE Good(t) == AdcVector(t)
<1>1. \A t, st : Good(t) => Good(A!SetState(t, st))
  BY DEF A!SetState, AdcVector, AdcFields
<1>2. \A t : Good(t) => Good(A!Continue(t))
  BY <1>1 DEF A!Continue
<1>3. \A t : Good(t) => Good(A!Finish(t))
  <2>1. \A t, st : Good(t) => Good([A!SetState(t, st) EXCEPT !.enc = FALSE])
    BY <1>1 DEF AdcVector, AdcFields
  <2> QED BY <2>1 DEF A!Finish
<1>4. \A t : Good(t) => Good(A!Advance(t))
  <2>1. \A t, x : Good(t) => Good([t EXCEPT !.x = x])
    BY DEF AdcVector, AdcFields
  <2> QED BY <1>2, <2>1 DEF A!Advance
<1>5. \A t : Good(t) => Good(A!Sample(t))
  <2>1. \A t, x, n : Good(t) => Good([t EXCEPT !.sample = x, !.since = n])
    BY DEF AdcVector, AdcFields
  <2> HIDE DEF Good
  <2> QED BY <1>1, <2>1, Zenon DEF A!Sample
\* A conversion looks at the flags as it raises its own.
<1>6. \A t : Good(t) => Good(A!Store(t))
  <2> SUFFICES ASSUME NEW t, Good(t) PROVE Good(A!Store(t))
    OBVIOUS
  <2> DEFINE done == [x |-> t.x, sample |-> t.sample, k |-> (t.done.k + 1) % Channels]
             c == A!SetState(t, "STORE")
             r == [c EXCEPT !.ifg = @ \cup {t.x}, !.done = done]
             n == A!CheckIfg(r)
  <2>1. DOMAIN r = AdcFields
    <3>1. DOMAIN c = AdcFields
      BY <1>1 DEF AdcVector
    <3> HIDE DEF c
    <3> QED BY <3>1
  <2> HIDE DEF r
  <2>2. Good(n)
    BY <2>1, AdcLooks
  <2>3. A!Store(t) = CASE t.conseq = A!SINGLE -> A!Finish(n)
                       [] t.conseq = A!SEQ -> IF t.x \in t.eos THEN A!Finish(n) ELSE A!Advance(n)
                       [] t.conseq = A!REPEAT -> A!Continue(n)
                       [] OTHER -> A!Advance(n)
    BY Zenon DEF A!Store, r
  <2> HIDE DEF n, Good
  <2> QED BY <1>2, <1>3, <1>4, <2>2, <2>3 DEF A!SINGLE, A!SEQ, A!REPEAT
<1>7. \A t, n : Good(t) => Good(A!Convert(t, n))
  <2> HIDE DEF Good
  <2>1. \A t : Good(t) => Good(A!Enable(t))
    BY <1>1 DEF A!Enable
  <2> QED BY <1>1, <1>5, <1>6, <2>1 DEF A!Convert
<1>8. PICK ticks \in AdcTicks : m' = A!StartInterrupt(A!AdcUpdate(s, ticks))
  BY DEF A!EndTurn
<1> DEFINE u == A!AdcUpdate(s, ticks)
<1>9. Good(u)
  <2>1. \A sht, since : Good([s EXCEPT !.sht = sht, !.since = since])
    BY DEF AdcVector, AdcFields
  <2> HIDE DEF Good
  <2>2. CASE s.on
    BY <1>7, <2>1, <2>2, Zenon DEF A!AdcUpdate
  <2>3. CASE ~ s.on
    <3>1. Good(s)
      BY DEF Good
    <3> QED BY <1>1, <2>3, <3>1 DEF A!AdcUpdate
  <2> QED BY <2>2, <2>3
<1> HIDE DEF u
<1>10. AdcVector(A!StartInterrupt(u))
  BY <1>9 DEF A!StartInterrupt, AdcVector, AdcFields
<1> QED BY <1>8, <1>10 DEF u

LEMMA NextAdcVector == AdcVector(m) /\ A!AdcNext => AdcVector(m')
<1> SUFFICES ASSUME AdcVector(m), A!AdcNext
             PROVE  AdcVector(m')
  OBVIOUS
<1>1. DOMAIN m = AdcFields
  BY DEF AdcVector
<1>2. \A t : SameFlags(m, t) => AdcVector(t)
  BY DEF SameFlags, AdcVector
<1>3. CASE A!Nop
  BY <1>3, AdcPosts DEF A!Nop
<1>4. CASE A!Write0
  <2>1. PICK on \in BOOLEAN, enc \in BOOLEAN, sc \in BOOLEAN :
          A!EndTurn([A!WriteCtl0(m, on, enc, sc) EXCEPT !.starts = IF enc /\ ~ m.enc THEN @ + 1 ELSE @])
    BY <1>4 DEF A!Write0
  <2> DEFINE w == A!WriteCtl0(m, on, enc, sc)
             t == [w EXCEPT !.starts = IF enc /\ ~ m.enc THEN @ + 1 ELSE @]
  <2>2. SameFlags(m, w)
    BY <1>1 DEF A!WriteCtl0, AdcFields, SameFlags
  <2> HIDE DEF w
  <2>3. SameFlags(m, t)
    BY <2>2 DEF AdcFields, SameFlags
  <2> HIDE DEF t
  <2>4. AdcVector(t)
    BY <1>2, <2>3
  <2> QED BY <2>1, <2>4, AdcPosts DEF t, w
<1>5. CASE A!SetUp
  <2>1. PICK start \in A!Memories, last \in A!Memories : A!EndTurn(A!Configure(m, m.conseq, start, {last}))
    BY <1>5 DEF A!SetUp
  <2>2. SameFlags(m, A!Configure(m, m.conseq, start, {last}))
    BY <1>1 DEF A!Configure, AdcFields, SameFlags
  <2> QED BY <1>2, <2>1, <2>2, AdcPosts
<1>6. CASE A!Read
  <2>1. PICK x \in m.ifg : (x \in m.ie => m.isr) /\ A!EndTurn(A!ReadMem(m, x))
    BY <1>6 DEF A!Read
  <2> DEFINE t == A!ReadMem(m, x)
  <2>2. DOMAIN t = AdcFields /\ t.ifg = m.ifg \ {x} /\ t.ie = m.ie /\ t.posted = m.posted /\ t.isr = m.isr
    BY <1>1 DEF A!ReadMem, AdcFields
  <2> HIDE DEF t
  <2>3. AdcVector(t)
    <3>1. CASE x \in m.ie
      BY <2>1, <2>2, <3>1 DEF AdcVector
    <3>2. CASE x \notin m.ie
      <4>1. t.ifg \cap t.ie = m.ifg \cap m.ie
        BY <2>2, <3>2
      <4> QED BY <2>2, <4>1 DEF AdcVector
    <3> QED BY <3>1, <3>2
  <2> QED BY <2>1, <2>3, AdcPosts DEF t
<1>7. CASE A!Allow
  <2>1. PICK ie \in SUBSET (A!Memories \ m.ifg) : A!EndTurn(A!WriteIe(m, ie))
    BY <1>7 DEF A!Allow
  <2> DEFINE t == A!WriteIe(m, ie)
  <2>2. DOMAIN t = AdcFields /\ t.ifg = m.ifg /\ t.ie = ie
    BY <1>1 DEF A!WriteIe, AdcFields
  <2> HIDE DEF t
  <2>3. t.ifg \cap t.ie = {} /\ A!Cardinality({}) = 0
    BY <2>1, <2>2, NoElement
  <2>4. AdcVector(t)
    BY <2>2, <2>3 DEF AdcVector
  <2> QED BY <2>1, <2>4, AdcPosts DEF t
<1>8. CASE A!Return
  <2> DEFINE r == [m EXCEPT !.isr = FALSE]
  <2>1. DOMAIN r = AdcFields
    BY <1>1
  <2> HIDE DEF r
  <2>2. AdcVector(A!CheckIfg(r))
    BY <2>1, AdcLooks
  <2> QED BY <1>8, <2>2, AdcPosts DEF A!Return, r
<1> QED BY <1>3, <1>4, <1>5, <1>6, <1>7, <1>8 DEF A!AdcNext

LEMMA InitAdcVector == A!AdcInit => AdcVector(m)
BY NoElement DEF A!AdcInit, AdcVector, AdcFields

\* The watchdog's flag, with the mode and the mistakes that keep it from the core.
Due(s) == s.wd.tmsel /\ "wdt" \in s.ifg \cap s.ie /\ ~ s.odd
Shaped(s) ==
  DOMAIN s = SystemFields /\ DOMAIN s.wd = {"hold", "tmsel", "is", "cnt", "limit", "age", "ends", "mixed"}
  /\ s.wd.tmsel \in BOOLEAN
VectorInv(s) ==
  /\ Shaped(s)
  /\ s.gie \in BOOLEAN /\ s.stack \in Seq(BOOLEAN) /\ s.odd \in BOOLEAN
  /\ Due(s) => Y!INTR_WATCHDOG \in s.iv \/ s.stack # <<>>
\* What VectorInv is about.
SameVector(s, t) ==
  /\ t.gie = s.gie /\ t.stack = s.stack /\ t.odd = s.odd /\ t.iv = s.iv /\ t.ie = s.ie /\ t.ifg = s.ifg
  /\ Shaped(t) /\ t.wd.tmsel = s.wd.tmsel

LEMMA VectorKept ==
  ASSUME NEW s, VectorInv(s), NEW t, SameVector(s, t)
  PROVE  VectorInv(t)
BY DEF VectorInv, SameVector, Due

LEMMA Appended ==
  ASSUME NEW q \in Seq(BOOLEAN), NEW b \in BOOLEAN
  PROVE  Append(q, b) \in Seq(BOOLEAN) /\ Append(q, b) # <<>>
OBVIOUS

LEMMA VectorEnters ==
  ASSUME NEW s, VectorInv(s), NEW n
  PROVE  VectorInv(Y!Enter(s, n))
<1> DEFINE t == Y!Enter(s, n)
<1>0. DOMAIN s = SystemFields /\ Shaped(s)
  BY DEF VectorInv, Shaped
<1>1. /\ DOMAIN t = SystemFields /\ t.wd = s.wd /\ t.ie = s.ie /\ t.iv = s.iv \ {n} /\ t.gie = FALSE
      /\ t.stack = IF n = Y!INTR_RESET THEN <<>> ELSE Append(s.stack, s.gie)
  BY <1>0 DEF Y!Enter, SystemFields
<1>2. t.ifg = IF n = Y!INTR_WATCHDOG /\ s.wd.tmsel THEN s.ifg \ {"wdt"} ELSE s.ifg
  BY <1>0 DEF Y!Enter, SystemFields
<1>3. t.odd = (s.odd \/ (n = Y!INTR_RESET /\ "wdt" \in s.ifg))
  BY <1>0 DEF Y!Enter, SystemFields
<1> HIDE DEF t
<1>4. Shaped(t) /\ s.gie \in BOOLEAN /\ s.stack \in Seq(BOOLEAN) /\ s.odd \in BOOLEAN
  BY <1>0, <1>1 DEF VectorInv, Shaped
<1>5. ASSUME n = Y!INTR_RESET PROVE VectorInv(t)
  <2>1. t.stack = <<>> /\ t.stack \in Seq(BOOLEAN)
    BY <1>1, <1>5
  <2>2. ~ Due(t)
    <3>1. CASE "wdt" \in s.ifg
      BY <1>3, <1>5, <3>1 DEF Due
    <3>2. CASE "wdt" \notin s.ifg
      BY <1>2, <3>2 DEF Due
    <3> QED BY <3>1, <3>2
  <2>3. t.odd \in BOOLEAN
    BY <1>3, <1>4
  <2> QED BY <1>1, <1>4, <2>1, <2>2, <2>3 DEF VectorInv
<1>6. ASSUME n # Y!INTR_RESET PROVE VectorInv(t)
  <2>1. t.stack \in Seq(BOOLEAN) /\ t.stack # <<>>
    BY <1>1, <1>4, <1>6, Appended
  <2>2. t.odd \in BOOLEAN
    BY <1>3, <1>4
  <2> QED BY <1>1, <1>4, <2>1, <2>2 DEF VectorInv
<1>7. VectorInv(t)
  BY <1>5, <1>6
<1> QED BY <1>7 DEF t

LEMMA Posts ==
  ASSUME NEW s, VectorInv(s), NEW n
  PROVE  VectorInv(Y!InterruptSet(s, n))
<1>0. DOMAIN s = SystemFields
  BY DEF VectorInv, Shaped
<1> DEFINE t == Y!InterruptSet(s, n)
<1>1. /\ DOMAIN t = SystemFields /\ t.wd = s.wd /\ t.ie = s.ie /\ t.iv = s.iv \cup {n} /\ t.gie = s.gie
      /\ t.stack = s.stack /\ t.ifg = s.ifg /\ t.odd = s.odd
  BY <1>0 DEF Y!InterruptSet, SystemFields
<1> HIDE DEF t
<1>2. VectorInv(t)
  BY <1>1 DEF VectorInv, Due, Shaped
<1> QED BY <1>1, <1>2 DEF t

LEMMA WatchPosts ==
  ASSUME NEW s, VectorInv(s), NEW n \in Cycles
  PROVE  VectorInv(Y!WatchdogUpdate(s, n))
<1> DEFINE w == Y!WatchdogCount(s.wd, n)
           c == [s EXCEPT !.wd = w]
           set == [c EXCEPT !.ifg = @ \cup {"wdt"}]
<1>1. DOMAIN s = SystemFields /\ Shaped(s)
  BY DEF VectorInv, Shaped
<1>2. DOMAIN w = DOMAIN s.wd /\ w.tmsel = s.wd.tmsel
  BY <1>1 DEF Y!WatchdogCount, Shaped
<1> HIDE DEF w
<1>3. DOMAIN c = SystemFields /\ SameVector(s, c)
  BY <1>1, <1>2 DEF SystemFields, SameVector, Shaped
<1>4. VectorInv(c)
  BY <1>3, VectorKept
<1> HIDE DEF c
<1>5. /\ DOMAIN set = SystemFields /\ set.wd = c.wd /\ set.ie = c.ie /\ set.iv = c.iv /\ set.gie = c.gie
      /\ set.stack = c.stack /\ set.ifg = c.ifg \cup {"wdt"} /\ set.odd = c.odd
  BY <1>3 DEF SystemFields
<1>6. c.wd.tmsel = s.wd.tmsel /\ c.ie = s.ie /\ Shaped(set)
  BY <1>3, <1>5 DEF SameVector, Shaped
<1>7. Y!WatchdogUpdate(s, n) =
        IF s.wd.hold THEN s
        ELSE IF s.wd.cnt + n <= s.wd.limit THEN c
        ELSE IF ~ s.wd.tmsel THEN [Y!InterruptSet(set, Y!INTR_RESET) EXCEPT !.odd = TRUE]
        ELSE IF "wdt" \in s.ie THEN Y!InterruptSet(set, Y!INTR_WATCHDOG) ELSE set
  BY Zenon DEF Y!WatchdogUpdate, c, w
<1> HIDE DEF set
\* The end of an interval as a watchdog: the reset is posted, the flag is for the program.
<1>8. VectorInv([Y!InterruptSet(set, Y!INTR_RESET) EXCEPT !.odd = TRUE])
  <2> DEFINE p == Y!InterruptSet(set, Y!INTR_RESET)
             t == [p EXCEPT !.odd = TRUE]
  <2>1. DOMAIN p = SystemFields /\ p.wd = set.wd /\ p.gie = set.gie /\ p.stack = set.stack
    BY <1>5 DEF SystemFields, Y!InterruptSet
  <2> HIDE DEF p
  <2>2. DOMAIN t = SystemFields /\ t.wd = p.wd /\ t.odd = TRUE /\ t.gie = p.gie /\ t.stack = p.stack
    BY <2>1 DEF SystemFields
  <2> HIDE DEF t
  <2>3. VectorInv(t)
    BY <1>4, <1>5, <1>6, <2>1, <2>2 DEF VectorInv, Due, Shaped
  <2> QED BY <2>3 DEF t, p
<1>9. CASE s.wd.tmsel /\ "wdt" \in s.ie
  <2> DEFINE t == Y!InterruptSet(set, Y!INTR_WATCHDOG)
  <2>1. /\ DOMAIN t = SystemFields /\ t.wd = set.wd /\ t.gie = set.gie /\ t.stack = set.stack /\ t.odd = set.odd /\ t.iv = set.iv \cup {Y!INTR_WATCHDOG}
    BY <1>5 DEF SystemFields, Y!InterruptSet
  <2> HIDE DEF t
  <2>2. VectorInv(t)
    BY <1>4, <1>5, <1>6, <2>1 DEF VectorInv, Shaped
  <2> QED BY <1>4, <1>7, <1>9, <2>2 DEF t
<1>10. CASE s.wd.tmsel /\ "wdt" \notin s.ie
  <2>1. VectorInv(set)
    BY <1>4, <1>5, <1>6, <1>10 DEF VectorInv, Due
  <2> QED BY <1>4, <1>7, <1>10, <2>1
<1>11. CASE ~ s.wd.tmsel
  BY <1>4, <1>7, <1>8, <1>11
<1> QED BY <1>9, <1>10, <1>11

LEMMA VectorTurns == ASSUME NEW s, VectorInv(s), Y!EndTurn(s) PROVE VectorInv(m')
<1>1. PICK n \in Cycles :
        m' = Y!InterruptStartIfAny([Y!WatchdogUpdate(s, n) EXCEPT !.flash = Y!FlashUpdate(@, n)])
  BY DEF Y!EndTurn
<1> DEFINE u == Y!WatchdogUpdate(s, n)
           t == [u EXCEPT !.flash = Y!FlashUpdate(@, n)]
<1>2. VectorInv(u)
  BY WatchPosts
<1> HIDE DEF u
<1>3. SameVector(u, t)
  BY <1>2 DEF SystemFields, SameVector, VectorInv, Shaped
<1> HIDE DEF t
<1>4. VectorInv(t)
  BY <1>2, <1>3, VectorKept
<1>5. m' = Y!InterruptStartIfAny(t)
  BY <1>1 DEF t, u
<1> QED BY <1>3, <1>4, <1>5, VectorEnters DEF Y!InterruptStartIfAny

LEMMA VectorReset == ASSUME NEW s, VectorInv(s) PROVE VectorInv(Y!McuReset(s))
<1> DEFINE w == [Y!WatchdogReset(s.wd) EXCEPT !.age = 0, !.ends = 0, !.mixed = FALSE]
           f == [Y!FlashReset(s.flash) EXCEPT !.job = "none", !.stuck = s.flash.stuck \/ s.flash.jump]
           t == Y!McuReset(s)
<1>1. DOMAIN s = SystemFields /\ DOMAIN w = DOMAIN s.wd /\ w.tmsel = s.wd.tmsel /\ Shaped(s)
  BY DEF VectorInv, Shaped, Y!WatchdogReset
<1>2. t = [s EXCEPT !.ie = {}, !.ifg = {}, !.iv = {}, !.gie = FALSE, !.stack = <<>>, !.odd = FALSE,
                    !.wd = w, !.flash = f]
  BY Zenon DEF Y!McuReset
<1> HIDE DEF w, f, t
<1>3. /\ DOMAIN t = SystemFields /\ t.wd = w /\ t.ifg = {} /\ t.gie = FALSE /\ t.stack = <<>> /\ t.odd = FALSE
  BY <1>1, <1>2 DEF SystemFields
<1>4. Shaped(t)
  BY <1>1, <1>3 DEF Shaped
<1>5. t.gie \in BOOLEAN /\ t.odd \in BOOLEAN /\ t.stack \in Seq(BOOLEAN)
  <2>1. t.gie \in BOOLEAN /\ t.odd \in BOOLEAN
    BY <1>3, Zenon
  <2>2. t.stack \in Seq(BOOLEAN)
    BY <1>3
  <2> QED BY <2>1, <2>2
<1>6. VectorInv(t)
  BY <1>3, <1>4, <1>5 DEF VectorInv, Due
<1> QED BY <1>6 DEF t

LEMMA WdtctlPosts ==
  ASSUME NEW s, VectorInv(s), NEW good \in BOOLEAN, NEW hold, NEW tmsel \in BOOLEAN, NEW clear, NEW is
  PROVE  VectorInv(Y!WriteWdtctl(s, good, hold, tmsel, clear, is))
<1> DEFINE r == IF good THEN s ELSE Y!McuReset(s)
           t == Y!WriteWdtctl(s, good, hold, tmsel, clear, is)
<1>1. VectorInv(r)
  BY VectorReset
<1> HIDE DEF r
<1>2. DOMAIN r = SystemFields /\ r.wd.tmsel \in BOOLEAN
  BY <1>1 DEF VectorInv, Shaped
<1>3. \E w : /\ w.tmsel = tmsel /\ DOMAIN w = {"hold", "tmsel", "is", "cnt", "limit", "age", "ends", "mixed"}
             /\ t = [r EXCEPT !.wd = w, !.odd = @ \/ (tmsel # r.wd.tmsel /\ "wdt" \in r.ifg)]
  <2>1. \A hh, ii, cc, aa, ee, ll, mm :
          LET w == [hold |-> hh, tmsel |-> tmsel, is |-> ii, cnt |-> cc, age |-> aa, ends |-> ee, limit |-> ll,
                    mixed |-> mm]
          IN  w.tmsel = tmsel /\ DOMAIN w = {"hold", "tmsel", "is", "cnt", "limit", "age", "ends", "mixed"}
    OBVIOUS
  <2> QED BY <2>1, Zenon DEF Y!WriteWdtctl, r
<1> HIDE DEF t
<1>4. /\ Shaped(t) /\ t.wd.tmsel = tmsel /\ t.gie = r.gie /\ t.stack = r.stack /\ t.ifg = r.ifg /\ t.ie = r.ie /\ t.iv = r.iv
      /\ t.odd = (r.odd \/ (tmsel # r.wd.tmsel /\ "wdt" \in r.ifg))
  BY <1>2, <1>3 DEF SystemFields, Shaped
<1>5. VectorInv(t)
  BY <1>1, <1>2, <1>4 DEF VectorInv, Due
<1> QED BY <1>5 DEF t

LEMMA NextVector == VectorInv(m) /\ Y!SystemNext => VectorInv(m')
<1> SUFFICES ASSUME VectorInv(m), Y!SystemNext
             PROVE  VectorInv(m')
  OBVIOUS
<1>1. /\ Shaped(m) /\ DOMAIN m = SystemFields /\ m.gie \in BOOLEAN /\ m.stack \in Seq(BOOLEAN) /\ m.odd \in BOOLEAN
  BY DEF VectorInv, Shaped
<1>2. \A t : SameVector(m, t) => VectorInv(t)
  BY VectorKept
<1>3. SameVector(m, Y!Counted) /\ VectorInv(Y!Counted) /\ DOMAIN Y!Counted = SystemFields
  <2>1. SameVector(m, Y!Counted)
    BY <1>1 DEF Y!Counted, SystemFields, SameVector, Shaped
  <2> QED BY <1>2, <2>1 DEF VectorInv, Shaped
<1>4. \A f : VectorInv([m EXCEPT !.flash = f])
  <2>1. \A f : SameVector(m, [m EXCEPT !.flash = f])
    BY <1>1 DEF SystemFields, SameVector, Shaped
  <2> QED BY <1>2, <2>1
<1>5. \A f : VectorInv([Y!Counted EXCEPT !.flash = f])
  <2>1. \A f : SameVector(m, [Y!Counted EXCEPT !.flash = f])
    BY <1>3 DEF SystemFields, SameVector, Shaped
  <2> QED BY <1>2, <2>1
<1>6. CASE Y!Nop
  BY <1>6, VectorTurns DEF Y!Nop
<1>7. CASE Y!SetGie
  <2> DEFINE t == [m EXCEPT !.gie = ~ @]
  <2>1. /\ DOMAIN t = SystemFields /\ t.gie = ~ m.gie /\ t.stack = m.stack /\ t.iv = m.iv /\ t.ie = m.ie
        /\ t.ifg = m.ifg /\ t.wd = m.wd /\ t.odd = m.odd
    BY <1>1 DEF SystemFields
  <2> HIDE DEF t
  <2>2. VectorInv(t)
    BY <1>1, <2>1 DEF VectorInv, Shaped, Due
  <2> QED BY <1>7, <2>2, VectorTurns DEF Y!SetGie, t
<1>8. CASE Y!Reti
  <2> DEFINE r == [m EXCEPT !.gie = Y!Last(m.stack), !.stack = Y!Front(m.stack)]
             f == Y!FlashCheckIfg(r)
             p == Y!InterruptSet(f, Y!INTR_WATCHDOG)
             t == [p EXCEPT !.odd = FALSE]
  <2>1. m.stack # <<>>
    BY <1>8 DEF Y!Reti
  <2>2. Y!Last(m.stack) \in BOOLEAN /\ Y!Front(m.stack) \in Seq(BOOLEAN)
    BY <1>1, <2>1 DEF Y!Last, Y!Front
  <2>3. /\ DOMAIN r = SystemFields /\ r.wd = m.wd /\ r.odd = m.odd /\ r.gie \in BOOLEAN /\ r.stack \in Seq(BOOLEAN)
    BY <1>1, <2>2 DEF SystemFields
  <2> HIDE DEF r
\* Whatever the flash has done, the core is well formed; the watchdog looks last.
  <2>4. Shaped(f) /\ f.gie \in BOOLEAN /\ f.stack \in Seq(BOOLEAN) /\ f.odd \in BOOLEAN
    <3>1. Shaped(r)
      BY <1>1, <2>3 DEF Shaped
    <3>2. CASE r.flash.keyv
      <4> DEFINE e == [r EXCEPT !.odd = TRUE]
      <4>1. VectorInv(e)
        BY <1>1, <2>3, <3>1 DEF VectorInv, Shaped, Due, SystemFields
      <4>2. Y!McuReset(e) = Y!McuReset(r)
        <5>1. e.wd = r.wd /\ e.flash = r.flash
          BY <2>3 DEF SystemFields
        <5> QED BY <2>3, <5>1 DEF SystemFields, Y!McuReset
      <4>3. VectorInv(Y!McuReset(r))
        BY <4>1, <4>2, VectorReset
      <4> QED BY <3>2, <4>3 DEF Y!FlashCheckIfg, VectorInv
    <3>3. CASE ~ r.flash.keyv
      <4>1. /\ DOMAIN f = SystemFields /\ f.wd = r.wd /\ f.odd = r.odd /\ f.gie = r.gie /\ f.stack = r.stack
        BY <2>3, <3>3 DEF SystemFields, Y!FlashCheckIfg, Y!InterruptSet
      <4> QED BY <1>1, <2>3, <3>1, <4>1 DEF Shaped
    <3> QED BY <3>2, <3>3
  <2> HIDE DEF f
  <2>5. CASE "wdt" \in f.ifg \cap f.ie
    <3>1. /\ DOMAIN p = SystemFields /\ p.wd = f.wd /\ p.gie = f.gie /\ p.stack = f.stack
          /\ p.iv = f.iv \cup {Y!INTR_WATCHDOG}
      BY <2>4 DEF Y!InterruptSet, SystemFields, Shaped
    <3> HIDE DEF p
    <3>2. DOMAIN t = SystemFields /\ t.wd = p.wd /\ t.gie = p.gie /\ t.stack = p.stack /\ t.iv = p.iv /\ t.odd = FALSE
      BY <3>1 DEF SystemFields
    <3> HIDE DEF t
    <3>3. VectorInv(t)
      BY <2>4, <3>1, <3>2 DEF VectorInv, Shaped
    <3>4. Y!Return(m) = t
      BY <2>5, Zenon DEF Y!Return, Y!CheckIfg, Y!WatchdogCheckIfg, f, r, t, p
    <3> QED BY <1>8, <3>3, <3>4, VectorTurns DEF Y!Reti
  <2>6. CASE "wdt" \notin f.ifg \cap f.ie
    <3>1. VectorInv(f)
      BY <2>4, <2>6 DEF VectorInv, Due
    <3>2. Y!Return(m) = f
      BY <2>6, Zenon DEF Y!Return, Y!CheckIfg, Y!WatchdogCheckIfg, f, r
    <3> QED BY <1>8, <3>1, <3>2, VectorTurns DEF Y!Reti
  <2> QED BY <2>5, <2>6
<1>9. CASE Y!Other
  BY <1>3, <1>9, Posts, VectorTurns DEF Y!Other
<1>10. CASE Y!WriteIe
  <2>1. \E ie \in {{}, {"acc"}, {"wdt"}} :
          /\ ie # m.ie
          /\ Y!EndTurn([Y!Counted EXCEPT !.ie = ie, !.odd = (@ \/ ie \ m.ie # {}) /\ "wdt" \in m.ifg])
    <3>1. \A ie \in SUBSET (IF m.kind = "flash" THEN {"acc"} ELSE {"wdt"}) : ie \in {{}, {"acc"}, {"wdt"}}
      OBVIOUS
    <3> QED BY <1>10, <3>1, Zenon DEF Y!WriteIe
  <2>2. PICK ie \in {{}, {"acc"}, {"wdt"}} :
          /\ ie # m.ie
          /\ Y!EndTurn([Y!Counted EXCEPT !.ie = ie, !.odd = (@ \/ ie \ m.ie # {}) /\ "wdt" \in m.ifg])
    BY <2>1
  <2> DEFINE c == Y!Counted
             t == [c EXCEPT !.ie = ie, !.odd = (@ \/ ie \ m.ie # {}) /\ "wdt" \in m.ifg]
  <2> HIDE DEF c
  <2>3. /\ DOMAIN t = SystemFields /\ t.gie = c.gie /\ t.stack = c.stack /\ t.iv = c.iv /\ t.ie = ie
        /\ t.ifg = c.ifg /\ t.wd = c.wd
    BY <1>3 DEF SystemFields, c
  <2>4. t.odd = ((c.odd \/ ie \ m.ie # {}) /\ "wdt" \in m.ifg)
    BY <1>3 DEF SystemFields, c
  <2> HIDE DEF t
  <2>5. /\ c.gie = m.gie /\ c.stack = m.stack /\ c.iv = m.iv /\ c.ifg = m.ifg /\ c.odd = m.odd
        /\ Shaped(c) /\ c.wd.tmsel = m.wd.tmsel
    BY <1>3 DEF c, SameVector
  <2>6. Due(t) => Due(m)
    <3>1. ~ t.odd /\ "wdt" \in m.ifg => ~ m.odd /\ ie \subseteq m.ie
      BY <2>4, <2>5
    <3> QED BY <2>3, <2>5, <3>1 DEF Due
  <2>7. VectorInv(t)
    BY <1>1, <2>3, <2>4, <2>5, <2>6 DEF VectorInv, Shaped
  <2> QED BY <2>2, <2>7, VectorTurns DEF t, c
<1>11. CASE Y!Lock \/ Y!Exit \/ Y!Choose \/ Y!Divide \/ Y!Store
  <2>1. \E f : Y!EndTurn([m EXCEPT !.flash = f])
    BY <1>11, Zenon DEF Y!Lock, Y!Exit, Y!Choose, Y!Divide, Y!Store, Y!WithFlash
  <2> QED BY <1>4, <2>1, VectorTurns
<1>12. CASE Y!Violate \/ Y!Mistake
  <2>1. \E f : Y!EndTurn([Y!Counted EXCEPT !.flash = f])
    BY <1>12, Zenon DEF Y!Violate, Y!Mistake
  <2> QED BY <1>5, <2>1, VectorTurns
<1>13. CASE Y!Wdtctl
  BY <1>3, <1>13, WdtctlPosts, VectorTurns DEF Y!Wdtctl
<1>14. CASE Y!Feed
  <2>1. VectorInv(Y!WriteWdtctl(m, TRUE, m.wd.hold, m.wd.tmsel, TRUE, m.wd.is))
    BY <1>1, WdtctlPosts DEF Shaped
  <2> QED BY <1>14, <2>1, VectorTurns DEF Y!Feed
<1>15. CASE Y!WriteIfg
  <2>1. PICK ifg \in {{}, {"wdt"}} : Y!EndTurn([Y!Counted EXCEPT !.ifg = ifg, !.odd = ifg # {}])
    BY <1>15 DEF Y!WriteIfg
  <2> DEFINE c == Y!Counted
             t == [c EXCEPT !.ifg = ifg, !.odd = ifg # {}]
  <2> HIDE DEF c
  <2>2. /\ DOMAIN t = SystemFields /\ t.gie = c.gie /\ t.stack = c.stack /\ t.ifg = ifg /\ t.wd = c.wd
    BY <1>3 DEF SystemFields, c
  <2>3. t.odd = (ifg # {})
    BY <1>3 DEF SystemFields, c
  <2> HIDE DEF t
  <2>4. VectorInv(t)
    BY <1>3, <2>1, <2>2, <2>3 DEF VectorInv, Shaped, Due, c
  <2> QED BY <2>1, <2>4, VectorTurns DEF t, c
<1>16. CASE Y!WriteOperand
  <2>1. PICK u : m' = [m EXCEPT !.mul = u]
    BY <1>16 DEF Y!WriteOperand
  <2>2. SameVector(m, m')
    BY <1>1, <2>1 DEF SystemFields, SameVector, Shaped
  <2> QED BY <1>2, <2>2
<1>17. \A u, sum, exact : SameVector(m, [Y!Counted EXCEPT !.mul = u, !.sum = sum, !.exact = exact])
  BY <1>3 DEF SystemFields, SameVector, Shaped
<1>18. \A u, sum, exact : VectorInv([m EXCEPT !.mul = u, !.sum = sum, !.exact = exact])
  <2>1. \A u, sum, exact : SameVector(m, [m EXCEPT !.mul = u, !.sum = sum, !.exact = exact])
    BY <1>1 DEF SystemFields, SameVector, Shaped
  <2> QED BY <1>2, <2>1, Zenon
<1>19. CASE Y!Operate
  BY <1>2, <1>17, <1>19, Zenon DEF Y!Operate
<1>20. CASE Y!OperateBytes
  BY <1>2, <1>17, <1>20, Zenon DEF Y!OperateBytes
<1>21. CASE Y!Preset
  <2>1. PICK u, sum, exact : m' = [m EXCEPT !.mul = u, !.sum = sum, !.exact = exact]
    BY <1>21, Zenon DEF Y!Preset
  <2> QED BY <1>18, <2>1, Zenon
<1> QED BY <1>6, <1>7, <1>8, <1>9, <1>10, <1>11, <1>12, <1>13, <1>14, <1>15, <1>16, <1>19, <1>20, <1>21
        DEF Y!SystemNext

LEMMA InitVector == Y!SystemInit => VectorInv(m)
<1> SUFFICES ASSUME Y!SystemInit
             PROVE  VectorInv(m)
  OBVIOUS
<1>1. /\ DOMAIN m = SystemFields /\ m.gie = TRUE /\ m.stack = <<>> /\ m.odd = FALSE
      /\ m.wd = [hold |-> TRUE, tmsel |-> FALSE, is |-> 1, cnt |-> 0, limit |-> Intervals[1],
                 age |-> 0, ends |-> 0, mixed |-> FALSE]
  BY DEF Y!SystemInit, SystemFields
<1>2. Shaped(m) /\ m.wd.tmsel = FALSE
  BY <1>1 DEF Shaped
<1>3. m.gie \in BOOLEAN /\ m.odd \in BOOLEAN
  BY <1>1, Zenon
<1>4. m.stack \in Seq(BOOLEAN)
  BY <1>1
<1> QED BY <1>2, <1>3, <1>4 DEF VectorInv, Due

-----------------------------------------------------------------------------
(* The timers: whoever raises a flag posts its vector, and TxIV tells of the  *)
(* one that asks; a comparator left alone has not been reached.               *)

TimerFields ==
  {"timer", "limit", "mc", "ie", "ifg", "tar", "down", "ccr", "cl", "b", "ccie", "ccifg", "cap", "ccis", "tiv",
   "iv", "gie", "off", "stack"}
Switches == [T!Comparators -> BOOLEAN]
Numbers == [T!Comparators -> Nat]

\* The registers that count, and those of the interrupts.
Counter(s) ==
  /\ s.timer \in {"A", "B", "TA0", "TA1"} /\ s.limit \in Nat /\ (s.timer # "B" => s.limit = Top)
  /\ s.mc \in 0..3 /\ s.tar \in Nat /\ s.down \in BOOLEAN /\ s.cap \in Switches
  /\ s.ccr \in Numbers /\ s.cl \in Numbers /\ s.b \in [T!Comparators -> Int]
Sources(s) == s.ie \in BOOLEAN /\ s.ifg \in BOOLEAN /\ s.ccie \in Switches /\ s.ccifg \in Switches
Stacked(s) == s.gie \in BOOLEAN /\ s.off \in BOOLEAN /\ s.stack \in Seq([gie : BOOLEAN, off : BOOLEAN])
TimerState(s) == DOMAIN s = TimerFields /\ Counter(s) /\ Sources(s) /\ Stacked(s)

\* What asks for the vector 1; TA0 and TA1 are not looked at by RETI.
Asking(s) == (s.ie /\ s.ifg) \/ \E i \in Others : T!Pending(s, i)
Vectored(s) == s.timer \notin T!TimersTA
TivTells(s) == Vectored(s) /\ Asking(s) => s.tiv # 0
Posted(s) ==
  /\ T!Pending(s, 0) => 0 \in s.iv
  /\ Vectored(s) /\ Asking(s) => s.iv # {} \/ s.stack # <<>>
TimerTurn(s) == TimerState(s) /\ TivTells(s) /\ Posted(s)

SameCounter(s, t) ==
  /\ t.timer = s.timer /\ t.limit = s.limit /\ t.mc = s.mc /\ t.tar = s.tar /\ t.down = s.down
  /\ t.cap = s.cap /\ t.ccr = s.ccr /\ t.cl = s.cl /\ t.b = s.b
SameSources(s, t) == t.ie = s.ie /\ t.ifg = s.ifg /\ t.ccie = s.ccie /\ t.ccifg = s.ccifg
SameStack(s, t) == t.gie = s.gie /\ t.off = s.off /\ t.stack = s.stack

LEMMA Least ==
  ASSUME NEW some \in SUBSET Nat, some # {}
  PROVE  T!Min(some) \in some /\ Min(some) \in some
<1>1. PICK e \in some : \A f \in some : <<f, e>> \notin OpToRel(<, Nat)
  BY WFMin, NatLessThanWellFounded, Zenon
<1>2. \A f \in some : ~ (f < e)
  BY <1>1, Zenon DEF OpToRel
<1>3. \A f \in some : e =< f
  BY <1>2
<1> QED BY <1>3, Zenon DEF T!Min, Min

LEMMA Greatest ==
  ASSUME NEW some \in SUBSET (0..Top), some # {}
  PROVE  T!Max(some) \in some /\ Max(some) \in some
<1> DEFINE gaps == {Top - x : x \in some}
<1>1. gaps \in SUBSET Nat /\ gaps # {} /\ Top \in Nat
  <2>1. Top \in Nat
    BY TimerAssumption
  <2>2. \A x \in some : x \in 0..Top
    OBVIOUS
  <2>3. \A x \in some : Top - x \in Nat
    BY <2>1, <2>2
  <2> QED BY <2>1, <2>3
<1> HIDE DEF gaps
<1>2. PICK e \in gaps : \A f \in gaps : <<f, e>> \notin OpToRel(<, Nat)
  BY <1>1, WFMin, NatLessThanWellFounded, Zenon
<1>3. \A f \in gaps : ~ (f < e)
  BY <1>1, <1>2, Zenon DEF OpToRel
<1>4. PICK x \in some : e = Top - x
  BY DEF gaps
<1>5. \A y \in some : x >= y
  <2> SUFFICES ASSUME NEW y \in some PROVE x >= y
    OBVIOUS
  <2>1. Top - y \in gaps
    BY DEF gaps
  <2>2. x \in Nat /\ y \in Nat /\ Top \in Nat /\ ~ (Top - y < Top - x)
    BY <1>1, <1>3, <1>4, <2>1
  <2> QED BY <2>2
<1> QED BY <1>5, Zenon DEF T!Max, Max

LEMMA SetsTiv ==
  ASSUME NEW s, DOMAIN s = TimerFields, s.timer \in {"A", "B", "TA0", "TA1"}
  PROVE  LET t == T!SetTiv(s)
         IN  /\ DOMAIN t = TimerFields /\ SameCounter(s, t) /\ SameSources(s, t) /\ SameStack(s, t)
             /\ t.iv = s.iv /\ t.ccis = s.ccis /\ TivTells(t)
<1> DEFINE some == {i \in Others : T!Pending(s, i)}
           high == IF some # {} THEN T!Min(some) ELSE IF s.ifg THEN T!Overflow ELSE s.tiv
           over == IF s.ifg THEN T!Overflow ELSE s.tiv
           x == IF s.timer \in {"A", "B"} THEN high ELSE over
           t == T!SetTiv(s)
<1>1. t = [s EXCEPT !.tiv = x]
  <2>1. CASE s.timer \in {"A", "B"}
    <3>1. t = T!HighestTiv(s)
      BY <2>1 DEF T!SetTiv, T!SetTivA, T!SetTivB
    <3>2. T!HighestTiv(s) = [s EXCEPT !.tiv = high]
      BY Zenon DEF T!HighestTiv
    <3> HIDE DEF high, t
    <3> QED BY <2>1, <3>1, <3>2
  <2>2. CASE s.timer \in {"TA0", "TA1"}
    <3>1. t = T!OverflowTiv(s)
      BY <2>2 DEF T!SetTiv, T!SetTivTA0, T!SetTivTA1
    <3>2. T!OverflowTiv(s) = [s EXCEPT !.tiv = over]
      BY Zenon DEF T!OverflowTiv
    <3> HIDE DEF over, t
    <3> QED BY <2>2, <3>1, <3>2
  <2> QED BY <2>1, <2>2
<1>2. s.timer \in {"A", "B"} /\ Asking(s) => x # 0
  <2>1. some # {} => T!Min(some) # 0
    <3>1. some \in SUBSET Nat /\ 0 \notin some
      BY TimerAssumption
    <3> QED BY <3>1, Least
  <2>2. T!Overflow # 0
    <3>1. T!Cardinality(Others) = Cardinality(Others)
      BY DEF T!Cardinality, Cardinality
    <3>2. Cardinality(Others) \in Nat
      BY FS_CardinalityType, TimerAssumption
    <3> QED BY <3>1, <3>2 DEF T!Overflow
  <2>3. Asking(s) => some # {} \/ s.ifg
    BY DEF Asking
  <2> HIDE DEF some
  <2> QED BY <2>1, <2>2, <2>3
<1> HIDE DEF x, t
<1>3. DOMAIN t = TimerFields /\ t.tiv = x /\ t.iv = s.iv /\ t.ccis = s.ccis
  BY <1>1 DEF TimerFields
<1>4. SameCounter(s, t)
  BY <1>1 DEF TimerFields, SameCounter
<1>5. SameSources(s, t)
  <2>1. t.ie = s.ie /\ t.ifg = s.ifg
    BY <1>1 DEF TimerFields
  <2>2. t.ccie = s.ccie /\ t.ccifg = s.ccifg
    BY <1>1 DEF TimerFields
  <2> QED BY <2>1, <2>2 DEF SameSources
<1>6. SameStack(s, t)
  BY <1>1 DEF TimerFields, SameStack
<1>7. Asking(t) => Asking(s)
  BY <1>5 DEF Asking, SameSources, T!Pending
<1>8. TivTells(t)
  BY <1>2, <1>3, <1>4, <1>7 DEF TivTells, Vectored, SameCounter, T!TimersTA
<1> QED BY <1>3, <1>4, <1>5, <1>6, <1>8 DEF t

LEMMA RaisesCcifg ==
  ASSUME NEW s, TimerTurn(s), NEW some \in SUBSET T!Comparators
  PROVE  LET t == T!RaiseCcifg(s, some)
         IN  /\ TimerTurn(t) /\ SameCounter(s, t) /\ SameStack(s, t)
             /\ \A i \in T!Comparators : t.ccifg[i] <=> (i \in some \/ s.ccifg[i])
<1>1. TimerState(s) /\ TivTells(s) /\ Posted(s) /\ DOMAIN s = TimerFields /\ s.ccifg \in Switches
      /\ s.timer \in {"A", "B", "TA0", "TA1"}
  BY DEF TimerTurn, TimerState, Counter, Sources
<1>2. CASE some = {}
  <2>1. T!RaiseCcifg(s, some) = s
    BY <1>2 DEF T!RaiseCcifg
  <2>2. SameCounter(s, s) /\ SameStack(s, s)
    BY DEF SameCounter, SameStack
  <2> QED BY <1>2, <2>1, <2>2
<1>3. CASE some # {}
  <2> DEFINE flags == [i \in T!Comparators |-> i \in some \/ s.ccifg[i]]
             f == [s EXCEPT !.ccifg = flags]
             n == T!SetTiv(f)
             iv == n.iv \cup {T!Vector(i) : i \in {j \in some : s.ccie[j]}}
             t == [n EXCEPT !.iv = iv]
  <2>1. T!RaiseCcifg(s, some) = t
    BY <1>3, Zenon DEF T!RaiseCcifg
  <2>2. flags \in Switches /\ \A i \in T!Comparators : flags[i] <=> (i \in some \/ s.ccifg[i])
    BY Zenon DEF Switches
  <2> HIDE DEF flags
  <2>3. /\ DOMAIN f = TimerFields /\ SameCounter(s, f) /\ SameStack(s, f) /\ f.iv = s.iv
    BY <1>1 DEF TimerFields, SameCounter, SameStack
  <2>4. f.ie = s.ie /\ f.ifg = s.ifg /\ f.ccie = s.ccie /\ f.ccifg = flags
    BY <1>1 DEF TimerFields
  <2> HIDE DEF f
  <2>5. /\ DOMAIN n = TimerFields /\ SameCounter(f, n) /\ SameSources(f, n) /\ SameStack(f, n) /\ n.iv = f.iv
        /\ TivTells(n)
    BY <1>1, <2>3, SetsTiv DEF SameCounter
  <2> HIDE DEF n, iv
  <2>6. /\ DOMAIN t = TimerFields /\ t.iv = iv /\ t.tiv = n.tiv /\ SameCounter(n, t) /\ SameStack(n, t)
    BY <2>5 DEF TimerFields, SameCounter, SameStack
  <2>7. t.ie = n.ie /\ t.ifg = n.ifg /\ t.ccie = n.ccie /\ t.ccifg = n.ccifg
    BY <2>5 DEF TimerFields
  <2> HIDE DEF t
  <2>8. SameCounter(s, t) /\ SameStack(s, t)
    BY <2>3, <2>5, <2>6 DEF SameCounter, SameStack
  <2>9. t.ie = s.ie /\ t.ifg = s.ifg /\ t.ccie = s.ccie /\ t.ccifg = flags
    BY <2>4, <2>5, <2>7 DEF SameSources
  <2>10. \A i \in T!Comparators : t.ccifg[i] <=> (i \in some \/ s.ccifg[i])
    BY <2>2, <2>9
  <2>11. TimerState(t)
    <3>1. Counter(t) /\ Stacked(t)
      BY <1>1, <2>8 DEF TimerState, Counter, Stacked, SameCounter, SameStack
    <3>2. Sources(t)
      BY <1>1, <2>2, <2>9 DEF TimerState, Sources
    <3> QED BY <2>6, <3>1, <3>2 DEF TimerState
  <2>12. TivTells(t)
    <3>1. Asking(t) => Asking(n)
      BY <2>7 DEF Asking, T!Pending
    <3> QED BY <2>5, <2>6, <3>1 DEF TivTells, Vectored, SameCounter
  <2>13. s.iv \subseteq t.iv /\ \A i \in some : s.ccie[i] => T!Vector(i) \in t.iv
    BY <2>3, <2>5, <2>6 DEF iv
  <2>14. Posted(t)
    <3>1. T!Pending(t, 0) => 0 \in t.iv
      <4>1. 0 \in T!Comparators /\ T!Vector(0) = 0
        BY DEF T!Comparators, T!Vector
      <4> QED BY <1>1, <2>9, <2>10, <2>13, <4>1 DEF Posted, T!Pending
    <3>2. ASSUME Vectored(t), Asking(t) PROVE t.iv # {} \/ t.stack # <<>>
      <4>1. CASE Asking(s)
        BY <1>1, <2>8, <2>13, <3>2, <4>1 DEF Posted, Vectored, SameCounter, SameStack
      <4>2. CASE ~ Asking(s)
        <5>1. PICK i \in Others : T!Pending(t, i) /\ ~ T!Pending(s, i)
          BY <2>9, <3>2, <4>2 DEF Asking
        <5>2. i \in some /\ s.ccie[i]
          BY <2>9, <2>10, <5>1 DEF T!Pending, T!Comparators
        <5> QED BY <2>13, <5>2
      <4> QED BY <4>1, <4>2
    <3> QED BY <3>1, <3>2 DEF Posted
  <2>15. TimerTurn(t)
    BY <2>11, <2>12, <2>14 DEF TimerTurn
  <2> QED BY <2>1, <2>8, <2>10, <2>15
<1> QED BY <1>2, <1>3

\* What is left of the flags asks no more than they did.
LEMMA AsksLess ==
  ASSUME NEW s, TimerTurn(s), NEW t, DOMAIN t = TimerFields, Counter(t), Sources(t), Stacked(t), TivTells(t),
         t.timer = s.timer, s.iv \subseteq t.iv, t.stack = s.stack,
         T!Pending(t, 0) => T!Pending(s, 0) \/ 0 \in t.iv,
         Asking(t) => Asking(s) \/ t.iv # {}
  PROVE  TimerTurn(t)
<1>1. Posted(s)
  BY DEF TimerTurn
<1>2. T!Pending(t, 0) => 0 \in t.iv
  BY <1>1 DEF Posted
<1>3. Vectored(t) /\ Asking(t) => t.iv # {} \/ t.stack # <<>>
  BY <1>1 DEF Posted, Vectored
<1> QED BY <1>2, <1>3 DEF TimerTurn, TimerState, Posted

\* A change of the counter only.
LEMMA Recounts ==
  ASSUME NEW s, TimerTurn(s), NEW t, DOMAIN t = TimerFields, Counter(t), SameSources(s, t), Stacked(t),
         t.timer = s.timer, t.iv = s.iv, t.tiv = s.tiv, t.stack = s.stack
  PROVE  TimerTurn(t)
<1>1. Sources(t)
  BY DEF TimerTurn, TimerState, Sources, SameSources
<1>2. \A i : T!Pending(t, i) <=> T!Pending(s, i)
  BY DEF SameSources, T!Pending
<1>3. Asking(t) => Asking(s)
  BY <1>2 DEF Asking, SameSources
<1>4. TivTells(t)
  BY <1>3 DEF TimerTurn, TivTells, Vectored
<1> QED BY <1>1, <1>2, <1>3, <1>4, AsksLess

LEMMA RaisesIfg ==
  ASSUME NEW s, TimerTurn(s)
  PROVE  LET t == T!RaiseIfg(s)
         IN  TimerTurn(t) /\ SameCounter(s, t) /\ SameStack(s, t) /\ t.ccifg = s.ccifg
<1> DEFINE f == [s EXCEPT !.ifg = TRUE]
           n == T!SetTiv(f)
           p == [n EXCEPT !.iv = @ \cup {1}]
           t == T!RaiseIfg(s)
<1>1. /\ DOMAIN s = TimerFields /\ Counter(s) /\ Sources(s) /\ Stacked(s) /\ Posted(s)
      /\ s.timer \in {"A", "B", "TA0", "TA1"}
  BY DEF TimerTurn, TimerState, Counter
<1>2. t = IF s.ie THEN p ELSE n
  BY Zenon DEF T!RaiseIfg, T!Post
<1>3. DOMAIN f = TimerFields /\ SameCounter(s, f) /\ SameStack(s, f) /\ f.iv = s.iv
  BY <1>1 DEF TimerFields, SameCounter, SameStack
<1>4. f.ifg = TRUE /\ f.ie = s.ie
  BY <1>1 DEF TimerFields
<1>5. f.ccie = s.ccie /\ f.ccifg = s.ccifg
  BY <1>1 DEF TimerFields
<1> HIDE DEF f
<1>6. /\ DOMAIN n = TimerFields /\ SameCounter(f, n) /\ SameSources(f, n) /\ SameStack(f, n) /\ n.iv = f.iv
      /\ TivTells(n)
  BY <1>1, <1>3, SetsTiv DEF SameCounter
<1> HIDE DEF n
<1>7. DOMAIN p = TimerFields /\ SameCounter(n, p) /\ SameStack(n, p) /\ p.iv = n.iv \cup {1} /\ p.tiv = n.tiv
  BY <1>6 DEF TimerFields, SameCounter, SameStack
<1>8. SameSources(n, p)
  <2>1. p.ie = n.ie /\ p.ifg = n.ifg
    BY <1>6 DEF TimerFields
  <2>2. p.ccie = n.ccie /\ p.ccifg = n.ccifg
    BY <1>6 DEF TimerFields
  <2> QED BY <2>1, <2>2 DEF SameSources
<1> HIDE DEF p
<1>9. SameSources(n, n) /\ SameCounter(n, n) /\ SameStack(n, n)
  BY DEF SameSources, SameCounter, SameStack
<1>10. /\ DOMAIN t = TimerFields /\ SameCounter(n, t) /\ SameStack(n, t) /\ SameSources(n, t) /\ t.tiv = n.tiv
       /\ s.iv \subseteq t.iv /\ (s.ie => 1 \in t.iv)
  BY <1>2, <1>3, <1>6, <1>7, <1>8, <1>9
<1> HIDE DEF t
<1>11. SameCounter(s, t) /\ SameStack(s, t)
  BY <1>3, <1>6, <1>10 DEF SameCounter, SameStack
<1>12. t.ie = s.ie /\ t.ifg = TRUE /\ t.ccie = s.ccie /\ t.ccifg = s.ccifg
  BY <1>4, <1>5, <1>6, <1>10 DEF SameSources
<1>13. Counter(t) /\ Stacked(t) /\ Sources(t)
  <2>1. Counter(t) /\ Stacked(t)
    BY <1>1, <1>11 DEF Counter, Stacked, SameCounter, SameStack
  <2>2. Sources(t)
    BY <1>1, <1>12 DEF Sources
  <2> QED BY <2>1, <2>2
<1>14. TivTells(t)
  <2>1. Asking(t) => Asking(n)
    BY <1>10 DEF Asking, T!Pending, SameSources
  <2> QED BY <1>6, <1>10, <2>1 DEF TivTells, Vectored, SameCounter
<1>15. \A i : T!Pending(t, i) <=> T!Pending(s, i)
  BY <1>12 DEF T!Pending
<1>16. Asking(t) => Asking(s) \/ t.iv # {}
  BY <1>10, <1>12, <1>15 DEF Asking
<1>17. TimerTurn(t)
  BY <1>10, <1>11, <1>13, <1>14, <1>15, <1>16, AsksLess DEF SameCounter, SameStack
<1> QED BY <1>11, <1>12, <1>17 DEF t

\* What the passing of time leaves alone; a comparator that is not reached yet.
SameLoads(s, t) ==
  t.timer = s.timer /\ t.limit = s.limit /\ t.mc = s.mc /\ t.cap = s.cap /\ t.ccr = s.ccr /\ t.cl = s.cl
Low(s, i) == ~ s.ccifg[i] /\ ~ s.cap[i] /\ s.b[i] < s.cl[i]
\* A step of the update of a timer, from s to t.
Passes(s, t) == TimerTurn(t) /\ SameLoads(s, t) /\ SameStack(s, t)

LEMMA PassesOn ==
  ASSUME NEW s, NEW t, NEW u, Passes(s, t), Passes(t, u)
  PROVE  Passes(s, u)
BY DEF Passes, SameLoads, SameStack

LEMMA SetsB ==
  ASSUME NEW s, TimerTurn(s), NEW b \in [T!Comparators -> Int]
  PROVE  LET t == [s EXCEPT !.b = b]
         IN  Passes(s, t) /\ t.tar = s.tar /\ t.down = s.down /\ t.ccifg = s.ccifg /\ t.b = b
<1> DEFINE t == [s EXCEPT !.b = b]
<1>1. DOMAIN s = TimerFields /\ Counter(s) /\ Stacked(s)
  BY DEF TimerTurn, TimerState
<1>2. /\ DOMAIN t = TimerFields /\ SameLoads(s, t) /\ SameStack(s, t) /\ t.tar = s.tar /\ t.down = s.down /\ t.b = b
      /\ t.iv = s.iv /\ t.tiv = s.tiv
  BY <1>1 DEF TimerFields, SameLoads, SameStack
<1>3. SameSources(s, t)
  <2>1. t.ie = s.ie /\ t.ifg = s.ifg
    BY <1>1 DEF TimerFields
  <2>2. t.ccie = s.ccie /\ t.ccifg = s.ccifg
    BY <1>1 DEF TimerFields
  <2> QED BY <2>1, <2>2 DEF SameSources
<1> HIDE DEF t
<1>4. Counter(t) /\ Stacked(t)
  BY <1>1, <1>2 DEF Counter, Stacked, SameLoads, SameStack
<1>5. TimerTurn(t)
  BY <1>2, <1>3, <1>4, Recounts DEF SameLoads, SameStack
<1> QED BY <1>2, <1>3, <1>5 DEF t, Passes, SameSources

LEMMA SetsTar ==
  ASSUME NEW s, TimerTurn(s), NEW tar \in Nat, NEW down \in BOOLEAN
  PROVE  LET t == [s EXCEPT !.tar = tar, !.down = down]
         IN  Passes(s, t) /\ t.tar = tar /\ t.down = down /\ t.ccifg = s.ccifg /\ t.b = s.b
<1> DEFINE t == [s EXCEPT !.tar = tar, !.down = down]
<1>1. DOMAIN s = TimerFields /\ Counter(s) /\ Stacked(s)
  BY DEF TimerTurn, TimerState
<1>2. /\ DOMAIN t = TimerFields /\ SameLoads(s, t) /\ SameStack(s, t) /\ t.tar = tar /\ t.b = s.b
      /\ t.iv = s.iv /\ t.tiv = s.tiv
  BY <1>1 DEF TimerFields, SameLoads, SameStack
<1>3. t.down = down
  BY <1>1 DEF TimerFields
<1>4. SameSources(s, t)
  <2>1. t.ie = s.ie /\ t.ifg = s.ifg
    BY <1>1 DEF TimerFields
  <2>2. t.ccie = s.ccie /\ t.ccifg = s.ccifg
    BY <1>1 DEF TimerFields
  <2> QED BY <2>1, <2>2 DEF SameSources
<1> HIDE DEF t
<1>5. Counter(t) /\ Stacked(t)
  BY <1>1, <1>2, <1>3 DEF Counter, Stacked, SameLoads, SameStack
<1>6. TimerTurn(t)
  BY <1>2, <1>4, <1>5, Recounts DEF SameLoads, SameStack
<1> QED BY <1>2, <1>3, <1>4, <1>6 DEF t, Passes, SameSources

\* A comparator that is not reached matches when it is, and not before.
LEMMA Compares ==
  ASSUME NEW s, TimerTurn(s), NEW some \in SUBSET T!Comparators
  PROVE  LET t == T!Compare(s, some)
         IN  /\ Passes(s, t) /\ t.tar = s.tar
             /\ \A i \in some : Low(s, i) /\ ~ t.ccifg[i] => Low(t, i) /\ s.tar < s.cl[i]
<1> DEFINE free == {i \in some : ~ s.cap[i] /\ ~ s.ccifg[i]}
           hits == {i \in free : s.tar >= s.cl[i] /\ s.tar > s.b[i]}
           Last(i) == IF i \in hits THEN T!Unreachable
                      ELSE IF i \in free /\ s.b[i] # T!Unreachable THEN s.tar ELSE s.b[i]
           b == [i \in T!Comparators |-> Last(i)]
           f == [s EXCEPT !.b = b]
           t == T!RaiseCcifg(f, hits)
<1>1. T!Compare(s, some) = t
  BY Zenon DEF T!Compare
<1>2. s.tar \in Nat /\ s.cl \in Numbers /\ s.b \in [T!Comparators -> Int] /\ T!Unreachable \in Int
  BY TimerAssumption DEF TimerTurn, TimerState, Counter, T!Unreachable
<1>3. b \in [T!Comparators -> Int]
  <2>1. \A i \in T!Comparators : Last(i) \in Int
    BY <1>2
  <2> HIDE DEF Last
  <2> QED BY <2>1
<1>4. \A i \in T!Comparators : b[i] = Last(i)
  OBVIOUS
<1> HIDE DEF b
<1>5. Passes(s, f) /\ f.tar = s.tar /\ f.ccifg = s.ccifg /\ f.b = b
  BY <1>3, SetsB
<1> HIDE DEF f
<1>6. /\ TimerTurn(t) /\ SameCounter(f, t) /\ SameStack(f, t)
      /\ \A i \in T!Comparators : t.ccifg[i] <=> (i \in hits \/ f.ccifg[i])
  BY <1>5, RaisesCcifg DEF Passes
<1> HIDE DEF t
<1>7. Passes(s, t) /\ t.tar = s.tar /\ t.b = b
  BY <1>5, <1>6 DEF Passes, SameLoads, SameCounter, SameStack
<1>8. ASSUME NEW i \in some, Low(s, i), ~ t.ccifg[i]
      PROVE  Low(t, i) /\ s.tar < s.cl[i]
  <2>1. i \in free /\ i \notin hits
    BY <1>5, <1>6, <1>8 DEF Low
  <2>2. s.tar \in Nat /\ s.cl[i] \in Nat /\ s.b[i] \in Int /\ s.b[i] < s.cl[i]
    BY <1>2, <1>8 DEF Numbers, Low
  <2>3. s.tar < s.cl[i]
    BY <2>1, <2>2
  <2>4. b[i] = IF s.b[i] # T!Unreachable THEN s.tar ELSE s.b[i]
    BY <1>4, <2>1
  <2>5. t.cl = s.cl /\ t.cap = s.cap
    BY <1>7 DEF Passes, SameLoads
  <2>6. ~ s.cap[i]
    BY <1>8 DEF Low
  <2>7. ~ t.cap[i] /\ t.b[i] < t.cl[i]
    BY <1>7, <2>2, <2>3, <2>4, <2>5, <2>6
  <2> QED BY <1>8, <2>3, <2>7 DEF Low
<1> QED BY <1>1, <1>7, <1>8

LEMMA ComparesDown ==
  ASSUME NEW s, TimerTurn(s), NEW some \in SUBSET T!Comparators
  PROVE  Passes(s, T!CompareDown(s, some))
<1> DEFINE free == {i \in some : s.cl[i] > 0 /\ s.cl[i] <= s.ccr[0] /\ ~ s.cap[i] /\ ~ s.ccifg[i]}
           hits == {i \in free : s.cl[i] >= s.tar /\ s.b[i] > s.tar}
           Last(i) == IF i \in hits THEN T!UnreachableDown
                      ELSE IF i \in free /\ s.b[i] # T!UnreachableDown THEN s.tar ELSE s.b[i]
           b == [i \in T!Comparators |-> Last(i)]
           f == [s EXCEPT !.b = b]
           t == T!RaiseCcifg(f, hits)
<1>1. T!CompareDown(s, some) = t
  BY Zenon DEF T!CompareDown
<1>2. s.tar \in Nat /\ s.b \in [T!Comparators -> Int] /\ T!UnreachableDown \in Int
  BY DEF TimerTurn, TimerState, Counter, T!UnreachableDown
<1>3. b \in [T!Comparators -> Int]
  <2>1. \A i \in T!Comparators : Last(i) \in Int
    BY <1>2
  <2> HIDE DEF Last
  <2> QED BY <2>1
<1> HIDE DEF b
<1>4. Passes(s, f)
  BY <1>3, SetsB
<1> HIDE DEF f
<1>5. TimerTurn(t) /\ SameCounter(f, t) /\ SameStack(f, t)
  BY <1>4, RaisesCcifg DEF Passes
<1> HIDE DEF t
<1> QED BY <1>1, <1>4, <1>5 DEF Passes, SameLoads, SameCounter, SameStack

LEMMA WrapsAll ==
  ASSUME NEW s, TimerTurn(s), NEW value \in Int
  PROVE  LET t == T!Wraps(s, value)
         IN  Passes(s, t) /\ t.tar = s.tar /\ t.ccifg = s.ccifg /\ \A i \in Others : t.b[i] = value
<1> DEFINE b == [i \in T!Comparators |-> IF i = 0 THEN s.b[0] ELSE value]
<1>1. s.b \in [T!Comparators -> Int] /\ 0 \in T!Comparators
  BY DEF TimerTurn, TimerState, Counter, T!Comparators
<1>2. b \in [T!Comparators -> Int] /\ \A i \in Others : b[i] = value
  BY <1>1, TimerAssumption DEF T!Comparators
<1> HIDE DEF b
<1>3. T!Wraps(s, value) = [s EXCEPT !.b = b]
  BY DEF T!Wraps, b
<1> QED BY <1>2, <1>3, SetsB

LEMMA CountsTo ==
  ASSUME NEW s, TimerTurn(s), NEW tar \in Nat
  PROVE  LET t == [s EXCEPT !.tar = tar]
         IN  Passes(s, t) /\ t.tar = tar /\ t.ccifg = s.ccifg /\ t.b = s.b
<1> DEFINE t == [s EXCEPT !.tar = tar]
<1>1. DOMAIN s = TimerFields /\ Counter(s) /\ Stacked(s)
  BY DEF TimerTurn, TimerState
<1>2. /\ DOMAIN t = TimerFields /\ SameLoads(s, t) /\ SameStack(s, t) /\ t.tar = tar /\ t.b = s.b
      /\ t.iv = s.iv /\ t.tiv = s.tiv
  BY <1>1 DEF TimerFields, SameLoads, SameStack
<1>3. t.down = s.down
  BY <1>1 DEF TimerFields
<1>4. SameSources(s, t)
  <2>1. t.ie = s.ie /\ t.ifg = s.ifg
    BY <1>1 DEF TimerFields
  <2>2. t.ccie = s.ccie /\ t.ccifg = s.ccifg
    BY <1>1 DEF TimerFields
  <2> QED BY <2>1, <2>2 DEF SameSources
<1> HIDE DEF t
<1>5. Counter(t) /\ Stacked(t)
  BY <1>1, <1>2, <1>3 DEF Counter, Stacked, SameLoads, SameStack
<1>6. TimerTurn(t)
  BY <1>2, <1>4, <1>5, Recounts DEF SameLoads, SameStack
<1> QED BY <1>2, <1>4, <1>6 DEF t, Passes, SameSources

\* The period of a timer that counts up; what a turn of such a timer does to a comparator
\* that is not reached: nothing, or it is reached when TAR says so, or the period ends.
Span(s) == IF s.mc = T!CONT THEN s.limit ELSE s.ccr[0]
Advances(s, t, ticks) ==
  \/ t = s
  \/ t.tar = s.tar + ticks /\ \A i \in Others : Low(s, i) => t.ccifg[i] \/ Low(t, i)
  \/ \A i \in Others : t.b[i] = 0 /\ (Low(s, i) /\ s.cl[i] =< Span(s) => t.ccifg[i])

\* The timer has counted and compared, up to a limit.
LEMMA CountsOn ==
  ASSUME NEW s, TimerTurn(s), NEW ticks \in Nat, NEW some \in SUBSET T!Comparators, Others \subseteq some
  PROVE  LET a == T!Compare([s EXCEPT !.tar = @ + ticks], some)
         IN  /\ Passes(s, a) /\ a.tar = s.tar + ticks /\ a.tar \in Nat
             /\ \A i \in Others : Low(s, i) => a.ccifg[i] \/ Low(a, i)
             /\ \A limit \in Nat, i \in Others :
                  Low(s, i) /\ s.cl[i] =< limit /\ a.tar >= limit => a.ccifg[i]
<1> DEFINE f == [s EXCEPT !.tar = @ + ticks]
           a == T!Compare(f, some)
<1>1. s.tar \in Nat /\ s.tar + ticks \in Nat /\ s.cl \in Numbers
  BY DEF TimerTurn, TimerState, Counter
<1>2. f = [s EXCEPT !.tar = s.tar + ticks]
  OBVIOUS
<1> HIDE DEF f
<1>3. Passes(s, f) /\ f.tar = s.tar + ticks /\ f.ccifg = s.ccifg /\ f.b = s.b
  BY <1>1, <1>2, CountsTo
<1>4. /\ Passes(f, a) /\ a.tar = f.tar
      /\ \A i \in some : Low(f, i) /\ ~ a.ccifg[i] => Low(a, i) /\ f.tar < f.cl[i]
  BY <1>3, Compares DEF Passes
<1> HIDE DEF a
<1>5. Passes(s, a)
  BY <1>3, <1>4, PassesOn
<1>6. f.cl = s.cl /\ f.cap = s.cap
  BY <1>3 DEF Passes, SameLoads
<1>7. \A i : Low(s, i) => Low(f, i)
  BY <1>3, <1>6 DEF Low
<1>8. \A i \in Others : Low(s, i) /\ ~ a.ccifg[i] => Low(a, i) /\ a.tar < s.cl[i]
  BY <1>4, <1>6, <1>7
<1>9. \A limit \in Nat, i \in Others : Low(s, i) /\ s.cl[i] =< limit /\ a.tar >= limit => a.ccifg[i]
  <2> SUFFICES ASSUME NEW limit \in Nat, NEW i \in Others, Low(s, i), s.cl[i] =< limit, a.tar >= limit, ~ a.ccifg[i]
               PROVE  FALSE
    OBVIOUS
  <2>1. a.tar < s.cl[i]
    BY <1>8
  <2>2. a.tar \in Nat /\ s.cl[i] \in Nat
    BY <1>1, <1>3, <1>4 DEF Numbers, T!Comparators
  <2> QED BY <2>1, <2>2
<1> QED BY <1>1, <1>3, <1>4, <1>5, <1>8, <1>9 DEF a, f

LEMMA GoesUp ==
  ASSUME NEW s, TimerTurn(s), NEW ticks \in Nat
  PROVE  LET t == T!UpdateUp(s, ticks)
         IN  Passes(s, t) /\ (s.mc = T!UP => Advances(s, t, ticks))
<1> DEFINE a == T!Compare([s EXCEPT !.tar = @ + ticks], Others)
           c == T!RaiseCcifg(a, {0})
           d == T!RaiseIfg(c)
           e == [d EXCEPT !.tar = @ - a.ccr[0]]
           u == T!Wraps(e, 0)
           t == T!UpdateUp(s, ticks)
<1>1. t = IF a.tar < a.ccr[0] THEN a ELSE u
  BY DEF T!UpdateUp
<1>2. /\ Passes(s, a) /\ a.tar = s.tar + ticks /\ a.tar \in Nat
      /\ \A i \in Others : Low(s, i) => a.ccifg[i] \/ Low(a, i)
      /\ \A limit \in Nat, i \in Others : Low(s, i) /\ s.cl[i] =< limit /\ a.tar >= limit => a.ccifg[i]
  BY CountsOn DEF T!Comparators
<1> HIDE DEF a, t
<1>3. a.ccr[0] \in Nat /\ 0 \in T!Comparators /\ a.ccr = s.ccr
  BY <1>2 DEF Passes, SameLoads, TimerTurn, TimerState, Counter, Numbers, T!Comparators
<1>4. CASE a.tar < a.ccr[0]
  BY <1>1, <1>2, <1>4 DEF Advances, t
<1>5. CASE ~ (a.tar < a.ccr[0])
  <2>1. /\ TimerTurn(c) /\ SameCounter(a, c) /\ SameStack(a, c)
        /\ \A i \in T!Comparators : a.ccifg[i] => c.ccifg[i]
    BY <1>2, <1>3, RaisesCcifg DEF Passes
  <2> HIDE DEF c
  <2>2. TimerTurn(d) /\ SameCounter(c, d) /\ SameStack(c, d) /\ d.ccifg = c.ccifg
    BY <2>1, RaisesIfg
  <2> HIDE DEF d
  <2>3. Passes(a, d) /\ d.tar = a.tar
    BY <2>1, <2>2 DEF Passes, SameLoads, SameCounter, SameStack
  <2>4. e = [d EXCEPT !.tar = d.tar - a.ccr[0]] /\ d.tar - a.ccr[0] \in Nat
    BY <1>2, <1>3, <1>5, <2>3
  <2> HIDE DEF e
  <2>5. Passes(d, e) /\ e.ccifg = d.ccifg
    BY <2>2, <2>4, CountsTo
  <2>6. Passes(e, u) /\ u.ccifg = e.ccifg /\ \A i \in Others : u.b[i] = 0
    BY <2>5, WrapsAll DEF Passes
  <2> HIDE DEF u
  <2>7. Passes(s, u)
    BY <1>2, <2>3, <2>5, <2>6, PassesOn
  <2>8. s.mc = T!UP => Span(s) = a.ccr[0]
    BY <1>3 DEF Span, T!UP, T!CONT
  <2>9. s.mc = T!UP => \A i \in Others : Low(s, i) /\ s.cl[i] =< Span(s) => a.ccifg[i]
    BY <1>2, <1>3, <1>5, <2>8
  <2>10. \A i \in Others : a.ccifg[i] => u.ccifg[i]
    BY <2>1, <2>2, <2>5, <2>6 DEF T!Comparators
  <2>11. s.mc = T!UP => Advances(s, u, ticks)
    BY <2>6, <2>9, <2>10 DEF Advances
  <2> QED BY <1>1, <1>5, <2>7, <2>11 DEF t
<1> QED BY <1>4, <1>5

LEMMA GoesOn ==
  ASSUME NEW s, TimerTurn(s), NEW ticks \in Nat
  PROVE  LET t == T!UpdateCont(s, ticks, s.limit)
         IN  Passes(s, t) /\ (s.mc = T!CONT => Advances(s, t, ticks))
<1> DEFINE a == T!Compare([s EXCEPT !.tar = @ + ticks], T!Comparators)
           d == T!RaiseIfg(a)
           b == [i \in T!Comparators |-> 0]
           u == [d EXCEPT !.tar = @ - s.limit, !.b = b]
           t == T!UpdateCont(s, ticks, s.limit)
<1>1. t = IF a.tar < s.limit THEN a ELSE u
  BY DEF T!UpdateCont
<1>2. /\ Passes(s, a) /\ a.tar = s.tar + ticks /\ a.tar \in Nat
      /\ \A i \in Others : Low(s, i) => a.ccifg[i] \/ Low(a, i)
      /\ \A limit \in Nat, i \in Others : Low(s, i) /\ s.cl[i] =< limit /\ a.tar >= limit => a.ccifg[i]
  BY CountsOn DEF T!Comparators
<1> HIDE DEF a, t
<1>3. s.limit \in Nat
  BY DEF TimerTurn, TimerState, Counter
<1>4. CASE a.tar < s.limit
  BY <1>1, <1>2, <1>4 DEF Advances, t
<1>5. CASE ~ (a.tar < s.limit)
  <2>1. TimerTurn(d) /\ SameCounter(a, d) /\ SameStack(a, d) /\ d.ccifg = a.ccifg
    BY <1>2, RaisesIfg DEF Passes
  <2> HIDE DEF d
  <2>2. Passes(a, d) /\ d.tar = a.tar
    BY <2>1 DEF Passes, SameLoads, SameCounter, SameStack
  <2>3. b \in [T!Comparators -> Int] /\ \A i \in Others : b[i] = 0
    BY DEF T!Comparators
  <2> HIDE DEF b
  <2> DEFINE x == d.tar - s.limit
             e == [d EXCEPT !.tar = x]
  <2>4. u = [e EXCEPT !.b = b] /\ x \in Nat
    BY <1>2, <1>3, <1>5, <2>2
  <2> HIDE DEF u, x
  <2>5. Passes(d, u) /\ u.ccifg = d.ccifg /\ u.b = b
    <3>1. Passes(d, e) /\ e.ccifg = d.ccifg
      BY <2>1, <2>4, CountsTo, Zenon
    <3> HIDE DEF e
    <3>2. Passes(e, u) /\ u.ccifg = e.ccifg /\ u.b = b
      <4>1. TimerTurn(e)
        BY <3>1 DEF Passes
      <4> QED BY <2>3, <2>4, <4>1, SetsB, Zenon
    <3> QED BY <3>1, <3>2, PassesOn
  <2>6. Passes(s, u)
    BY <1>2, <2>2, <2>5, PassesOn
  <2>7. s.mc = T!CONT => \A i \in Others : Low(s, i) /\ s.cl[i] =< Span(s) => a.ccifg[i]
    BY <1>2, <1>3, <1>5 DEF Span
  <2>8. s.mc = T!CONT => Advances(s, u, ticks)
    BY <2>1, <2>3, <2>5, <2>7 DEF Advances
  <2> QED BY <1>1, <1>5, <2>6, <2>8 DEF t
<1> QED BY <1>4, <1>5

LEMMA GoesUpDown ==
  ASSUME NEW s, TimerTurn(s), NEW ticks \in Nat
  PROVE  Passes(s, T!UpdateUpDown(s, ticks))
<1> DEFINE t == T!UpdateUpDown(s, ticks)
<1>1. s.tar \in Nat /\ s.ccr[0] \in Nat /\ 0 \in T!Comparators /\ s.down \in BOOLEAN
  BY DEF TimerTurn, TimerState, Counter, Numbers, T!Comparators
<1>2. Others \in SUBSET T!Comparators
  BY DEF T!Comparators
<1>3. ASSUME ~ s.down PROVE Passes(s, t)
  <2> DEFINE a == [s EXCEPT !.tar = @ + ticks]
             e == [a EXCEPT !.down = TRUE, !.tar = a.ccr[0]]
             c == T!RaiseCcifg(e, {0})
  <2>1. t = IF a.tar < a.ccr[0] THEN T!Compare(a, Others) ELSE T!Wraps(c, a.ccr[0])
    BY <1>3 DEF T!UpdateUpDown
  <2>2. a = [s EXCEPT !.tar = s.tar + ticks] /\ s.tar + ticks \in Nat
    BY <1>1
  <2> HIDE DEF a, t
  <2>3. Passes(s, a) /\ a.ccr[0] \in Nat
    BY <1>1, <2>2, CountsTo DEF Passes, SameLoads
  <2>4. Passes(s, T!Compare(a, Others))
    BY <1>2, <2>3, Compares, PassesOn DEF Passes
  <2>5. e = [a EXCEPT !.tar = a.ccr[0], !.down = TRUE]
    OBVIOUS
  <2> HIDE DEF e
  <2>6. Passes(a, e)
    <3>1. TimerTurn(a) /\ a.ccr[0] \in Nat /\ TRUE \in BOOLEAN
      BY <2>3 DEF Passes
    <3> QED BY <2>5, <3>1, SetsTar, Zenon
  <2>7. TimerTurn(c) /\ SameCounter(e, c) /\ SameStack(e, c)
    BY <1>1, <2>6, RaisesCcifg DEF Passes
  <2> HIDE DEF c
  <2>8. Passes(e, c)
    BY <2>7 DEF Passes, SameLoads, SameCounter
  <2>9. Passes(c, T!Wraps(c, a.ccr[0]))
    BY <2>3, <2>7, WrapsAll
  <2>10. Passes(s, T!Wraps(c, a.ccr[0]))
    BY <2>3, <2>6, <2>8, <2>9, PassesOn
  <2> QED BY <2>1, <2>4, <2>10
<1>4. ASSUME s.down PROVE Passes(s, t)
  <2> DEFINE a == [s EXCEPT !.tar = @ - ticks]
             e == [a EXCEPT !.down = FALSE, !.tar = 0]
             c == T!RaiseIfg(e)
  <2>1. t = IF a.tar > 0 THEN T!CompareDown(a, Others) ELSE T!Wraps(c, 0)
    BY <1>4 DEF T!UpdateUpDown
  <2>2. a.tar = s.tar - ticks /\ s.tar - ticks \in Int
    BY <1>1 DEF TimerTurn, TimerState, TimerFields
  <2>3. a = [s EXCEPT !.tar = s.tar - ticks]
    OBVIOUS
  <2>4. e = [s EXCEPT !.tar = 0, !.down = FALSE]
    BY DEF TimerTurn, TimerState, TimerFields
  <2> HIDE DEF a, t, e
  <2>5. CASE a.tar > 0
    <3>1. s.tar - ticks \in Nat
      BY <2>2, <2>5
    <3>2. Passes(s, a)
      BY <2>3, <3>1, CountsTo
    <3>3. Passes(s, T!CompareDown(a, Others))
      BY <1>2, <3>2, ComparesDown, PassesOn DEF Passes
    <3> QED BY <2>1, <2>5, <3>3
  <2>6. CASE ~ (a.tar > 0)
    <3>1. Passes(s, e)
      <4>1. 0 \in Nat /\ FALSE \in BOOLEAN
        OBVIOUS
      <4> QED BY <2>4, <4>1, SetsTar, Zenon
    <3>2. TimerTurn(c) /\ SameCounter(e, c) /\ SameStack(e, c)
      BY <3>1, RaisesIfg DEF Passes
    <3> HIDE DEF c
    <3>3. Passes(e, c)
      BY <3>2 DEF Passes, SameLoads, SameCounter
    <3>4. Passes(c, T!Wraps(c, 0))
      BY <3>2, WrapsAll
    <3>5. Passes(s, T!Wraps(c, 0))
      BY <3>1, <3>3, <3>4, PassesOn
    <3> QED BY <2>1, <2>6, <3>5
  <2> QED BY <2>5, <2>6
<1> QED BY <1>1, <1>3, <1>4

LEMMA TimerUpdates ==
  ASSUME NEW s, TimerTurn(s), NEW ticks \in Nat
  PROVE  LET t == T!UpdateTimer(s, ticks)
         IN  Passes(s, t) /\ (s.mc \in {T!UP, T!CONT} => Advances(s, t, ticks))
<1> DEFINE t == T!ByMode(s, ticks, s.limit)
<1>1. T!UpdateTimer(s, ticks) = t
  <2>1. s.timer \in {"A", "B", "TA0", "TA1"} /\ (s.timer # "B" => s.limit = Top)
    BY DEF TimerTurn, TimerState, Counter
  <2> HIDE DEF t
  <2>2. t = T!ByMode(s, ticks, s.limit)
    BY DEF t
  <2> QED BY <2>1, <2>2 DEF T!UpdateTimer, T!UpdateA, T!UpdateB, T!UpdateTA0, T!UpdateTA1
<1>2. Passes(s, s) /\ Advances(s, s, ticks)
  BY DEF Passes, SameLoads, SameStack, Advances
<1>3. \/ t = s
      \/ s.mc = T!UP /\ t = T!UpdateUp(s, ticks)
      \/ s.mc = T!CONT /\ t = T!UpdateCont(s, ticks, s.limit)
      \/ s.mc = T!UD /\ t = T!UpdateUpDown(s, ticks)
  BY DEF T!ByMode, T!UP, T!CONT, T!UD
<1> HIDE DEF t
<1>4. CASE t = s
  BY <1>1, <1>2, <1>4
<1>5. CASE s.mc = T!UP /\ t = T!UpdateUp(s, ticks)
  BY <1>1, <1>5, GoesUp DEF T!UP, T!CONT
<1>6. CASE s.mc = T!CONT /\ t = T!UpdateCont(s, ticks, s.limit)
  BY <1>1, <1>6, GoesOn DEF T!UP, T!CONT
<1>7. CASE s.mc = T!UD /\ t = T!UpdateUpDown(s, ticks)
  BY <1>1, <1>7, GoesUpDown DEF T!UP, T!CONT, T!UD
<1> QED BY <1>3, <1>4, <1>5, <1>6, <1>7

\* What a step keeps of a comparator: what it is compared with, and no flag it had not.
SameSpan(s, t) == t.mc = s.mc /\ t.limit = s.limit /\ t.ccr[0] = s.ccr[0]
Left(s, t, i) == t.cap[i] = s.cap[i] /\ t.b[i] = s.b[i] /\ t.cl[i] = s.cl[i] /\ (t.ccifg[i] => s.ccifg[i])

LEMMA Loaded ==
  ASSUME NEW s, TimerState(s), NEW some, NEW to \in Numbers, NEW l, l = T!Load(s, some, to)
  PROVE  l \in Numbers /\ \A i \in T!Comparators \ some : l[i] = to[i]
<1>1. s.tar \in Nat
  BY DEF TimerState, Counter
<1> QED BY <1>1 DEF T!Load, Numbers

\* New compare registers, and the flags of a capture.
Holds(s, f, ccr, cl) ==
  /\ DOMAIN f = TimerFields /\ SameStack(s, f) /\ SameSources(s, f) /\ f.iv = s.iv /\ f.tiv = s.tiv
  /\ f.timer = s.timer /\ f.limit = s.limit /\ f.mc = s.mc /\ f.tar = s.tar /\ f.down = s.down
  /\ f.cap = s.cap /\ f.b = s.b /\ f.ccr = ccr /\ f.cl = cl

LEMMA LoadsCcr ==
  ASSUME NEW s, TimerTurn(s), NEW ccr
  PROVE  Holds(s, [s EXCEPT !.ccr = ccr], ccr, s.cl)
<1> DEFINE f == [s EXCEPT !.ccr = ccr]
<1>1. DOMAIN s = TimerFields
  BY DEF TimerTurn, TimerState
<1>2. DOMAIN f = TimerFields /\ SameStack(s, f) /\ f.iv = s.iv /\ f.tiv = s.tiv
  BY <1>1 DEF TimerFields, SameStack
<1>3. /\ f.timer = s.timer /\ f.limit = s.limit /\ f.mc = s.mc /\ f.tar = s.tar
      /\ f.cap = s.cap /\ f.b = s.b /\ f.ccr = ccr /\ f.cl = s.cl
  BY <1>1 DEF TimerFields
<1>4. f.down = s.down
  BY <1>1 DEF TimerFields
<1>5. SameSources(s, f)
  <2>1. f.ie = s.ie /\ f.ifg = s.ifg
    BY <1>1 DEF TimerFields
  <2>2. f.ccie = s.ccie /\ f.ccifg = s.ccifg
    BY <1>1 DEF TimerFields
  <2> QED BY <2>1, <2>2 DEF SameSources
<1> HIDE DEF f
<1> QED BY <1>2, <1>3, <1>4, <1>5 DEF Holds, f

LEMMA LoadsBoth ==
  ASSUME NEW s, TimerTurn(s), NEW ccr, NEW cl
  PROVE  Holds(s, [s EXCEPT !.ccr = ccr, !.cl = cl], ccr, cl)
<1> DEFINE f == [s EXCEPT !.ccr = ccr, !.cl = cl]
<1>1. DOMAIN s = TimerFields
  BY DEF TimerTurn, TimerState
<1>2. DOMAIN f = TimerFields /\ SameStack(s, f) /\ f.iv = s.iv /\ f.tiv = s.tiv
  BY <1>1 DEF TimerFields, SameStack
<1>3. /\ f.timer = s.timer /\ f.limit = s.limit /\ f.mc = s.mc /\ f.tar = s.tar
      /\ f.cap = s.cap /\ f.b = s.b /\ f.ccr = ccr /\ f.cl = cl
  BY <1>1 DEF TimerFields
<1>4. f.down = s.down
  BY <1>1 DEF TimerFields
<1>5. SameSources(s, f)
  <2>1. f.ie = s.ie /\ f.ifg = s.ifg
    BY <1>1 DEF TimerFields
  <2>2. f.ccie = s.ccie /\ f.ccifg = s.ccifg
    BY <1>1 DEF TimerFields
  <2> QED BY <2>1, <2>2 DEF SameSources
<1> HIDE DEF f
<1> QED BY <1>2, <1>3, <1>4, <1>5 DEF Holds, f

LEMMA Captured ==
  ASSUME NEW s, TimerTurn(s), NEW ccr \in Numbers, NEW cl \in Numbers, NEW f, Holds(s, f, ccr, cl),
         NEW some \in SUBSET T!Comparators
  PROVE  LET t == T!RaiseCcifg(f, some)
         IN  /\ TimerTurn(t) /\ t.mc = s.mc /\ t.limit = s.limit /\ t.cap = s.cap /\ t.b = s.b
             /\ t.ccr = ccr /\ t.cl = cl
             /\ \A i \in T!Comparators \ some : t.ccifg[i] <=> s.ccifg[i]
<1>1. Counter(s) /\ Stacked(s)
  BY DEF TimerTurn, TimerState
<1>2. Counter(f)
  BY <1>1 DEF Counter, Holds
<1>3. Stacked(f)
  BY <1>1 DEF Stacked, Holds, SameStack
<1>4. TimerTurn(f)
  BY <1>2, <1>3, Recounts DEF Holds, SameStack
<1> DEFINE t == T!RaiseCcifg(f, some)
<1>5. /\ TimerTurn(t) /\ SameCounter(f, t)
      /\ \A i \in T!Comparators : t.ccifg[i] <=> (i \in some \/ f.ccifg[i])
  BY <1>4, RaisesCcifg
<1> HIDE DEF t
<1>6. \A i \in T!Comparators \ some : t.ccifg[i] <=> s.ccifg[i]
  BY <1>5 DEF Holds, SameSources
<1>7. /\ t.mc = s.mc /\ t.limit = s.limit /\ t.cap = s.cap /\ t.b = s.b
      /\ t.ccr = ccr /\ t.cl = cl
  BY <1>5 DEF Holds, SameCounter
<1> QED BY <1>5, <1>6, <1>7 DEF t

Catches(s, t, edges) ==
  /\ TimerTurn(t) /\ t.mc = s.mc /\ t.limit = s.limit /\ (0 \notin edges => t.ccr[0] = s.ccr[0])
  /\ \A i \in Others \ edges : Left(s, t, i) /\ (t.ccifg[i] <=> s.ccifg[i])

LEMMA CapturesAt ==
  ASSUME NEW s, TimerTurn(s), NEW some \in SUBSET T!Comparators
  PROVE  Catches(s, T!CaptureAt(s, some), some) /\ Catches(s, T!CaptureAtB(s, some), some)
<1> DEFINE ccr == T!Load(s, some, s.ccr)
           cl == T!Load(s, some, s.cl)
           f == [s EXCEPT !.ccr = ccr, !.cl = cl]
           g == [s EXCEPT !.ccr = ccr]
           t == T!RaiseCcifg(f, some)
           u == T!RaiseCcifg(g, some)
<1>1. T!CaptureAt(s, some) = t /\ T!CaptureAtB(s, some) = u
  BY DEF T!CaptureAt, T!CaptureAtB
<1>2. TimerState(s) /\ s.ccr \in Numbers /\ s.cl \in Numbers /\ DOMAIN s = TimerFields
  BY DEF TimerTurn, TimerState, Counter
<1>3. ccr \in Numbers /\ \A i \in T!Comparators \ some : ccr[i] = s.ccr[i]
  BY <1>2, Loaded
<1>4. cl \in Numbers /\ \A i \in T!Comparators \ some : cl[i] = s.cl[i]
  BY <1>2, Loaded
<1> HIDE DEF ccr, cl
<1>5. Holds(s, f, ccr, cl) /\ Holds(s, g, ccr, s.cl)
  BY LoadsBoth, LoadsCcr, Zenon
<1> HIDE DEF f, g
<1>6. /\ TimerTurn(t) /\ t.mc = s.mc /\ t.limit = s.limit /\ t.cap = s.cap /\ t.b = s.b
      /\ t.ccr = ccr /\ t.cl = cl
      /\ \A i \in T!Comparators \ some : t.ccifg[i] <=> s.ccifg[i]
  BY <1>3, <1>4, <1>5, Captured
<1>7. /\ TimerTurn(u) /\ u.mc = s.mc /\ u.limit = s.limit /\ u.cap = s.cap /\ u.b = s.b
      /\ u.ccr = ccr /\ u.cl = s.cl
      /\ \A i \in T!Comparators \ some : u.ccifg[i] <=> s.ccifg[i]
  BY <1>2, <1>3, <1>5, Captured
<1> HIDE DEF t, u
<1>8. Catches(s, t, some)
  BY <1>3, <1>4, <1>6 DEF Catches, Left, T!Comparators
<1>9. Catches(s, u, some)
  BY <1>3, <1>7 DEF Catches, Left, T!Comparators
<1> QED BY <1>1, <1>8, <1>9

LEMMA Captures ==
  ASSUME NEW s, TimerTurn(s), NEW edges \in SUBSET T!Comparators
  PROVE  Catches(s, T!Capture(s, edges), edges)
<1>1. \A some \in SUBSET edges : Catches(s, T!CaptureAt(s, some), some) /\ Catches(s, T!CaptureAtB(s, some), some)
  BY CapturesAt
<1>2. \A some \in SUBSET edges : Catches(s, T!CaptureAt(s, some), edges) /\ Catches(s, T!CaptureAtB(s, some), edges)
  BY <1>1 DEF Catches
<1>3. Catches(s, T!CaptureA(s, edges), edges)
  BY <1>2 DEF T!CaptureA
<1>4. Catches(s, T!CaptureB(s, edges), edges)
  BY <1>2 DEF T!CaptureB
<1>5. Catches(s, T!CaptureTA0(s, edges), edges) /\ Catches(s, T!CaptureTA1(s, edges), edges)
  BY <1>2 DEF T!CaptureTA0, T!CaptureTA1
<1> QED BY <1>3, <1>4, <1>5, Zenon DEF T!Capture

\* The start of an interrupt resets the flag of comparator 0 when it is of its vector.
LEMMA Starts ==
  ASSUME NEW s, TimerTurn(s)
  PROVE  LET t == T!StartInterrupt(s)
         IN  TimerTurn(t) /\ SameSpan(s, t) /\ \A i \in Others : Left(s, t, i) /\ (t.ccifg[i] <=> s.ccifg[i])
<1> DEFINE t == T!StartInterrupt(s)
<1>1. /\ TimerState(s) /\ TivTells(s) /\ Posted(s) /\ DOMAIN s = TimerFields /\ Counter(s) /\ Sources(s) /\ Stacked(s)
      /\ s.ccifg \in Switches /\ 0 \in T!Comparators /\ 0 \notin Others
  BY TimerAssumption DEF TimerTurn, TimerState, Sources, T!Comparators
<1>2. ASSUME s.iv = {} \/ ~ s.gie PROVE t = s
  BY <1>2 DEF T!StartInterrupt
<1>3. ASSUME ~ (s.iv = {} \/ ~ s.gie)
      PROVE  TimerTurn(t) /\ SameSpan(s, t) /\ \A i \in Others : Left(s, t, i) /\ (t.ccifg[i] <=> s.ccifg[i])
  <2> DEFINE v == IF 0 \in s.iv THEN 0 ELSE 1
             first == IF v = 0 THEN FALSE ELSE s.ccifg[0]
             c == [s.ccifg EXCEPT ![0] = first]
             frame == [gie |-> s.gie, off |-> s.off]
             u == [s EXCEPT !.iv = @ \ {v}, !.gie = FALSE, !.off = FALSE, !.ccifg = c, !.stack = Append(@, frame)]
  <2>1. t = u
    BY <1>3 DEF T!StartInterrupt
  <2>2. first \in BOOLEAN /\ (0 \in s.iv => first = FALSE) /\ (0 \notin s.iv => (first <=> s.ccifg[0]))
    <3>1. s.ccifg[0] \in BOOLEAN
      BY <1>1 DEF Switches
    <3>2. CASE 0 \in s.iv
      BY <3>2
    <3>3. CASE 0 \notin s.iv
      <4>1. first = s.ccifg[0]
        BY <3>3
      <4> QED BY <3>1, <3>3, <4>1, Zenon
    <3> QED BY <3>2, <3>3
  <2> HIDE DEF first
  <2>3. c \in Switches /\ c[0] = first /\ \A i \in Others : c[i] = s.ccifg[i]
    BY <1>1, <2>2 DEF Switches
  <2> HIDE DEF c
  <2>4. frame \in [gie : BOOLEAN, off : BOOLEAN]
    BY <1>1 DEF Stacked
  <2> HIDE DEF frame
  <2>5. Append(s.stack, frame) \in Seq([gie : BOOLEAN, off : BOOLEAN]) /\ Append(s.stack, frame) # <<>>
    BY <1>1, <2>4 DEF Stacked
  <2>6. DOMAIN u = TimerFields
    BY <1>1
  <2>7. SameCounter(s, u)
    BY <1>1 DEF TimerFields, SameCounter
  <2>8. u.tiv = s.tiv /\ u.iv = s.iv \ {v} /\ u.stack = Append(s.stack, frame)
    BY <1>1 DEF TimerFields
  <2>9. u.gie = FALSE /\ u.off = FALSE
    BY <1>1 DEF TimerFields
  <2>10. u.ie = s.ie /\ u.ifg = s.ifg
    BY <1>1 DEF TimerFields
  <2>11. u.ccie = s.ccie /\ u.ccifg = c
    BY <1>1 DEF TimerFields
  <2> HIDE DEF u
  <2>12. TimerState(u)
    <3>1. Counter(u)
      BY <1>1, <2>7 DEF Counter, SameCounter
    <3>2. Sources(u)
      BY <1>1, <2>3, <2>10, <2>11, Zenon DEF Sources
    <3>3. u.gie \in BOOLEAN /\ u.off \in BOOLEAN
      BY <2>9, Zenon
    <3>4. Stacked(u)
      BY <2>5, <2>8, <3>3, Zenon DEF Stacked
    <3> QED BY <2>6, <3>1, <3>2, <3>4 DEF TimerState
  <2>13. \A i \in Others : T!Pending(u, i) <=> T!Pending(s, i)
    BY <2>3, <2>11 DEF T!Pending
  <2>14. TivTells(u)
    <3>1. Asking(u) => Asking(s)
      BY <2>10, <2>13 DEF Asking
    <3> QED BY <1>1, <2>7, <2>8, <3>1 DEF TivTells, Vectored, SameCounter
  <2>15. Posted(u)
    <3>1. ~ T!Pending(u, 0)
      <4>1. CASE 0 \in s.iv
        BY <2>2, <2>3, <2>11, <4>1 DEF T!Pending
      <4>2. CASE 0 \notin s.iv
        BY <1>1, <2>2, <2>3, <2>11, <4>2 DEF T!Pending, Posted
      <4> QED BY <4>1, <4>2
    <3>2. u.stack # <<>>
      BY <2>5, <2>8
    <3> QED BY <3>1, <3>2 DEF Posted
  <2>16. TimerTurn(u)
    BY <2>12, <2>14, <2>15 DEF TimerTurn
  <2>17. SameSpan(s, u) /\ \A i \in Others : Left(s, u, i) /\ (u.ccifg[i] <=> s.ccifg[i])
    BY <2>3, <2>7, <2>11 DEF SameSpan, Left, SameCounter
  <2> QED BY <2>1, <2>16, <2>17
<1>4. SameSpan(s, s) /\ \A i \in Others : Left(s, s, i)
  BY DEF SameSpan, Left
<1> HIDE DEF t
<1> QED BY <1>2, <1>3, <1>4 DEF t

\* The comparators that have still to match are not reached, and lie in the period.
Wary(s, some) ==
  \A i \in some : Low(s, i) /\ s.cl[i] \in 1..Span(s) /\ s.mc \in {T!UP, T!CONT}
TimerInv == TimerTurn(m) /\ watch \subseteq Others /\ ~ missed /\ Wary(m, watch \ hit)

\* The end of a turn, after an instruction that has left the comparators out of cut alone.
LEMMA TimerEnds ==
  ASSUME TimerInv, NEW s, NEW cut, TimerTurn(s), Others \subseteq cut \/ SameSpan(m, s),
         \A i \in Others \ cut : Left(m, s, i), T!EndTurn(s, cut)
  PROVE  TimerInv'
<1> DEFINE Body(ticks, edges, t) ==
        LET start   == s.mc \in {T!UP, T!CONT} /\ t # s /\ t.tar < s.tar + ticks
            matched == {i \in Others : t.ccifg[i] /\ ~ s.ccifg[i]}
            left    == watch \ cut
        IN  /\ 0 \in edges => t.tar >= T!Max(Ticks)
            /\ m' = T!StartInterrupt(T!Capture(t, edges))
            /\ missed' = (missed \/ (start /\ ~ (left \subseteq hit \cup matched)))
            /\ twice' = (twice \/ (left \cap hit \cap matched # {}))
            /\ watch' = IF s.mc \notin {T!UP, T!CONT} \/ 0 \in edges THEN {}
                        ELSE IF start
                        THEN {i \in Others : /\ ~ s.cap[i] /\ ~ m'.ccifg[i]
                                             /\ s.cl[i] \in 1..(IF s.mc = T!CONT THEN s.limit ELSE s.ccr[0])}
                        ELSE left
            /\ hit' = IF start THEN {} ELSE hit \cup matched
<1>0. \E ticks \in Ticks, edges \in SUBSET {i \in T!Comparators : s.cap[i]} :
      \E t \in {T!UpdateTimer(s, ticks)} : Body(ticks, edges, t)
  BY DEF T!EndTurn
<1> HIDE DEF Body
<1>1. PICK ticks \in Ticks, edges \in SUBSET {i \in T!Comparators : s.cap[i]} :
        Body(ticks, edges, T!UpdateTimer(s, ticks))
  BY <1>0
<1> DEFINE t == T!UpdateTimer(s, ticks)
<1> DEFINE c       == T!Capture(t, edges)
           start   == s.mc \in {T!UP, T!CONT} /\ t # s /\ t.tar < s.tar + ticks
           matched == {i \in Others : t.ccifg[i] /\ ~ s.ccifg[i]}
           left    == watch \ cut
           ahead   == {i \in Others : /\ ~ s.cap[i] /\ ~ m'.ccifg[i] /\ s.cl[i] \in 1..Span(s)}
<1>2. /\ m' = T!StartInterrupt(c)
      /\ missed' = (missed \/ (start /\ ~ (left \subseteq hit \cup matched)))
      /\ watch' = IF s.mc \notin {T!UP, T!CONT} \/ 0 \in edges THEN {} ELSE IF start THEN ahead ELSE left
      /\ hit' = IF start THEN {} ELSE hit \cup matched
  BY <1>1 DEF Span, Body
<1>3. ticks \in Nat /\ edges \in SUBSET T!Comparators /\ s.tar \in Nat /\ s.cl \in Numbers
      /\ Others \subseteq T!Comparators /\ \A i \in edges : s.cap[i]
  BY TickAssumption DEF TimerTurn, TimerState, Counter, T!Comparators
<1>4. Passes(s, t) /\ (s.mc \in {T!UP, T!CONT} => Advances(s, t, ticks))
  BY <1>3, TimerUpdates
<1> HIDE DEF t
<1>5. Catches(t, c, edges)
  BY <1>3, <1>4, Captures DEF Passes
<1> HIDE DEF c
<1>6. /\ TimerTurn(m') /\ SameSpan(c, m')
      /\ \A i \in Others : Left(c, m', i) /\ (m'.ccifg[i] <=> c.ccifg[i])
  BY <1>2, <1>5, Starts DEF Catches
\* What is kept since the update.
<1>7. \A i \in Others : ~ s.cap[i] =>
        /\ m'.cap[i] = s.cap[i] /\ m'.cl[i] = s.cl[i] /\ m'.b[i] = t.b[i]
        /\ m'.ccifg[i] <=> t.ccifg[i]
  <2> SUFFICES ASSUME NEW i \in Others, ~ s.cap[i]
               PROVE  /\ m'.cap[i] = s.cap[i] /\ m'.cl[i] = s.cl[i] /\ m'.b[i] = t.b[i]
                      /\ m'.ccifg[i] <=> t.ccifg[i]
    OBVIOUS
  <2>1. i \notin edges
    BY <1>3
  <2>2. Left(t, c, i) /\ (c.ccifg[i] <=> t.ccifg[i])
    BY <1>5, <2>1 DEF Catches
  <2>3. Left(c, m', i) /\ (m'.ccifg[i] <=> c.ccifg[i])
    BY <1>6
  <2>4. t.cap = s.cap /\ t.cl = s.cl
    BY <1>4 DEF Passes, SameLoads
  <2>5. m'.cap[i] = s.cap[i] /\ m'.cl[i] = s.cl[i] /\ m'.b[i] = t.b[i]
    BY <2>2, <2>3, <2>4 DEF Left
  <2>6. m'.ccifg[i] <=> t.ccifg[i]
    BY <2>2, <2>3, Zenon
  <2> QED BY <2>5, <2>6
<1>8. 0 \notin edges => Span(m') = Span(s) /\ m'.mc = s.mc
  BY <1>4, <1>5, <1>6 DEF Passes, SameLoads, Catches, SameSpan, Span
<1>9. left \subseteq Others /\ Wary(s, left \ hit)
  <2>1. left \subseteq Others /\ Wary(m, left \ hit) /\ \A i \in left : i \in Others \ cut
    BY DEF TimerInv, Wary
  <2>2. ASSUME NEW i \in left \ hit PROVE Low(s, i) /\ s.cl[i] \in 1..Span(s) /\ s.mc \in {T!UP, T!CONT}
    <3>1. SameSpan(m, s) /\ Left(m, s, i)
      BY <2>1, <2>2
    <3>2. Low(m, i) /\ m.cl[i] \in 1..Span(m) /\ m.mc \in {T!UP, T!CONT}
      BY <2>1, <2>2 DEF Wary
    <3>3. Span(s) = Span(m) /\ s.mc = m.mc
      BY <3>1 DEF SameSpan, Span
    <3>4. Low(s, i)
      BY <3>1, <3>2 DEF Left, Low
    <3> QED BY <3>1, <3>2, <3>3, <3>4 DEF Left
  <2> QED BY <2>1, <2>2 DEF Wary
\* No period ends without a match of those that are watched.
<1>10. ASSUME start
       PROVE  left \subseteq hit \cup matched /\ \A i \in Others : t.b[i] = 0
  <2>1. Advances(s, t, ticks) /\ ~ (t = s) /\ ~ (t.tar = s.tar + ticks)
    <3>1. t.tar \in Nat
      BY <1>4 DEF Passes, TimerTurn, TimerState, Counter
    <3> QED BY <1>3, <1>4, <1>10, <3>1
  <2>2. \A i \in Others : t.b[i] = 0 /\ (Low(s, i) /\ s.cl[i] =< Span(s) => t.ccifg[i])
    BY <2>1 DEF Advances
  <2>3. ASSUME NEW i \in left \ hit PROVE i \in matched
    <3>1. i \in Others /\ Low(s, i) /\ s.cl[i] \in 1..Span(s)
      BY <1>9 DEF Wary
    <3>2. Span(s) \in Int
      BY DEF TimerTurn, TimerState, Counter, Numbers, Span, T!Comparators
    <3>3. s.cl[i] =< Span(s)
      BY <3>1, <3>2
    <3> QED BY <2>2, <3>1, <3>3 DEF Low
  <2> QED BY <2>2, <2>3
<1>11. ~ missed'
  BY <1>2, <1>10 DEF TimerInv
<1>12. watch' \subseteq Others
  BY <1>2, <1>9
<1>13. ASSUME NEW i \in watch' \ hit'
       PROVE  Low(m', i) /\ m'.cl[i] \in 1..Span(m') /\ m'.mc \in {T!UP, T!CONT}
  <2>1. s.mc \in {T!UP, T!CONT} /\ 0 \notin edges /\ i \in Others
    BY <1>2, <1>12, <1>13
  <2>2. CASE start
    <3>1. ~ s.cap[i] /\ ~ m'.ccifg[i] /\ s.cl[i] \in 1..Span(s)
      BY <1>2, <1>13, <2>1, <2>2
    <3>2. t.b[i] = 0
      BY <1>10, <2>1, <2>2
    <3>3. m'.b[i] = 0 /\ m'.cl[i] = s.cl[i] /\ ~ m'.cap[i]
      BY <1>7, <2>1, <3>1, <3>2
    <3>4. 0 < s.cl[i]
      BY <3>1
    <3> QED BY <1>8, <2>1, <3>1, <3>3, <3>4 DEF Low
  <2>3. CASE ~ start
    <3>1. i \in left \ hit /\ i \notin matched
      BY <1>2, <1>13, <2>1, <2>3
    <3>2. Low(s, i) /\ s.cl[i] \in 1..Span(s)
      BY <1>9, <3>1 DEF Wary
    <3>3. ~ t.ccifg[i]
      BY <2>1, <3>1, <3>2 DEF Low
    <3>4. ~ s.cap[i] /\ ~ m'.cap[i] /\ m'.cl[i] = s.cl[i] /\ m'.b[i] = t.b[i] /\ ~ m'.ccifg[i]
      BY <1>7, <2>1, <3>2, <3>3 DEF Low
    <3>5. t.cl = s.cl
      BY <1>4 DEF Passes, SameLoads
    <3>6. t.b[i] < t.cl[i]
      <4>1. CASE t = s
        BY <3>2, <4>1 DEF Low
      <4>2. CASE \A j \in Others : Low(s, j) => t.ccifg[j] \/ Low(t, j)
        BY <2>1, <3>2, <3>3, <4>2 DEF Low
      <4>3. CASE \A j \in Others : t.b[j] = 0 /\ (Low(s, j) /\ s.cl[j] =< Span(s) => t.ccifg[j])
        BY <2>1, <3>2, <3>5, <4>3
      <4> QED BY <1>4, <2>1, <4>1, <4>2, <4>3 DEF Advances
    <3>7. Low(m', i)
      BY <3>4, <3>5, <3>6 DEF Low
    <3> QED BY <1>8, <2>1, <3>2, <3>4, <3>7
  <2> QED BY <2>2, <2>3
<1>14. Wary(m', watch' \ hit')
  BY <1>13 DEF Wary
<1> QED BY <1>6, <1>11, <1>12, <1>14 DEF TimerInv

\* What an instruction keeps of all the comparators.
Spares(s, t) == TimerTurn(t) /\ SameSpan(s, t) /\ \A i \in Others : Left(s, t, i)

LEMMA Spared ==
  ASSUME NEW s, NEW t, TimerTurn(t), SameCounter(s, t), \A i \in Others : t.ccifg[i] => s.ccifg[i]
  PROVE  Spares(s, t)
BY DEF Spares, SameCounter, SameSpan, Left

LEMMA SparesNone == ASSUME NEW s, TimerTurn(s) PROVE Spares(s, s)
BY DEF Spares, SameSpan, Left

LEMMA SparesAll == ASSUME TimerInv, NEW s, NEW cut, Spares(m, s), T!EndTurn(s, cut) PROVE TimerInv'
<1>1. TimerTurn(s) /\ SameSpan(m, s) /\ \A i \in Others \ cut : Left(m, s, i)
  BY DEF Spares
<1> QED BY <1>1, TimerEnds

LEMMA SetsGie ==
  ASSUME NEW s, TimerTurn(s), NEW b \in BOOLEAN
  PROVE  Spares(s, [s EXCEPT !.gie = b])
<1> DEFINE t == [s EXCEPT !.gie = b]
<1>1. DOMAIN s = TimerFields /\ Counter(s) /\ Stacked(s)
  BY DEF TimerTurn, TimerState
<1>2. /\ DOMAIN t = TimerFields /\ SameCounter(s, t) /\ t.iv = s.iv /\ t.tiv = s.tiv /\ t.stack = s.stack
  BY <1>1 DEF TimerFields, SameCounter
<1>3. t.gie = b /\ t.off = s.off
  BY <1>1 DEF TimerFields
<1>4. t.ie = s.ie /\ t.ifg = s.ifg
  BY <1>1 DEF TimerFields
<1>5. t.ccie = s.ccie /\ t.ccifg = s.ccifg
  BY <1>1 DEF TimerFields
<1> HIDE DEF t
<1>6. Counter(t)
  BY <1>1, <1>2 DEF Counter, SameCounter
<1>7. Stacked(t)
  BY <1>1, <1>2, <1>3 DEF Stacked
<1>8. SameSources(s, t) /\ t.timer = s.timer
  BY <1>2, <1>4, <1>5 DEF SameSources, SameCounter
<1>9. TimerTurn(t)
  BY <1>2, <1>6, <1>7, <1>8, Recounts
<1> QED BY <1>2, <1>5, <1>9, Spared DEF t

LEMMA SetsOff ==
  ASSUME NEW s, TimerTurn(s)
  PROVE  Spares(s, [s EXCEPT !.off = TRUE, !.gie = TRUE])
<1> DEFINE t == [s EXCEPT !.off = TRUE, !.gie = TRUE]
<1>1. DOMAIN s = TimerFields /\ Counter(s) /\ Stacked(s)
  BY DEF TimerTurn, TimerState
<1>2. /\ DOMAIN t = TimerFields /\ SameCounter(s, t) /\ t.iv = s.iv /\ t.tiv = s.tiv /\ t.stack = s.stack
  BY <1>1 DEF TimerFields, SameCounter
<1>3. t.gie = TRUE /\ t.off = TRUE
  BY <1>1 DEF TimerFields
<1>4. t.ie = s.ie /\ t.ifg = s.ifg
  BY <1>1 DEF TimerFields
<1>5. t.ccie = s.ccie /\ t.ccifg = s.ccifg
  BY <1>1 DEF TimerFields
<1> HIDE DEF t
<1>6. Counter(t)
  BY <1>1, <1>2 DEF Counter, SameCounter
<1>7. Stacked(t)
  BY <1>1, <1>2, <1>3 DEF Stacked
<1>8. SameSources(s, t) /\ t.timer = s.timer
  BY <1>2, <1>4, <1>5 DEF SameSources, SameCounter
<1>9. TimerTurn(t)
  BY <1>2, <1>6, <1>7, <1>8, Recounts
<1> QED BY <1>2, <1>5, <1>9, Spared DEF t

\* RETI pops the SR, and posts again what still asks.
LEMMA Returns ==
  ASSUME NEW s, TimerTurn(s), s.stack # <<>>
  PROVE  Spares(s, T!Reti(s))
<1> DEFINE top == s.stack[Len(s.stack)]
           below == SubSeq(s.stack, 1, Len(s.stack) - 1)
           f == [s EXCEPT !.gie = top.gie, !.off = top.off, !.stack = below]
           t == T!CheckFlags(f)
<1>1. T!Reti(s) = t
  BY DEF T!Reti
<1>2. /\ DOMAIN s = TimerFields /\ Counter(s) /\ Sources(s) /\ Stacked(s) /\ TivTells(s) /\ Posted(s)
      /\ s.timer \in {"A", "B", "TA0", "TA1"}
  BY DEF TimerTurn, TimerState, Counter
<1>3. top \in [gie : BOOLEAN, off : BOOLEAN] /\ below \in Seq([gie : BOOLEAN, off : BOOLEAN])
  <2> DEFINE Frames == [gie : BOOLEAN, off : BOOLEAN]
  <2>1. s.stack \in Seq(Frames)
    BY <1>2 DEF Stacked
  <2> HIDE DEF Frames
  <2>2. Len(s.stack) \in 1..Len(s.stack) /\ \A i \in 1..Len(s.stack) : s.stack[i] \in Frames
    BY <2>1
  <2>3. top \in Frames
    BY <2>2
  <2>4. below \in Seq(Frames)
    <3>1. Len(s.stack) - 1 \in Int /\ 1 \in Int /\ \A i \in 1..(Len(s.stack) - 1) : s.stack[i] \in Frames
      BY <2>1, <2>2
    <3> QED BY <3>1, SubSeqProperties
  <2> QED BY <2>3, <2>4 DEF Frames
<1>4. top.gie \in BOOLEAN /\ top.off \in BOOLEAN
  BY <1>3
<1> HIDE DEF top, below
<1>5. DOMAIN f = TimerFields /\ SameCounter(s, f) /\ f.iv = s.iv /\ f.tiv = s.tiv /\ f.stack = below
  BY <1>2 DEF TimerFields, SameCounter
<1>6. f.gie = top.gie /\ f.off = top.off
  BY <1>2 DEF TimerFields
<1>7. f.ie = s.ie /\ f.ifg = s.ifg
  BY <1>2 DEF TimerFields
<1>8. f.ccie = s.ccie /\ f.ccifg = s.ccifg
  BY <1>2 DEF TimerFields
<1> HIDE DEF f
<1>9. Counter(f)
  BY <1>2, <1>5 DEF Counter, SameCounter
<1>10. Stacked(f)
  BY <1>3, <1>4, <1>5, <1>6, Zenon DEF Stacked
<1>11. Sources(f)
  BY <1>2, <1>7, <1>8, Zenon DEF Sources
<1>12. TimerState(f)
  BY <1>5, <1>9, <1>10, <1>11 DEF TimerState
<1>13. \A i : T!Pending(f, i) <=> T!Pending(s, i)
  BY <1>8 DEF T!Pending
<1>14. Asking(f) <=> Asking(s)
  BY <1>7, <1>13 DEF Asking
<1>15. TivTells(f) /\ (T!Pending(f, 0) => 0 \in f.iv)
  BY <1>2, <1>5, <1>13, <1>14 DEF TivTells, Vectored, SameCounter, Posted
<1>16. ASSUME NEW v \in {0, 1}
       PROVE  TimerTurn(T!Post(f, v)) /\ SameCounter(f, T!Post(f, v)) /\ T!Post(f, v).ccifg = f.ccifg
  <2> DEFINE p == T!Post(f, v)
  <2>1. DOMAIN p = TimerFields /\ SameCounter(f, p) /\ SameStack(f, p) /\ p.tiv = f.tiv /\ p.iv = f.iv \cup {v}
    BY <1>5 DEF TimerFields, SameCounter, SameStack, T!Post
  <2>2. p.ie = f.ie /\ p.ifg = f.ifg
    BY <1>5 DEF TimerFields, T!Post
  <2>3. p.ccie = f.ccie /\ p.ccifg = f.ccifg
    BY <1>5 DEF TimerFields, T!Post
  <2> HIDE DEF p
  <2>4. Counter(p) /\ Stacked(p)
    BY <1>9, <1>10, <2>1 DEF Counter, Stacked, SameCounter, SameStack
  <2>5. Sources(p)
    BY <1>11, <2>2, <2>3, Zenon DEF Sources
  <2>6. \A i : T!Pending(p, i) <=> T!Pending(f, i)
    BY <2>3 DEF T!Pending
  <2>7. Asking(p) => Asking(f)
    BY <2>2, <2>6 DEF Asking
  <2>8. TivTells(p)
    BY <1>15, <2>1, <2>7 DEF TivTells, Vectored, SameCounter
  <2>9. Posted(p)
    BY <1>15, <2>1, <2>6 DEF Posted
  <2>10. TimerTurn(p)
    BY <2>1, <2>4, <2>5, <2>8, <2>9 DEF TimerTurn, TimerState
  <2> QED BY <2>1, <2>3, <2>10 DEF p
<1>17. \/ t = f /\ (Vectored(f) /\ Asking(f) => FALSE)
       \/ \E v \in {0, 1} : t = T!Post(f, v)
  <2>1. CASE f.timer \in {"A", "B"}
    <3>1. t = T!CheckIfg(f)
      BY <2>1 DEF T!CheckFlags, T!CheckIfgB
    <3>2. Vectored(f) /\ Asking(f) => f.tiv # 0
      BY <1>15 DEF TivTells
    <3> QED BY <3>1, <3>2 DEF T!CheckIfg, Asking
  <2>2. CASE f.timer \notin {"A", "B"}
    <3>1. t = f
      BY <2>2 DEF T!CheckFlags
    <3>2. ~ Vectored(f)
      BY <1>2, <1>5, <2>2 DEF Vectored, T!TimersTA, SameCounter
    <3> QED BY <3>1, <3>2
  <2> QED BY <2>1, <2>2
<1>18. TimerTurn(t) /\ SameCounter(f, t) /\ t.ccifg = f.ccifg
  <2>1. ASSUME t = f, Vectored(f) /\ Asking(f) => FALSE
        PROVE  TimerTurn(t) /\ SameCounter(f, t) /\ t.ccifg = f.ccifg
    <3>1. TimerTurn(f)
      BY <1>12, <1>15, <2>1 DEF TimerTurn, Posted
    <3> HIDE DEF t
    <3> QED BY <2>1, <3>1 DEF SameCounter
  <2> HIDE DEF t
  <2> QED BY <1>16, <1>17, <2>1
<1> HIDE DEF t
<1>19. SameCounter(s, t)
  BY <1>5, <1>18 DEF SameCounter
<1> QED BY <1>1, <1>8, <1>18, <1>19, Spared

\* A register is written: the vector register tells of what is left.
LEMMA Rewrites ==
  ASSUME NEW s, TimerTurn(s), NEW x, DOMAIN x = TimerFields, Counter(x), Sources(x), Stacked(x),
         x.timer = s.timer, s.iv \subseteq x.iv, x.stack = s.stack,
         T!Pending(x, 0) => T!Pending(s, 0) \/ 0 \in x.iv,
         Asking(x) => Asking(s) \/ x.iv # {}
  PROVE  LET t == T!SetTiv(x)
         IN  TimerTurn(t) /\ SameCounter(x, t) /\ t.ccifg = x.ccifg
<1> DEFINE t == T!SetTiv(x)
<1>1. x.timer \in {"A", "B", "TA0", "TA1"}
  BY DEF Counter
<1>2. /\ DOMAIN t = TimerFields /\ SameCounter(x, t) /\ SameSources(x, t) /\ SameStack(x, t)
      /\ t.iv = x.iv /\ TivTells(t)
  BY <1>1, SetsTiv
<1> HIDE DEF t
<1>3. Counter(t) /\ Stacked(t)
  BY <1>2 DEF Counter, Stacked, SameCounter, SameStack
<1>4. Sources(t)
  BY <1>2 DEF Sources, SameSources
<1>5. \A i : T!Pending(t, i) <=> T!Pending(x, i)
  BY <1>2 DEF T!Pending, SameSources
<1>6. Asking(t) => Asking(x)
  BY <1>2, <1>5 DEF Asking, SameSources
<1>7. t.timer = s.timer /\ t.stack = s.stack
  BY <1>2 DEF SameCounter, SameStack
<1>8. TimerTurn(t)
  BY <1>2, <1>3, <1>4, <1>5, <1>6, <1>7, AsksLess
<1> QED BY <1>2, <1>8 DEF t, SameSources

\* Reading the vector register resets the first flag it can tell of.
LEMMA ClearsFirst ==
  ASSUME NEW s, TimerTurn(s), NEW sources \in SUBSET Others
  PROVE  Spares(s, T!ClearFirst(s, sources))
<1> DEFINE some == {i \in sources : s.ccifg[i]}
           least == T!Min(some)
           flags == [s.ccifg EXCEPT ![least] = FALSE]
           g == [s EXCEPT !.ifg = FALSE]
           h == [s EXCEPT !.ccifg = flags]
           x == IF some = {} THEN g ELSE h
<1>1. T!ClearFirst(s, sources) = T!SetTiv(x)
  BY DEF T!ClearFirst
<1>2. DOMAIN s = TimerFields /\ Counter(s) /\ Sources(s) /\ Stacked(s) /\ s.ccifg \in Switches
  BY DEF TimerTurn, TimerState, Sources
<1>3. flags \in Switches /\ \A i \in T!Comparators : flags[i] => s.ccifg[i]
  BY <1>2 DEF Switches
<1> HIDE DEF flags
<1>4. /\ DOMAIN g = TimerFields /\ SameCounter(s, g) /\ SameStack(s, g) /\ g.iv = s.iv
  BY <1>2 DEF TimerFields, SameCounter, SameStack
<1>5. g.ie = s.ie /\ g.ifg = FALSE /\ g.ccie = s.ccie /\ g.ccifg = s.ccifg
  <2>1. g.ie = s.ie /\ g.ifg = FALSE
    BY <1>2 DEF TimerFields
  <2>2. g.ccie = s.ccie /\ g.ccifg = s.ccifg
    BY <1>2 DEF TimerFields
  <2> QED BY <2>1, <2>2
<1>6. /\ DOMAIN h = TimerFields /\ SameCounter(s, h) /\ SameStack(s, h) /\ h.iv = s.iv
  BY <1>2 DEF TimerFields, SameCounter, SameStack
<1>7. h.ie = s.ie /\ h.ifg = s.ifg /\ h.ccie = s.ccie /\ h.ccifg = flags
  <2>1. h.ie = s.ie /\ h.ifg = s.ifg
    BY <1>2 DEF TimerFields
  <2>2. h.ccie = s.ccie /\ h.ccifg = flags
    BY <1>2 DEF TimerFields
  <2> QED BY <2>1, <2>2
<1> HIDE DEF g, h
<1>8. /\ DOMAIN x = TimerFields /\ SameCounter(s, x) /\ SameStack(s, x) /\ x.iv = s.iv
  BY <1>4, <1>6
<1>9. Sources(g) /\ Sources(h)
  <2>1. Sources(g)
    BY <1>2, <1>5, Zenon DEF Sources
  <2>2. Sources(h)
    BY <1>2, <1>3, <1>7, Zenon DEF Sources
  <2> QED BY <2>1, <2>2
<1>10. \A i \in T!Comparators : (T!Pending(g, i) => T!Pending(s, i)) /\ (T!Pending(h, i) => T!Pending(s, i))
  BY <1>3, <1>5, <1>7 DEF T!Pending
<1>11. (Asking(g) => Asking(s)) /\ (Asking(h) => Asking(s))
  <2>1. Asking(g) => Asking(s)
    BY <1>5, <1>10 DEF Asking, T!Comparators
  <2>2. Asking(h) => Asking(s)
    BY <1>7, <1>10 DEF Asking, T!Comparators
  <2> QED BY <2>1, <2>2
<1>12. \A i \in Others : (g.ccifg[i] => s.ccifg[i]) /\ (h.ccifg[i] => s.ccifg[i])
  BY <1>3, <1>5, <1>7 DEF T!Comparators
<1>13. /\ Sources(x) /\ (T!Pending(x, 0) => T!Pending(s, 0)) /\ (Asking(x) => Asking(s))
       /\ \A i \in Others : x.ccifg[i] => s.ccifg[i]
  BY <1>9, <1>10, <1>11, <1>12 DEF T!Comparators
<1> HIDE DEF x
<1>14. Counter(x) /\ Stacked(x)
  BY <1>2, <1>8 DEF Counter, Stacked, SameCounter, SameStack
<1> DEFINE t == T!SetTiv(x)
<1>15. TimerTurn(t) /\ SameCounter(x, t) /\ t.ccifg = x.ccifg
  BY <1>8, <1>13, <1>14, Rewrites DEF SameCounter, SameStack
<1> HIDE DEF t
<1>16. Spares(s, t)
  BY <1>8, <1>13, <1>15, Spared DEF SameCounter
<1> QED BY <1>1, <1>16 DEF t

LEMMA SetsLimit ==
  ASSUME NEW s, TimerTurn(s), s.timer = "B", NEW limit \in Nat
  PROVE  LET t == [s EXCEPT !.limit = limit]
         IN  /\ TimerTurn(t) /\ t.limit = limit /\ t.timer = s.timer /\ t.mc = s.mc /\ t.cap = s.cap
             /\ t.ccr = s.ccr /\ t.cl = s.cl /\ t.b = s.b /\ t.ccifg = s.ccifg /\ t.ie = s.ie /\ t.ifg = s.ifg
<1> DEFINE t == [s EXCEPT !.limit = limit]
<1>1. DOMAIN s = TimerFields /\ Counter(s) /\ Stacked(s)
  BY DEF TimerTurn, TimerState
<1>2. /\ DOMAIN t = TimerFields /\ t.limit = limit /\ t.timer = s.timer /\ t.mc = s.mc /\ t.cap = s.cap
      /\ t.ccr = s.ccr /\ t.cl = s.cl /\ t.b = s.b /\ t.tar = s.tar
  BY <1>1 DEF TimerFields
<1>3. t.down = s.down
  BY <1>1 DEF TimerFields
<1>4. SameStack(s, t) /\ t.iv = s.iv /\ t.tiv = s.tiv
  BY <1>1 DEF TimerFields, SameStack
<1>5. t.ie = s.ie /\ t.ifg = s.ifg
  BY <1>1 DEF TimerFields
<1>6. t.ccie = s.ccie /\ t.ccifg = s.ccifg
  BY <1>1 DEF TimerFields
<1> HIDE DEF t
<1>7. Counter(t)
  BY <1>1, <1>2, <1>3 DEF Counter
<1>8. Stacked(t)
  BY <1>1, <1>4 DEF Stacked, SameStack
<1>9. TimerTurn(t)
  BY <1>2, <1>4, <1>5, <1>6, <1>7, <1>8, Recounts DEF SameSources, SameStack
<1> QED BY <1>2, <1>5, <1>6, <1>9 DEF t

\* What a write of TACTL sets, and what it leaves alone.
ModeSet(s, t, mc, limit) ==
  /\ TimerTurn(t) /\ t.mc = mc /\ t.limit = limit /\ t.cap = s.cap
  /\ t.ccr = s.ccr /\ t.cl = s.cl /\ t.b = s.b /\ t.ccifg = s.ccifg

LEMMA WritesTactl ==
  ASSUME NEW s, TimerTurn(s), NEW mc \in 0..3, NEW ie \in BOOLEAN, NEW ifg \in BOOLEAN, NEW clr \in BOOLEAN
  PROVE  ModeSet(s, T!WriteCtl(s, mc, ie, ifg, clr), mc, s.limit)
<1> DEFINE tar == IF clr \/ (mc # s.mc /\ mc = T!UP /\ s.tar > s.ccr[0]) THEN 0 ELSE s.tar
           down == IF mc # s.mc THEN FALSE ELSE s.down
           a == [s EXCEPT !.tar = tar, !.down = down]
           posts == (ie # s.ie \/ ifg # s.ifg) /\ ie /\ ifg
           n == IF posts THEN T!Post(a, 1) ELSE a
           x == [n EXCEPT !.mc = mc, !.ie = ie, !.ifg = ifg]
           t == T!SetTiv(x)
<1>1. T!WriteCtl(s, mc, ie, ifg, clr) = t
  <2>1. a = [s EXCEPT !.tar = IF clr \/ (mc # s.mc /\ mc = T!UP /\ @ > s.ccr[0]) THEN 0 ELSE @,
                      !.down = IF mc # s.mc THEN FALSE ELSE @]
    BY DEF TimerTurn, TimerState, TimerFields
  <2> HIDE DEF a
  <2> QED BY <2>1 DEF T!WriteCtl
<1>2. s.tar \in Nat /\ s.down \in BOOLEAN
  BY DEF TimerTurn, TimerState, Counter
<1>3. tar \in Nat /\ down \in BOOLEAN
  <2>1. tar \in Nat
    BY <1>2
  <2>2. CASE mc # s.mc
    BY <2>1, <2>2
  <2>3. CASE mc = s.mc
    <3>1. down = s.down
      BY <2>3, Zenon
    <3> QED BY <1>2, <2>1, <3>1, Zenon
  <2> QED BY <2>2, <2>3
<1> HIDE DEF tar, down
<1>4. Passes(s, a) /\ a.ccifg = s.ccifg /\ a.b = s.b
  <2>1. Passes(s, a)
    BY <1>3, SetsTar, Zenon
  <2>2. a.ccifg = s.ccifg /\ a.b = s.b
    BY DEF TimerTurn, TimerState, TimerFields
  <2> QED BY <2>1, <2>2
<1>5. a.ie = s.ie /\ a.ifg = s.ifg
  BY DEF TimerTurn, TimerState, TimerFields
<1>6. a.ccie = s.ccie /\ a.iv = s.iv
  BY DEF TimerTurn, TimerState, TimerFields
<1> HIDE DEF a
<1>7. DOMAIN a = TimerFields /\ Counter(a) /\ Sources(a) /\ Stacked(a)
  BY <1>4 DEF Passes, TimerTurn, TimerState
<1> DEFINE p == T!Post(a, 1)
<1>8. /\ DOMAIN p = TimerFields /\ SameCounter(a, p) /\ SameStack(a, p) /\ p.iv = a.iv \cup {1}
      /\ p.ccie = a.ccie /\ p.ccifg = a.ccifg
  <2>1. DOMAIN p = TimerFields /\ SameCounter(a, p) /\ SameStack(a, p) /\ p.iv = a.iv \cup {1}
    BY <1>7 DEF TimerFields, SameCounter, SameStack, T!Post
  <2>2. p.ccie = a.ccie /\ p.ccifg = a.ccifg
    BY <1>7 DEF TimerFields, T!Post
  <2> QED BY <2>1, <2>2
<1> HIDE DEF p
<1>9. /\ DOMAIN n = TimerFields /\ SameCounter(a, n) /\ SameStack(a, n) /\ n.ccie = a.ccie /\ n.ccifg = a.ccifg
      /\ s.iv \subseteq n.iv /\ (posts => n.iv # {})
  <2>1. CASE posts
    <3>1. n = p
      BY <2>1 DEF p
    <3> HIDE DEF n
    <3> QED BY <1>6, <1>8, <3>1
  <2>2. CASE ~ posts
    <3>1. n = a
      BY <2>2
    <3> HIDE DEF n, posts
    <3>2. SameCounter(a, a) /\ SameStack(a, a)
      BY DEF SameCounter, SameStack
    <3> QED BY <1>6, <1>7, <2>2, <3>1, <3>2
  <2> QED BY <2>1, <2>2
<1> HIDE DEF n
<1>10. DOMAIN x = TimerFields /\ SameStack(n, x) /\ x.iv = n.iv
  BY <1>9 DEF TimerFields, SameStack
<1>11. /\ x.timer = n.timer /\ x.limit = n.limit /\ x.mc = mc /\ x.tar = n.tar /\ x.cap = n.cap
       /\ x.ccr = n.ccr /\ x.cl = n.cl /\ x.b = n.b
  BY <1>9 DEF TimerFields
<1>12. x.down = n.down
  BY <1>9 DEF TimerFields
<1>13. x.ie = ie /\ x.ifg = ifg
  BY <1>9 DEF TimerFields
<1>14. x.ccie = n.ccie /\ x.ccifg = n.ccifg
  BY <1>9 DEF TimerFields
<1> HIDE DEF x
<1>15. Counter(x)
  BY <1>7, <1>9, <1>11, <1>12 DEF Counter, SameCounter
<1>16. Stacked(x)
  BY <1>7, <1>9, <1>10 DEF Stacked, SameStack
<1>17. Sources(x)
  BY <1>7, <1>9, <1>13, <1>14, Zenon DEF Sources
<1>18. x.ccie = s.ccie /\ x.ccifg = s.ccifg
  BY <1>4, <1>6, <1>9, <1>14, Zenon
<1>19. \A i : T!Pending(x, i) <=> T!Pending(s, i)
  BY <1>18 DEF T!Pending
<1>20. x.ie /\ x.ifg => (s.ie /\ s.ifg) \/ x.iv # {}
  <2>1. s.ie \in BOOLEAN /\ s.ifg \in BOOLEAN
    BY DEF TimerTurn, TimerState, Sources
  <2>2. posts => x.iv # {}
    BY <1>9, <1>10
  <2>3. ASSUME x.ie, x.ifg, ~ posts PROVE s.ie /\ s.ifg
    <3>1. ie /\ ifg /\ ~ (ie # s.ie) /\ ~ (ifg # s.ifg)
      BY <1>13, <2>3
    <3> QED BY <3>1
  <2> HIDE DEF posts
  <2> QED BY <2>2, <2>3
<1>21. Asking(x) => Asking(s) \/ x.iv # {}
  BY <1>19, <1>20 DEF Asking
<1>22. x.timer = s.timer /\ x.stack = s.stack /\ x.limit = s.limit /\ x.cap = s.cap /\ x.ccr = s.ccr /\ x.cl = s.cl
       /\ x.b = s.b
  BY <1>4, <1>9, <1>10, <1>11 DEF Passes, SameLoads, SameStack, SameCounter
<1>23. s.iv \subseteq x.iv
  BY <1>9, <1>10
<1>24. TimerTurn(t) /\ SameCounter(x, t) /\ t.ccifg = x.ccifg
  BY <1>10, <1>15, <1>16, <1>17, <1>19, <1>21, <1>22, <1>23, Rewrites
<1> HIDE DEF t
<1> QED BY <1>1, <1>11, <1>18, <1>22, <1>24 DEF SameCounter, ModeSet

LEMMA WritesCtlOf ==
  ASSUME NEW s, TimerTurn(s), NEW mc \in 0..3, NEW ie \in BOOLEAN, NEW ifg \in BOOLEAN, NEW clr \in BOOLEAN,
         NEW limit \in Nat, s.timer # "B" => limit = s.limit
  PROVE  LET t == T!WriteTimer(s, [reg |-> "ctl", mc |-> mc, ie |-> ie, ifg |-> ifg, clr |-> clr, limit |-> limit])
         IN  ModeSet(s, t, mc, limit)
<1> DEFINE w == [reg |-> "ctl", mc |-> mc, ie |-> ie, ifg |-> ifg, clr |-> clr, limit |-> limit]
           n == [s EXCEPT !.limit = limit]
           t == T!WriteTimer(s, w)
<1>1. w.reg = "ctl" /\ w.mc = mc /\ w.limit = limit
  OBVIOUS
<1>2. w.ie = ie /\ w.ifg = ifg /\ w.clr = clr
  OBVIOUS
<1> HIDE DEF w
<1>3. \A x, v : T!WriteAny(x, w, v) = T!WriteCtl(x, mc, ie, ifg, clr)
  BY <1>1, <1>2 DEF T!WriteAny
<1>4. ASSUME s.timer = "B" PROVE ModeSet(s, t, mc, limit)
  <2>1. t = T!WriteCtl(n, mc, ie, ifg, clr)
    BY <1>1, <1>3, <1>4 DEF T!WriteTimer, T!WriteB
  <2>2. TimerTurn(n) /\ n.limit = limit /\ n.cap = s.cap /\ n.ccr = s.ccr /\ n.cl = s.cl /\ n.b = s.b
        /\ n.ccifg = s.ccifg
    BY <1>4, SetsLimit
  <2> HIDE DEF n, t
  <2>3. ModeSet(n, t, mc, n.limit)
    BY <2>1, <2>2, WritesTactl, Zenon
  <2> QED BY <2>2, <2>3 DEF ModeSet
<1>5. ASSUME s.timer # "B" PROVE ModeSet(s, t, mc, limit)
  <2>1. t = T!WriteCtl(s, mc, ie, ifg, clr)
    BY <1>3, <1>5 DEF T!WriteTimer, T!WriteA, T!WriteTA0, T!WriteTA1
  <2> HIDE DEF t
  <2>2. ModeSet(s, t, mc, s.limit)
    BY <2>1, WritesTactl, Zenon
  <2> QED BY <1>5, <2>2, Zenon
<1>6. ModeSet(s, t, mc, limit)
  BY <1>4, <1>5
<1> QED BY <1>6, Zenon DEF w

LEMMA WritesTacctl ==
  ASSUME NEW s, TimerTurn(s), NEW i \in T!Comparators, NEW cap \in BOOLEAN, NEW ie \in BOOLEAN, NEW ifg \in BOOLEAN,
         NEW vector, i = 0 => vector = 0
  PROVE  LET t == T!WriteCctl(s, i, cap, ie, ifg, vector)
         IN  TimerTurn(t) /\ SameSpan(s, t) /\ \A j \in Others \ {i} : Left(s, t, j)
<1> DEFINE posts == (ie # s.ccie[i] \/ ifg # s.ccifg[i]) /\ ie /\ ifg
           p == T!Post(s, vector)
           n == IF posts THEN p ELSE s
           caps == [n.cap EXCEPT ![i] = cap]
           ies == [n.ccie EXCEPT ![i] = ie]
           ifgs == [n.ccifg EXCEPT ![i] = ifg]
           x == [n EXCEPT !.cap = caps, !.ccie = ies, !.ccifg = ifgs]
           t == T!SetTiv(x)
<1>1. T!WriteCctl(s, i, cap, ie, ifg, vector) = t
  BY DEF T!WriteCctl
<1>2. DOMAIN s = TimerFields /\ Counter(s) /\ Sources(s) /\ Stacked(s)
  BY DEF TimerTurn, TimerState
<1>3. /\ DOMAIN p = TimerFields /\ SameCounter(s, p) /\ SameStack(s, p) /\ SameSources(s, p)
      /\ p.iv = s.iv \cup {vector}
  <2>1. DOMAIN p = TimerFields /\ SameCounter(s, p) /\ SameStack(s, p) /\ p.iv = s.iv \cup {vector}
    BY <1>2 DEF TimerFields, SameCounter, SameStack, T!Post
  <2>2. p.ie = s.ie /\ p.ifg = s.ifg
    BY <1>2 DEF TimerFields, T!Post
  <2>3. p.ccie = s.ccie /\ p.ccifg = s.ccifg
    BY <1>2 DEF TimerFields, T!Post
  <2> QED BY <2>1, <2>2, <2>3 DEF SameSources
<1> HIDE DEF p
<1>4. /\ DOMAIN n = TimerFields /\ SameCounter(s, n) /\ SameStack(s, n) /\ SameSources(s, n)
      /\ s.iv \subseteq n.iv /\ (posts => vector \in n.iv)
  <2>1. CASE posts
    <3>1. n = p
      BY <2>1
    <3> HIDE DEF n, posts
    <3> QED BY <1>3, <3>1
  <2>2. CASE ~ posts
    <3>1. n = s
      BY <2>2
    <3> HIDE DEF n, posts
    <3>2. SameCounter(s, s) /\ SameStack(s, s) /\ SameSources(s, s)
      BY DEF SameCounter, SameStack, SameSources
    <3> QED BY <1>2, <2>2, <3>1, <3>2
  <2> QED BY <2>1, <2>2
<1> HIDE DEF n
<1>5. n.cap \in Switches /\ n.ccie \in Switches /\ n.ccifg \in Switches
  BY <1>2, <1>4 DEF Counter, Sources, SameCounter, SameSources
<1>6. caps \in Switches /\ \A j \in T!Comparators \ {i} : caps[j] = n.cap[j]
  BY <1>5 DEF Switches
<1>7. ies \in Switches /\ ies[i] = ie /\ \A j \in T!Comparators \ {i} : ies[j] = n.ccie[j]
  BY <1>5 DEF Switches
<1>8. ifgs \in Switches /\ ifgs[i] = ifg /\ \A j \in T!Comparators \ {i} : ifgs[j] = n.ccifg[j]
  BY <1>5 DEF Switches
<1> HIDE DEF caps, ies, ifgs
<1>9. DOMAIN x = TimerFields /\ SameStack(n, x) /\ x.iv = n.iv
  BY <1>4 DEF TimerFields, SameStack
<1>10. /\ x.timer = n.timer /\ x.limit = n.limit /\ x.mc = n.mc /\ x.tar = n.tar /\ x.cap = caps
       /\ x.ccr = n.ccr /\ x.cl = n.cl /\ x.b = n.b
  BY <1>4 DEF TimerFields
<1>11. x.down = n.down
  BY <1>4 DEF TimerFields
<1>12. x.ie = n.ie /\ x.ifg = n.ifg
  BY <1>4 DEF TimerFields
<1>13. x.ccie = ies /\ x.ccifg = ifgs
  BY <1>4 DEF TimerFields
<1> HIDE DEF x
<1>14. Counter(x)
  BY <1>2, <1>4, <1>6, <1>10, <1>11 DEF Counter, SameCounter
<1>15. Stacked(x)
  BY <1>2, <1>4, <1>9 DEF Stacked, SameStack
<1>16. Sources(x)
  <2>1. x.ie \in BOOLEAN /\ x.ifg \in BOOLEAN
    BY <1>2, <1>4, <1>12, Zenon DEF Sources, SameSources
  <2> QED BY <1>7, <1>8, <1>13, <2>1, Zenon DEF Sources
<1>17. \A j \in T!Comparators \ {i} : T!Pending(x, j) => T!Pending(s, j)
  BY <1>4, <1>7, <1>8, <1>13 DEF T!Pending, SameSources
<1>18. T!Pending(x, i) => T!Pending(s, i) \/ vector \in x.iv
  <2>1. s.ccie[i] \in BOOLEAN /\ s.ccifg[i] \in BOOLEAN
    BY <1>2 DEF Sources, Switches
  <2>2. CASE posts
    BY <1>4, <1>9, <2>2, Zenon
  <2>3. ASSUME ~ posts, T!Pending(x, i) PROVE T!Pending(s, i)
    <3>1. ie /\ ifg
      BY <1>7, <1>8, <1>13, <2>3 DEF T!Pending
    <3>2. ~ (ie # s.ccie[i]) /\ ~ (ifg # s.ccifg[i])
      BY <2>3, <3>1, Zenon
    <3> QED BY <3>1, <3>2 DEF T!Pending
  <2> HIDE DEF posts
  <2> QED BY <2>2, <2>3
<1> HIDE DEF posts
<1>19. T!Pending(x, 0) => T!Pending(s, 0) \/ 0 \in x.iv
  BY <1>17, <1>18 DEF T!Comparators
<1>20. Asking(x) => Asking(s) \/ x.iv # {}
  <2>1. x.ie = s.ie /\ x.ifg = s.ifg
    BY <1>4, <1>12 DEF SameSources
  <2>2. \A j \in Others : T!Pending(x, j) => T!Pending(s, j) \/ x.iv # {}
    BY <1>17, <1>18 DEF T!Comparators
  <2> QED BY <2>1, <2>2 DEF Asking
<1>21. TimerTurn(t) /\ SameCounter(x, t) /\ t.ccifg = x.ccifg
  BY <1>4, <1>9, <1>14, <1>15, <1>16, <1>19, <1>20, <1>10, Rewrites DEF SameCounter, SameStack
<1> HIDE DEF t
<1>22. SameSpan(s, t)
  BY <1>4, <1>10, <1>21 DEF SameCounter, SameSpan
<1>23. \A j \in Others \ {i} : Left(s, t, j)
  BY <1>4, <1>6, <1>8, <1>10, <1>13, <1>21 DEF SameCounter, SameSources, Left, T!Comparators
<1> QED BY <1>1, <1>21, <1>22, <1>23

LEMMA SetsCcr ==
  ASSUME NEW s, TimerTurn(s), NEW i \in T!Comparators, NEW v \in Nat
  PROVE  LET t == T!SetCcr(s, i, v)
         IN  /\ TimerTurn(t) /\ t.mc = s.mc /\ t.limit = s.limit
             /\ (i # 0 => SameSpan(s, t) /\ \A j \in Others \ {i} : Left(s, t, j))
<1> DEFINE ccr == [s.ccr EXCEPT ![i] = v]
           cl == [s.cl EXCEPT ![i] = v]
           b == [s.b EXCEPT ![i] = IF s.tar > v THEN T!Unreachable ELSE 0]
           t == [s EXCEPT !.ccr = ccr, !.cl = cl, !.b = b]
<1>1. T!SetCcr(s, i, v) = t
  BY DEF T!SetCcr
<1>2. /\ DOMAIN s = TimerFields /\ Counter(s) /\ Stacked(s)
      /\ s.ccr \in Numbers /\ s.cl \in Numbers /\ s.b \in [T!Comparators -> Int]
  BY DEF TimerTurn, TimerState, Counter
<1>3. /\ ccr \in Numbers /\ cl \in Numbers
      /\ \A j \in T!Comparators \ {i} : ccr[j] = s.ccr[j] /\ cl[j] = s.cl[j]
  BY <1>2 DEF Numbers
<1>4. b \in [T!Comparators -> Int] /\ \A j \in T!Comparators \ {i} : b[j] = s.b[j]
  <2>1. T!Unreachable \in Int
    BY TimerAssumption DEF T!Unreachable
  <2> QED BY <1>2, <2>1
<1> HIDE DEF ccr, cl, b
<1>5. DOMAIN t = TimerFields /\ SameStack(s, t) /\ t.iv = s.iv /\ t.tiv = s.tiv
  BY <1>2 DEF TimerFields, SameStack
<1>6. /\ t.timer = s.timer /\ t.limit = s.limit /\ t.mc = s.mc /\ t.tar = s.tar /\ t.cap = s.cap
      /\ t.ccr = ccr /\ t.cl = cl /\ t.b = b
  BY <1>2 DEF TimerFields
<1>7. t.down = s.down
  BY <1>2 DEF TimerFields
<1>8. SameSources(s, t)
  <2>1. t.ie = s.ie /\ t.ifg = s.ifg
    BY <1>2 DEF TimerFields
  <2>2. t.ccie = s.ccie /\ t.ccifg = s.ccifg
    BY <1>2 DEF TimerFields
  <2> QED BY <2>1, <2>2 DEF SameSources
<1> HIDE DEF t
<1>9. Counter(t)
  BY <1>2, <1>3, <1>4, <1>6, <1>7 DEF Counter
<1>10. Stacked(t)
  BY <1>2, <1>5 DEF Stacked, SameStack
<1>11. TimerTurn(t)
  BY <1>5, <1>6, <1>8, <1>9, <1>10, Recounts DEF SameStack
<1>12. i # 0 => SameSpan(s, t)
  BY <1>3, <1>6 DEF SameSpan, T!Comparators
<1>13. \A j \in Others \ {i} : Left(s, t, j)
  BY <1>3, <1>4, <1>6, <1>8 DEF Left, SameSources, T!Comparators
<1> QED BY <1>1, <1>6, <1>11, <1>12, <1>13

LEMMA WritesTaccr ==
  ASSUME NEW s, TimerTurn(s), NEW i \in T!Comparators, NEW v \in Nat
  PROVE  LET t == T!WriteCcr(s, i, v)
         IN  /\ TimerTurn(t)
             /\ (i # 0 => SameSpan(s, t) /\ \A j \in Others \ {i} : Left(s, t, j))
<1>1. CASE i # 0
  <2>1. T!WriteCcr(s, i, v) = T!SetCcr(s, i, v)
    BY <1>1 DEF T!WriteCcr
  <2> QED BY <2>1, SetsCcr
<1>2. CASE i = 0
  <2> DEFINE restarts == s.mc \in {T!UP, T!UD} /\ s.ccr[0] = 0 /\ T!Signed(v) > 0
             under == s.mc \in {T!UP, T!UD} /\ ~ restarts /\ T!Signed(v) < s.tar
             tar == IF restarts \/ (under /\ s.mc = T!UP) THEN 0 ELSE s.tar
             down == IF restarts THEN FALSE ELSE s.down \/ (under /\ s.mc = T!UD)
             a == [s EXCEPT !.tar = tar, !.down = down]
  <2>1. T!WriteCcr(s, i, v) = T!SetCcr(a, 0, v)
    <3>1. a = [s EXCEPT !.tar = IF restarts \/ (under /\ s.mc = T!UP) THEN 0 ELSE @,
                        !.down = IF restarts THEN FALSE ELSE @ \/ (under /\ s.mc = T!UD)]
      BY DEF TimerTurn, TimerState, TimerFields
    <3> HIDE DEF a
    <3> QED BY <1>2, <3>1 DEF T!WriteCcr, T!WriteCcr0
  <2>2. tar \in Nat
    BY DEF TimerTurn, TimerState, Counter
  <2>3. down \in BOOLEAN
    <3>1. s.down \in BOOLEAN
      BY DEF TimerTurn, TimerState, Counter
    <3> HIDE DEF restarts, under
    <3>2. CASE restarts
      BY <3>2
    <3>3. CASE ~ restarts
      <4>1. down = (s.down \/ (under /\ s.mc = T!UD))
        BY <3>3, Zenon
      <4>2. (s.down \/ (under /\ s.mc = T!UD)) \in BOOLEAN
        OBVIOUS
      <4> QED BY <4>1, <4>2, Zenon
    <3> QED BY <3>2, <3>3
  <2> HIDE DEF tar, down
  <2>4. Passes(s, a)
    BY <2>2, <2>3, SetsTar, Zenon
  <2> HIDE DEF a
  <2>5. 0 \in T!Comparators
    BY DEF T!Comparators
  <2>6. TimerTurn(T!SetCcr(a, 0, v))
    BY <2>4, <2>5, SetsCcr DEF Passes
  <2> QED BY <1>2, <2>1, <2>6
<1> QED BY <1>1, <1>2

LEMMA WritesCctlOf ==
  ASSUME NEW s, TimerTurn(s), NEW i \in T!Comparators, NEW cap \in BOOLEAN, NEW ie \in BOOLEAN, NEW ifg \in BOOLEAN
  PROVE  LET t == T!WriteTimer(s, [reg |-> "cctl", i |-> i, cap |-> cap, ie |-> ie, ifg |-> ifg])
         IN  TimerTurn(t) /\ SameSpan(s, t) /\ \A j \in Others \ {i} : Left(s, t, j)
<1> DEFINE w == [reg |-> "cctl", i |-> i, cap |-> cap, ie |-> ie, ifg |-> ifg]
           t == T!WriteTimer(s, w)
<1>1. w.reg = "cctl" /\ w.i = i
  OBVIOUS
<1>2. w.cap = cap /\ w.ie = ie /\ w.ifg = ifg
  OBVIOUS
<1> HIDE DEF w
<1>3. \A v : T!WriteAny(s, w, v) = T!WriteCctl(s, i, cap, ie, ifg, v[i])
  BY <1>1, <1>2 DEF T!WriteAny
<1>4. (i = 0 => T!Vectors[i] = 0) /\ T!NoVector1[i] = 0
  BY DEF T!Vectors, T!NoVector1, T!Vector
<1>5. t = T!WriteCctl(s, i, cap, ie, ifg, T!Vectors[i]) \/ t = T!WriteCctl(s, i, cap, ie, ifg, T!NoVector1[i])
  BY <1>1, <1>3 DEF T!WriteTimer, T!WriteA, T!WriteB, T!WriteTA0, T!WriteTA1
<1> HIDE DEF t
<1>6. TimerTurn(t) /\ SameSpan(s, t) /\ \A j \in Others \ {i} : Left(s, t, j)
  <2>1. CASE t = T!WriteCctl(s, i, cap, ie, ifg, T!Vectors[i])
    BY <1>4, <2>1, WritesTacctl
  <2>2. CASE t = T!WriteCctl(s, i, cap, ie, ifg, T!NoVector1[i])
    BY <1>4, <2>2, WritesTacctl
  <2> QED BY <1>5, <2>1, <2>2
<1> QED BY <1>6, Zenon DEF t, w

LEMMA WritesCcrOf ==
  ASSUME NEW s, TimerTurn(s), NEW i \in T!Comparators, NEW v \in Nat
  PROVE  LET t == T!WriteTimer(s, [reg |-> "ccr", i |-> i, v |-> v])
         IN  /\ TimerTurn(t)
             /\ (i # 0 => SameSpan(s, t) /\ \A j \in Others \ {i} : Left(s, t, j))
<1> DEFINE w == [reg |-> "ccr", i |-> i, v |-> v]
           t == T!WriteTimer(s, w)
<1>1. w.reg = "ccr" /\ w.i = i /\ w.v = v
  OBVIOUS
<1> HIDE DEF w
<1>2. \A y : T!WriteAny(s, w, y) = T!WriteCcr(s, i, v)
  BY <1>1 DEF T!WriteAny
<1>3. t = T!WriteCcr(s, i, v)
  BY <1>1, <1>2 DEF T!WriteTimer, T!WriteA, T!WriteB, T!WriteTA0, T!WriteTA1
<1> HIDE DEF t
<1>4. TimerTurn(t) /\ (i # 0 => SameSpan(s, t) /\ \A j \in Others \ {i} : Left(s, t, j))
  BY <1>3, WritesTaccr
<1> QED BY <1>4, Zenon DEF t, w

LEMMA WritesTarOf ==
  ASSUME NEW s, TimerTurn(s), NEW v \in Nat
  PROVE  TimerTurn(T!WriteTimer(s, [reg |-> "tar", v |-> v]))
<1> DEFINE w == [reg |-> "tar", v |-> v]
           t == T!WriteTimer(s, w)
<1>1. w.reg = "tar" /\ w.v = v
  OBVIOUS
<1> HIDE DEF w
<1>2. \A y : T!WriteAny(s, w, y) = T!WriteTar(s, v)
  BY <1>1 DEF T!WriteAny
<1>3. t = T!WriteTar(s, v)
  BY <1>1, <1>2 DEF T!WriteTimer, T!WriteA, T!WriteB, T!WriteTA0, T!WriteTA1
<1> HIDE DEF t
<1>4. TimerTurn(t)
  <2> DEFINE n == IF s.timer = "B" THEN v % (s.limit + 1) ELSE v
  <2>1. t = [s EXCEPT !.tar = n]
    BY <1>3 DEF T!WriteTar
  <2>2. n \in Nat
    <3>1. s.limit + 1 \in Nat \ {0}
      BY DEF TimerTurn, TimerState, Counter
    <3> QED BY <3>1
  <2> HIDE DEF n
  <2> QED BY <2>1, <2>2, CountsTo DEF Passes
<1> QED BY <1>4, Zenon DEF t, w

LEMMA ReadsTiv ==
  ASSUME NEW s, TimerTurn(s)
  PROVE  Spares(s, T!ReadTimer(s, [reg |-> "tiv"]).s)
<1> DEFINE w == [reg |-> "tiv"]
           t == T!ReadTimer(s, w).s
<1>1. w.reg = "tiv"
  OBVIOUS
<1> HIDE DEF w
<1>2. t = T!ClearFirst(s, Others) \/ t = T!ClearFirst(s, Others \cap {1, 2})
  <2>1. T!ReadA(s, w).s = T!ClearFirst(s, Others) /\ T!ReadB(s, w).s = T!ClearFirst(s, Others)
    BY <1>1 DEF T!ReadA, T!ReadB, T!ResetHighestA, T!ResetHighestB
  <2>2. /\ T!ReadTA0(s, w).s = T!ClearFirst(s, Others \cap {1, 2})
        /\ T!ReadTA1(s, w).s = T!ClearFirst(s, Others \cap {1, 2})
    BY <1>1 DEF T!ReadTA0, T!ReadTA1, T!ResetHighestTA0, T!ResetHighestTA1
  <2> QED BY <2>1, <2>2 DEF T!ReadTimer
<1> HIDE DEF t
<1>3. Spares(s, T!ClearFirst(s, Others)) /\ Spares(s, T!ClearFirst(s, Others \cap {1, 2}))
  BY ClearsFirst
<1>4. Spares(s, t)
  BY <1>2, <1>3
<1> QED BY <1>4 DEF t, w

LEMMA NextTimer == TimerInv /\ T!TimNext => TimerInv'
<1> SUFFICES ASSUME TimerInv, T!TimNext
             PROVE  TimerInv'
  OBVIOUS
<1>1. TimerTurn(m)
  BY DEF TimerInv
<1>2. Spares(m, m)
  BY <1>1, SparesNone
<1>3. CASE T!Nop
  <2>1. T!EndTurn(m, {})
    BY <1>3 DEF T!Nop, T!Run
  <2> QED BY <1>2, <2>1, SparesAll
<1>4. CASE T!Asleep
  <2>1. T!EndTurn(m, {})
    BY <1>4 DEF T!Asleep
  <2> QED BY <1>2, <2>1, SparesAll
<1>5. CASE T!Sleep
  <2>1. T!EndTurn([m EXCEPT !.off = TRUE, !.gie = TRUE], {})
    BY <1>5, Zenon DEF T!Sleep, T!Run
  <2>2. Spares(m, [m EXCEPT !.off = TRUE, !.gie = TRUE])
    BY <1>1, SetsOff, Zenon
  <2> QED BY <2>1, <2>2, SparesAll, Zenon
<1>6. CASE T!ReturnFromInterrupt
  <2>1. m.stack # <<>> /\ T!EndTurn(T!Reti(m), {})
    BY <1>6 DEF T!ReturnFromInterrupt, T!Run
  <2>2. Spares(m, T!Reti(m))
    BY <1>1, <2>1, Returns
  <2> QED BY <2>1, <2>2, SparesAll
<1>7. CASE T!ReadTiv
  <2>1. T!EndTurn(T!ReadTimer(m, [reg |-> "tiv"]).s, {})
    BY <1>7, Zenon DEF T!ReadTiv, T!Run
  <2>2. Spares(m, T!ReadTimer(m, [reg |-> "tiv"]).s)
    BY <1>1, ReadsTiv, Zenon
  <2> QED BY <2>1, <2>2, SparesAll, Zenon
<1>8. CASE \E b \in BOOLEAN : T!SetGie(b)
  <2>1. PICK b \in BOOLEAN : T!EndTurn([m EXCEPT !.gie = b], {})
    BY <1>8, Zenon DEF T!SetGie, T!Write
  <2>2. Spares(m, [m EXCEPT !.gie = b])
    BY <1>1, SetsGie, Zenon
  <2> QED BY <2>1, <2>2, SparesAll, Zenon
<1>9. CASE T!DoWriteCtl
  <2> DEFINE Value(mc, ie, ifg, clr, limit) ==
               T!WriteTimer(m, [reg |-> "ctl", mc |-> mc, ie |-> ie, ifg |-> ifg, clr |-> clr, limit |-> limit])
             Cut(mc, clr, limit) == IF clr \/ mc # m.mc \/ limit # m.limit THEN Others ELSE {}
  <2>1. \E mc \in {T!STOP, T!UP, T!CONT, T!UD}, ie, ifg, clr \in BOOLEAN,
           limit \in IF m.timer = "B" THEN Limits ELSE {m.limit} :
          T!Write(Value(mc, ie, ifg, clr, limit), Cut(mc, clr, limit))
    BY <1>9, Zenon DEF T!DoWriteCtl
  <2> HIDE DEF Value, Cut
  <2>2. \A x, c : T!Write(x, c) => T!EndTurn(x, c)
    BY DEF T!Write
  <2>3. PICK mc \in {T!STOP, T!UP, T!CONT, T!UD}, ie \in BOOLEAN, ifg \in BOOLEAN, clr \in BOOLEAN,
             limit \in IF m.timer = "B" THEN Limits ELSE {m.limit} :
          T!EndTurn(Value(mc, ie, ifg, clr, limit), Cut(mc, clr, limit))
    BY <2>1, <2>2, Zenon
  <2> DEFINE t == T!WriteTimer(m, [reg |-> "ctl", mc |-> mc, ie |-> ie, ifg |-> ifg, clr |-> clr, limit |-> limit])
             cut == IF clr \/ mc # m.mc \/ limit # m.limit THEN Others ELSE {}
  <2>4. mc \in 0..3
    BY DEF T!STOP, T!UP, T!CONT, T!UD
  <2>5. limit \in Nat /\ (m.timer # "B" => limit = m.limit)
    BY <1>1, TimerAssumption DEF TimerTurn, TimerState, Counter
  <2>6. ModeSet(m, t, mc, limit)
    BY <1>1, <2>4, <2>5, WritesCtlOf, Zenon
  <2>7. T!EndTurn(t, cut)
    BY <2>3 DEF Value, Cut
  <2> HIDE DEF t
  <2>8. TimerTurn(t)
    BY <2>6 DEF ModeSet
  <2>9. Others \subseteq cut \/ SameSpan(m, t)
    BY <2>6 DEF ModeSet, SameSpan
  <2>10. \A i \in Others \ cut : Left(m, t, i)
    BY <2>6 DEF ModeSet, Left
  <2> HIDE DEF cut
  <2> QED BY <2>7, <2>8, <2>9, <2>10, TimerEnds
<1>10. CASE T!DoWriteCctl
  <2>1. PICK i \in T!Comparators, cap \in BOOLEAN, ie \in BOOLEAN, ifg \in BOOLEAN :
          T!EndTurn(T!WriteTimer(m, [reg |-> "cctl", i |-> i, cap |-> cap, ie |-> ie, ifg |-> ifg]), {i})
    BY <1>10, Zenon DEF T!DoWriteCctl, T!Write
  <2> DEFINE t == T!WriteTimer(m, [reg |-> "cctl", i |-> i, cap |-> cap, ie |-> ie, ifg |-> ifg])
  <2>2. TimerTurn(t) /\ SameSpan(m, t) /\ \A j \in Others \ {i} : Left(m, t, j)
    BY <1>1, WritesCctlOf, Zenon
  <2> HIDE DEF t
  <2> QED BY <2>1, <2>2, TimerEnds DEF t
<1>11. CASE T!DoWriteCcr
  <2>1. PICK i \in T!Comparators, v \in Ccr :
          T!EndTurn(T!WriteTimer(m, [reg |-> "ccr", i |-> i, v |-> v]), IF i = 0 THEN Others ELSE {i})
    BY <1>11, Zenon DEF T!DoWriteCcr, T!Write
  <2> DEFINE t == T!WriteTimer(m, [reg |-> "ccr", i |-> i, v |-> v])
             cut == IF i = 0 THEN Others ELSE {i}
  <2>2. v \in Nat
    BY TimerAssumption
  <2>3. TimerTurn(t) /\ (i # 0 => SameSpan(m, t) /\ \A j \in Others \ {i} : Left(m, t, j))
    BY <1>1, <2>2, WritesCcrOf, Zenon
  <2>4. T!EndTurn(t, cut)
    BY <2>1
  <2> HIDE DEF t
  <2>5. (Others \subseteq cut \/ SameSpan(m, t)) /\ \A j \in Others \ cut : Left(m, t, j)
    BY <2>3
  <2> HIDE DEF cut
  <2> QED BY <2>3, <2>4, <2>5, TimerEnds
<1>12. CASE T!DoWriteTar
  <2>1. PICK v \in Ccr : T!EndTurn(T!WriteTimer(m, [reg |-> "tar", v |-> v]), Others)
    BY <1>12, Zenon DEF T!DoWriteTar, T!Write
  <2> DEFINE t == T!WriteTimer(m, [reg |-> "tar", v |-> v])
  <2>2. v \in Nat
    BY TimerAssumption
  <2>3. TimerTurn(t)
    BY <1>1, <2>2, WritesTarOf, Zenon
  <2>4. T!EndTurn(t, Others)
    BY <2>1
  <2> HIDE DEF t
  <2> QED BY <2>3, <2>4, TimerEnds
<1> QED BY <1>3, <1>4, <1>5, <1>6, <1>7, <1>8, <1>9, <1>10, <1>11, <1>12 DEF T!TimNext

\* The timers as the program has set them up: nothing asks yet, and no period is watched.
Fresh(t, timer, limit) == TimerTurn(t) /\ t.timer = timer /\ t.limit = limit

LEMMA Idles ==
  ASSUME NEW timer \in {"A", "B", "TA0", "TA1"}, NEW limit \in Nat, timer # "B" => limit = Top,
         NEW ccis, NEW ccr \in Numbers, NEW ies \in Switches
  PROVE  Fresh([T!ZeroTimer(timer, limit) EXCEPT !.ccis = ccis, !.ccr = ccr, !.cl = ccr, !.ccie = ies],
               timer, limit)
<1> DEFINE zeros == [i \in T!Comparators |-> 0]
           clear == [i \in T!Comparators |-> FALSE]
           t == [T!ZeroTimer(timer, limit) EXCEPT !.ccis = ccis, !.ccr = ccr, !.cl = ccr, !.ccie = ies]
<1>1. zeros \in [T!Comparators -> Int]
  OBVIOUS
<1>2. clear \in Switches /\ \A i \in T!Comparators : ~ clear[i]
  BY DEF Switches
<1> HIDE DEF zeros, clear
<1>3. DOMAIN t = TimerFields
  BY DEF T!ZeroTimer, TimerFields
<1>4. /\ t.timer = timer /\ t.limit = limit /\ t.mc = T!STOP /\ t.tar = 0 /\ t.cap = clear
      /\ t.ccr = ccr /\ t.cl = ccr /\ t.b = zeros /\ t.stack = <<>>
  BY DEF T!ZeroTimer, zeros, clear
<1>5. t.down = FALSE /\ t.ie = FALSE /\ t.ifg = FALSE
  BY DEF T!ZeroTimer
<1>6. t.gie = FALSE /\ t.off = FALSE
  BY DEF T!ZeroTimer
<1>7. t.ccie = ies /\ t.ccifg = clear
  BY DEF T!ZeroTimer, clear
<1> HIDE DEF t
<1>8. Counter(t)
  <2>1. t.down \in BOOLEAN
    BY <1>5, Zenon
  <2> QED BY <1>1, <1>2, <1>4, <2>1 DEF Counter, T!STOP
<1>9. Sources(t)
  <2>1. t.ie \in BOOLEAN /\ t.ifg \in BOOLEAN
    BY <1>5, Zenon
  <2> QED BY <1>2, <1>7, <2>1, Zenon DEF Sources
<1>10. Stacked(t)
  <2>1. t.gie \in BOOLEAN /\ t.off \in BOOLEAN
    BY <1>6, Zenon
  <2>2. t.stack \in Seq([gie : BOOLEAN, off : BOOLEAN])
    BY <1>4
  <2> QED BY <2>1, <2>2, Zenon DEF Stacked
<1>11. \A i \in T!Comparators : ~ T!Pending(t, i)
  BY <1>2, <1>7 DEF T!Pending
<1>12. ~ Asking(t)
  BY <1>5, <1>11 DEF Asking, T!Comparators
<1>13. TivTells(t) /\ Posted(t)
  BY <1>11, <1>12 DEF TivTells, Posted, T!Comparators
<1> QED BY <1>3, <1>4, <1>8, <1>9, <1>10, <1>13 DEF TimerTurn, TimerState, Fresh, t

LEMMA SetsUp == ASSUME NEW u \in Setups PROVE TimerTurn(T!SetUp(u))
<1>1. /\ u.timer \in {"A", "B", "TA0", "TA1"} /\ u.mc \in 0..3 /\ u.ccr \in Numbers
  <2>1. Ccr \in SUBSET Nat /\ Ccr \in SUBSET (0..Top) /\ Ccr # {}
    BY TimerAssumption
  <2>2. Min(Ccr) \in Ccr /\ Max(Ccr) \in Ccr
    BY <2>1, Least, Greatest
  <2>3. PICK timer \in {"A", "B", "TA0", "TA1"}, mc \in 0..3, first \in Ccr, enabled \in {{0}, {1, 2}} :
          u = Setup(timer, mc, first, enabled)
    BY <2>2 DEF Setups
  <2> DEFINE ccr == [i \in {0} \cup Others |-> IF i = 0 THEN Max(Ccr) ELSE IF i = 1 THEN first ELSE Min(Ccr)]
  <2>4. ccr \in Numbers
    BY <2>1, <2>2 DEF Numbers, T!Comparators
  <2> HIDE DEF ccr
  <2>5. u.timer = timer /\ u.mc = mc /\ u.ccr = ccr
    BY <2>3 DEF Setup, ccr
  <2> QED BY <2>4, <2>5
<1>2. u.ie \in BOOLEAN
  <2>1. PICK timer, mc, first, enabled : u = Setup(timer, mc, first, enabled)
    BY DEF Setups
  <2>2. u.ie = (0 \notin enabled)
    BY <2>1 DEF Setup
  <2>3. (0 \notin enabled) \in BOOLEAN
    OBVIOUS
  <2> QED BY <2>2, <2>3, Zenon
<1> DEFINE ies == [i \in T!Comparators |-> i \in u.ccie]
           limit == IF u.timer = "B" THEN T!Max(Limits) ELSE Top
           n == [T!ResetTimer(u.timer) EXCEPT !.ccis = u.ccis, !.ccr = u.ccr, !.cl = u.ccr, !.ccie = ies]
           w == [reg |-> "ctl", mc |-> u.mc, ie |-> u.ie, ifg |-> FALSE, clr |-> TRUE, limit |-> n.limit]
           t == T!WriteTimer(n, w)
<1>3. T!SetUp(u) = [t EXCEPT !.gie = TRUE]
  BY DEF T!SetUp
<1>4. ies \in Switches
  <2>1. \A i \in T!Comparators : (i \in u.ccie) \in BOOLEAN
    OBVIOUS
  <2> QED BY <2>1 DEF Switches
<1> HIDE DEF ies
<1>5. limit \in Nat /\ (u.timer # "B" => limit = Top)
  <2>1. T!Max(Limits) \in Limits /\ Top \in Nat
    BY TimerAssumption, Greatest
  <2>2. T!Max(Limits) \in Nat
    <3>1. \A x \in Limits : x \in Nat
      BY TimerAssumption
    <3> QED BY <2>1, <3>1, Zenon
  <2> QED BY <2>1, <2>2
<1>6. T!ResetTimer(u.timer) = T!ZeroTimer(u.timer, limit)
  BY <1>1 DEF T!ResetTimer, T!ResetA, T!ResetB, T!ResetTA0, T!ResetTA1
<1> HIDE DEF limit
<1>7. n = [T!ZeroTimer(u.timer, limit) EXCEPT !.ccis = u.ccis, !.ccr = u.ccr, !.cl = u.ccr, !.ccie = ies]
  BY <1>6, Zenon
<1>8. TimerTurn(n) /\ n.timer = u.timer /\ n.limit = limit
  <2>1. Fresh(n, u.timer, limit)
    BY <1>1, <1>4, <1>5, <1>7, Idles, Zenon
  <2> QED BY <2>1 DEF Fresh
<1> HIDE DEF n
<1>9. FALSE \in BOOLEAN /\ TRUE \in BOOLEAN /\ n.limit \in Nat
  BY <1>5, <1>8
<1>10. ModeSet(n, t, u.mc, n.limit)
  BY <1>1, <1>2, <1>8, <1>9, WritesCtlOf, Zenon
<1> HIDE DEF t
<1>11. TimerTurn([t EXCEPT !.gie = TRUE])
  BY <1>9, <1>10, SetsGie, Zenon DEF ModeSet, Spares
<1> QED BY <1>3, <1>11

LEMMA InitTimer == T!TimInit => TimerInv
<1> SUFFICES ASSUME T!TimInit
             PROVE  TimerInv
  OBVIOUS
<1>1. /\ \E u \in Setups : m = T!SetUp(u)
      /\ watch = {} /\ missed = FALSE
  BY DEF T!TimInit
<1>2. TimerTurn(m)
  BY <1>1, SetsUp
<1> QED BY <1>1, <1>2 DEF TimerInv, Wary

-----------------------------------------------------------------------------

\* The inductive invariant: what is kept between two turns of each peripheral.
McuInv ==
  /\ unit = "clock" => ClockInv(m)
  /\ unit = "system" => SystemInv(m)
  /\ unit = "adc" => AdcInv(m)
  /\ unit = "ports" => PortInv(m)
  /\ unit = "serial" => SerialInv(m)
  /\ unit = "system" => VectorInv(m)
  /\ unit = "adc" => AdcVector(m)
  /\ unit = "ports" => PortVector(m)
  /\ unit = "timer" => TimerInv

LEMMA McuInvariant == Init /\ [][Next]_vars => []McuInv
<1>1. Init => McuInv
  <2> SUFFICES ASSUME Init
               PROVE  McuInv
    OBVIOUS
  <2>1. \/ unit = "timer" /\ T!TimInit
        \/ unit = "serial" /\ S!SerInit
        \/ unit = "adc" /\ A!AdcInit
        \/ unit = "clock" /\ K!ClkInit
        \/ unit = "ports" /\ D!PortInit
        \/ unit = "system" /\ Y!SystemInit
        \/ unit \in {"gdb", "msp430", "atmega128"}
    BY DEF Init
  <2>2. unit = "timer" => TimerInv
    BY <2>1, InitTimer
  <2>3. unit = "clock" => ClockInv(m)
    BY <2>1, InitClock
  <2>4. unit = "serial" => SerialInv(m)
    BY <2>1, InitSerial
  <2>5. unit = "adc" => AdcInv(m) /\ AdcVector(m)
    BY <2>1, InitAdc, InitAdcVector
  <2>6. unit = "ports" => PortInv(m) /\ PortVector(m)
    BY <2>1, InitPorts, InitPortVector
  <2>7. unit = "system" => SystemInv(m) /\ VectorInv(m)
    BY <2>1, InitSystem, InitVector
  <2> QED BY <2>2, <2>3, <2>4, <2>5, <2>6, <2>7 DEF McuInv
<1>2. McuInv /\ [Next]_vars => McuInv'
  <2> SUFFICES ASSUME McuInv, [Next]_vars
               PROVE  McuInv'
    OBVIOUS
  <2>1. CASE UNCHANGED vars
    <3>1. unit' = unit /\ m' = m /\ watch' = watch /\ hit' = hit /\ missed' = missed
      BY <2>1 DEF vars, rest
    <3>2. /\ ClockInv(m)' = ClockInv(m) /\ SystemInv(m)' = SystemInv(m) /\ AdcInv(m)' = AdcInv(m)
          /\ PortInv(m)' = PortInv(m) /\ SerialInv(m)' = SerialInv(m)
      BY <3>1
    <3>3. /\ VectorInv(m)' = VectorInv(m) /\ AdcVector(m)' = AdcVector(m) /\ PortVector(m)' = PortVector(m)
      BY <3>1
    <3>4. TimerInv' = TimerInv
      BY <3>1 DEF TimerInv
    <3> QED BY <3>1, <3>2, <3>3, <3>4 DEF McuInv
  <2>2. CASE Next
    <3>1. unit' = unit
      BY <2>2 DEF Next, StepTimer, StepSerial, StepAdc, StepClock, StepPorts, StepSystem, StepGdb, StepMsp430, StepAtmega
    <3>2. CASE StepClock
      BY <3>1, <3>2, NextClock DEF McuInv, StepClock
    <3>3. CASE StepSystem
      BY <3>1, <3>3, NextSystem, NextVector DEF McuInv, StepSystem
    <3>4. CASE StepAdc
      BY <3>1, <3>4, NextAdc, NextAdcVector DEF McuInv, StepAdc
    <3>5. CASE StepPorts
      BY <3>1, <3>5, NextPorts, NextPortVector DEF McuInv, StepPorts
    <3>6. CASE StepSerial
      BY <3>1, <3>6, NextSerial DEF McuInv, StepSerial
    <3>7. CASE StepTimer
      BY <3>1, <3>7, NextTimer DEF McuInv, StepTimer
    <3> QED BY <2>2, <3>1, <3>2, <3>3, <3>4, <3>5, <3>6, <3>7 DEF McuInv, Next, StepGdb, StepMsp430, StepAtmega
  <2> QED BY <2>1, <2>2
<1> QED BY <1>1, <1>2, PTL

\* The sources and the signals of the clocks lose no tick and tell the time of the machine,
\* and a watchdog left alone ends once in each of its intervals: msp430_*_clock_update keep
\* the remainder of a division, msp430_watchdog_update what is beyond the interval.
THEOREM TicksKeptAlways == Spec => []TicksKept
<1>1. McuInv => TicksKept
  BY ClockKeeps, WatchKeeps DEF McuInv, TicksKept
<1> QED BY <1>1, McuInvariant, PTL DEF Spec

\* No byte is lost, doubled or reordered on its way out of a serial port, whoever wrote it,
\* the DMA included, and only an overrun the program can see loses one on its way in; the
\* converter fills its memories in sequence; the pins, their flags and the board agree; the
\* flash holds what was written: msp430_usart_*, msp430_usci_*, msp430_dma_update,
\* msp430_adc12_update, msp430_digiIO_* and msp430_flash_*, for any instance of these.
THEOREM DataKeptAlways == Spec => []DataKept
<1>1. McuInv => DataKept
  <2> SUFFICES ASSUME McuInv
               PROVE  DataKept
    OBVIOUS
  <2>1. CASE unit = "serial"
    BY <2>1, SerialKeeps DEF McuInv, DataKept
  <2>2. CASE unit = "adc"
    BY <2>2, AdcKeeps DEF McuInv, DataKept
  <2>3. CASE unit = "ports"
    BY <2>3, PortsKeep DEF McuInv, DataKept
  <2>4. CASE unit = "system"
    BY <2>4, FlashKeeps DEF McuInv, DataKept
  <2>5. CASE unit \notin {"serial", "adc", "ports", "system"}
    BY <2>5 DEF DataKept
  <2> QED BY <2>1, <2>2, <2>3, <2>4, <2>5
<1> QED BY <1>1, McuInvariant, PTL DEF Spec

\* An interrupt whose source is enabled and whose flag is set is never left behind: its
\* vector is posted, or a handler runs and its RETI looks at the flags again (which it does not
\* for the timers TA0 and TA1). What raises a flag posts its vector at once, and what clears
\* one leaves TxIV telling of the next: msp430_timerA_update, msp430_timerA_set_tiv,
\* msp430_timerA_chkifg, msp430_adc12_chkifg, msp430_digiIO_chkifg, msp430_usart0_chkifg,
\* msp430_watchdog_chkifg and msp430_interrupt_start_if_any, for any values of the constants.
THEOREM InterruptKeptAlways == Spec => []InterruptKept
<1>1. TimerInv => T!InterruptKept
  BY DEF TimerInv, TimerTurn, Posted, Asking, Vectored, T!InterruptKept
<1>2. McuInv => InterruptKept
  <2> SUFFICES ASSUME McuInv
               PROVE  InterruptKept
    OBVIOUS
  <2>1. CASE unit = "timer"
    BY <1>1, <2>1 DEF McuInv, InterruptKept
  <2>2. CASE unit = "serial"
    BY <2>2, SerialKeeps DEF McuInv, InterruptKept
  <2>3. CASE unit = "adc"
    BY <2>3 DEF McuInv, InterruptKept, AdcVector, A!AdcInterruptKept
  <2>4. CASE unit = "ports"
    BY <2>4 DEF McuInv, InterruptKept, PortVector, Asks, D!PortInterruptKept
  <2>5. CASE unit = "system"
    BY <2>5 DEF McuInv, InterruptKept, VectorInv, Due, Y!SystemInterruptKept
  <2>6. CASE unit \notin {"timer", "serial", "adc", "ports", "system"}
    BY <2>6 DEF InterruptKept
  <2> QED BY <2>1, <2>2, <2>3, <2>4, <2>5, <2>6
<1> QED BY <1>2, McuInvariant, PTL DEF Spec

\* A comparator the program leaves alone matches in each period of its timer, however many
\* ticks an instruction lasts: in msp430_timerA_update the comparison with the value of TAR
\* before the turn misses no value that has been passed over, for any width of TAR, any
\* compare values and any length of a turn.
THEOREM MatchEachPeriodAlways == Spec => []MatchEachPeriod
<1>1. McuInv => MatchEachPeriod
  BY DEF McuInv, TimerInv, MatchEachPeriod, T!MatchEachPeriod
<1> QED BY <1>1, McuInvariant, PTL DEF Spec
=============================================================================
