----------------------------- MODULE I2cProofs -----------------------------
(***************************************************************************)
(* Register access over I2C implements the register file.  A state maps to *)
(* the registers as they will be when every command under way is done, so  *)
(* the proof follows the sensor through all the commands that are to come: *)
(* those in the core, those in its FIFO and those the driver has still to  *)
(* put.  Runs says that such a trace f of the sensor exists and what it    *)
(* meets; a call adds its commands at the end, a transfer takes the first  *)
(* away, and every other step only moves a command from one place to the   *)
(* next.                                                                   *)
(***************************************************************************)
EXTENDS QsysI2c, InductionLemmas, SequenceTheorems

(* The states of the sensor while it carries out the commands of q.        *)
Trace(f, s, q) == f = [i \in 0 .. Len(q) |-> IF i = 0 THEN s ELSE Perform(f[i - 1], q[i])]

After(s, q) ==
  LET after[i \in 0 .. Len(q)] ==
        IF i = 0 THEN {s} ELSE {Perform(t, q[i]) : t \in after[i - 1]}
  IN after[Len(q)]

Passes(g, s, q) ==
  g = [i \in 0 .. Len(q) |-> IF i = 0 THEN {s} ELSE {Perform(t, q[i]) : t \in g[i - 1]}]

LEMMA AfterDef == ASSUME NEW s, NEW q PROVE After(s, q) = (CHOOSE g : Passes(g, s, q))[Len(q)]
BY DEF After, Passes

LEMMA FinalDef == finalSlave = After(slave, toCome) /\ finalSlave' = After(slave', toCome')
BY DEF finalSlave, After

LEMMA AfterTrace ==
  ASSUME NEW s, NEW q, Len(q) \in Nat, NEW f, Trace(f, s, q)
  PROVE  After(s, q) = {f[Len(q)]}
<1> DEFINE n == Len(q)
           h == [i \in 0 .. n |-> {f[i]}]
           g == CHOOSE g : Passes(g, s, q)
<1>1. \A i \in 0 .. n : f[i] = IF i = 0 THEN s ELSE Perform(f[i - 1], q[i])
  BY DEF Trace
<1>2. Passes(h, s, q)
  <2>1. ASSUME NEW i \in 0 .. n
        PROVE  h[i] = IF i = 0 THEN {s} ELSE {Perform(t, q[i]) : t \in h[i - 1]}
    <3>1. CASE i = 0 BY <1>1, <3>1
    <3>2. CASE i # 0
      <4>1. i - 1 \in 0 .. n BY <3>2
      <4>2. h[i - 1] = {f[i - 1]} /\ h[i] = {Perform(f[i - 1], q[i])} BY <1>1, <3>2, <4>1
      <4> HIDE DEF h
      <4> QED BY <3>2, <4>2
    <3> QED BY <3>1, <3>2
  <2>2. h = [i \in 0 .. n |-> h[i]] OBVIOUS
  <2> HIDE DEF h
  <2> QED BY <2>1, <2>2, Zenon DEF Passes
<1>3. Passes(g, s, q)
  <2> HIDE DEF h
  <2> QED BY <1>2
<1> HIDE DEF g
<1>4. \A i \in 0 .. n : g[i] = IF i = 0 THEN {s} ELSE {Perform(t, q[i]) : t \in g[i - 1]}
  BY <1>3 DEF Passes
<1> DEFINE G == {i \in Nat : i <= n => g[i] = {f[i]}}
<1> HIDE DEF n
<1>5. n \in Nat BY DEF n
<1>6. 0 \in G
  <2>1. 0 \in 0 .. n BY <1>5
  <2>2. g[0] = {s} /\ f[0] = s BY <1>1, <1>4, <2>1
  <2> QED BY <2>2
<1>7. ASSUME NEW i \in Nat, i \in G PROVE i + 1 \in G
  <2>1. ASSUME i + 1 <= n PROVE g[i + 1] = {f[i + 1]}
    <3>1. i + 1 \in 0 .. n /\ i + 1 # 0 /\ (i + 1) - 1 = i /\ g[i] = {f[i]}
      BY <1>5, <1>7, <2>1
    <3>2. g[i + 1] = {Perform(t, q[i + 1]) : t \in g[i]} BY <1>4, <3>1
    <3>3. f[i + 1] = Perform(f[i], q[i + 1]) BY <1>1, <3>1
    <3> QED BY <3>1, <3>2, <3>3
  <2> QED BY <2>1
<1>8. \A i \in Nat : i \in G
  <2> HIDE DEF G
  <2> QED BY <1>6, <1>7, Induction
<1>9. g[n] = {f[n]} BY <1>5, <1>8
<1> QED BY <1>9, AfterDef DEF g, n

(* The addresses of the bytes of a call. *)
LEMMA Addresses ==
  ASSUME NEW reg \in Reg
  PROVE  /\ Registers!At(reg, 1) = reg
         /\ \A i \in Nat \ {0} :
              /\ Registers!At(reg, i) \in Reg
              /\ (Registers!At(reg, i) + 1) % (BYTES * BYTES) = Registers!At(reg, i + 1)
         /\ \A i, j \in 1 .. BYTES * BYTES : Registers!At(reg, i) = Registers!At(reg, j) => i = j
<1> DEFINE M == BYTES * BYTES
<1>1. M \in Nat \ {0} BY I2cAssumption
<1>2. reg \in Nat /\ reg < M BY <1>1 DEF Reg
<1> HIDE DEF M
<1>3. \A i : Registers!At(reg, i) = (reg + i - 1) % M BY DEF Registers!At, M
<1>4. Reg = 0 .. M - 1 BY DEF Reg, M
<1>5. reg % M = reg
  <2>1. reg = M * 0 + reg /\ reg \in 0 .. M - 1 BY <1>1, <1>2
  <2> QED BY <1>1, <2>1, DivModUnique
<1>6. Registers!At(reg, 1) = reg
  <2>1. reg + 1 - 1 = reg BY <1>2
  <2> QED BY <1>3, <1>5, <2>1
<1>7. ASSUME NEW i \in Nat \ {0}
      PROVE  /\ Registers!At(reg, i) \in Reg
             /\ (Registers!At(reg, i) + 1) % M = Registers!At(reg, i + 1)
  <2> DEFINE a == reg + i - 1
             d == a \div M
             e == a % M
  <2>1. a \in Int BY <1>2
  <2> HIDE DEF a
  <2>2. d \in Int /\ e \in 0 .. M - 1 /\ a = M * d + e BY <1>1, <2>1, DivMod, Zenon
  <2> HIDE DEF d, e
  <2>3. (a + 1) % M = (e + 1) % M
    <3>1. CASE e + 1 < M
      <4>1. a + 1 = M * d + (e + 1) /\ e + 1 \in 0 .. M - 1 BY <1>1, <2>1, <2>2, <3>1
      <4>2. e + 1 = M * 0 + (e + 1) BY <1>1, <2>2
      <4>3. (a + 1) % M = e + 1 BY <1>1, <2>2, <4>1, DivModUnique
      <4> DEFINE h == e + 1
      <4> HIDE DEF h
      <4>4. h % M = h BY <1>1, <4>1, <4>2, DivModUnique DEF h
      <4> QED BY <4>3, <4>4 DEF h
    <3>2. CASE e + 1 = M
      <4>1. a + 1 = M * (d + 1) + 0 /\ 0 \in 0 .. M - 1 /\ d + 1 \in Int BY <1>1, <2>1, <2>2, <3>2
      <4>2. e + 1 = M * 1 + 0 BY <1>1, <3>2
      <4> DEFINE c == d + 1
                 b == M * c + 0
                 h == M * 1 + 0
      <4>3. c \in Int /\ 1 \in Int BY <4>1
      <4> HIDE DEF c
      <4>4. b % M = 0 BY <1>1, <4>1, <4>3, DivModUnique
      <4>5. h % M = 0 BY <1>1, <4>1, <4>3, DivModUnique
      <4> HIDE DEF b, h
      <4>6. a + 1 = b /\ e + 1 = h BY <4>1, <4>2 DEF b, h, c
      <4> QED BY <4>4, <4>5, <4>6
    <3> QED BY <1>1, <2>2, <3>1, <3>2
  <2>4. a + 1 = reg + (i + 1) - 1 BY <1>2 DEF a
  <2>5. Registers!At(reg, i) = e /\ Registers!At(reg, i + 1) = (a + 1) % M
    BY <1>3, <2>4 DEF a, e
  <2> QED BY <1>4, <2>2, <2>3, <2>5
<1>8. ASSUME NEW i \in 1 .. M, NEW j \in 1 .. M, Registers!At(reg, i) = Registers!At(reg, j)
      PROVE  i = j
  <2> DEFINE a == reg + i - 1
             b == reg + j - 1
             c == a \div M
             d == b \div M
             e == a % M
  <2>0. a % M = b % M BY <1>3, <1>8
  <2>1. a \in Int /\ b \in Int /\ a - b = i - j /\ a % M = b % M
    <3>1. i \in Int /\ j \in Int BY <1>1
    <3>2. a \in Int /\ b \in Int /\ a - b = i - j BY <1>2, <3>1
    <3> HIDE DEF a, b
    <3> QED BY <2>0, <3>2
  <2> HIDE DEF a, b
  <2>2. c \in Int /\ e \in 0 .. M - 1 /\ a = M * c + e BY <1>1, <2>1, DivMod, Zenon
  <2>3. d \in Int /\ b % M \in 0 .. M - 1 /\ b = M * d + (b % M) BY <1>1, <2>1, DivMod, Zenon
  <2>4. b = M * d + e BY <2>1, <2>3
  <2> HIDE DEF c, d, e
  <2>5. a - b = M * (c - d) BY <1>1, <2>2, <2>3, <2>4
  <2>6. CASE c > d
    <3>1. M * (c - d) >= M * 1 BY <1>1, <2>2, <2>3, <2>6
    <3> QED BY <1>1, <2>1, <2>5, <3>1
  <2>7. CASE c < d
    <3>1. M * (c - d) <= M * (-1) BY <1>1, <2>2, <2>3, <2>7
    <3> QED BY <1>1, <2>1, <2>5, <3>1
  <2>8. CASE c = d BY <1>1, <2>1, <2>2, <2>4, <2>8
  <2> QED BY <2>2, <2>3, <2>6, <2>7, <2>8
<1> QED BY <1>6, <1>7, <1>8 DEF M

---------------------------------------------------------------------------
(* The commands of a call.                                                 *)

(* What a command carries: a direction, or a byte. *)
Datum == Int \cup {byteOf(x, i, n) : x \in Int, i \in Nat, n \in Nat}
Command == [fn : {"start", "write", "read"}, sta : BOOLEAN, sto : BOOLEAN, data : Datum]

(* What a command is. *)
StartOf(c, d) == c.fn = "start" /\ c.sta /\ ~c.sto /\ c.data = d
WriteOf(c, d) == c.fn = "write" /\ ~c.sta /\ c.data = d
ReadOf(c) == c.fn = "read" /\ ~c.sta

LEMMA StepType ==
  ASSUME NEW fn \in {"start", "write", "read"}, NEW sta \in BOOLEAN, NEW sto \in BOOLEAN,
         NEW d \in Datum
  PROVE  Step(fn, sta, sto, d) \in Command
BY DEF Step, Command

LEMMA AddressScript ==
  ASSUME NEW reg \in Reg, NEW stop \in BOOLEAN
  PROVE  /\ Address(reg, stop) \in Seq(Command) /\ Len(Address(reg, stop)) = 3
         /\ StartOf(Address(reg, stop)[1], 0)
         /\ WriteOf(Address(reg, stop)[2], reg \div BYTES) /\ ~Address(reg, stop)[2].sto
         /\ WriteOf(Address(reg, stop)[3], reg % BYTES) /\ (Address(reg, stop)[3].sto <=> stop)
<1> DEFINE a == Step("start", TRUE, FALSE, 0)
           b == Step("write", FALSE, FALSE, reg \div BYTES)
           c == Step("write", FALSE, stop, reg % BYTES)
<1>1. reg \in Int /\ BYTES \in Nat \ {0} BY I2cAssumption DEF Reg
<1>2. 0 \in Datum /\ reg \div BYTES \in Datum /\ reg % BYTES \in Datum
  BY <1>1 DEF Datum
<1>3. a \in Command /\ b \in Command /\ c \in Command BY <1>2, StepType
<1>4. Address(reg, stop) = <<a, b, c>> BY DEF Address, StartTransmit, WriteByte
<1> HIDE DEF a, b, c
<1>5. <<a, b, c>> \in Seq(Command) BY <1>3
<1> DEFINE w == <<a, b, c>>
<1>6. w \in Seq(Command) /\ Len(w) = 3 /\ w[1] = a /\ w[2] = b /\ w[3] = c BY <1>5
<1> HIDE DEF w
<1>7. Address(reg, stop) = w BY <1>4 DEF w
<1>8. StartOf(a, 0) /\ WriteOf(b, reg \div BYTES) /\ ~b.sto /\ WriteOf(c, reg % BYTES) /\ (c.sto <=> stop)
  BY DEF a, b, c, Step, StartOf, WriteOf
<1> QED BY <1>6, <1>7, <1>8

(* Concatenation, in a form the solver instantiates. *)
LEMMA Joined ==
  ASSUME NEW p \in Seq(Command), NEW q \in Seq(Command)
  PROVE  /\ p \o q \in Seq(Command) /\ Len(p \o q) = Len(p) + Len(q)
         /\ \A i \in 1 .. Len(p) : (p \o q)[i] = p[i]
         /\ \A i \in 1 .. Len(q) : (p \o q)[Len(p) + i] = q[i]
<1> DEFINE r == p \o q
<1>0. Len(p) \in Nat /\ Len(q) \in Nat OBVIOUS
<1>1. /\ r \in Seq(Command) /\ Len(r) = Len(p) + Len(q)
      /\ \A i \in 1 .. Len(p) + Len(q) : r[i] = IF i <= Len(p) THEN p[i] ELSE q[i - Len(p)]
  BY ConcatProperties, Zenon
<1> HIDE DEF r
<1>2. ASSUME NEW i \in 1 .. Len(p) PROVE r[i] = p[i] BY <1>0, <1>1
<1>3. ASSUME NEW i \in 1 .. Len(q) PROVE r[Len(p) + i] = q[i]
  <2>1. Len(p) + i \in 1 .. Len(p) + Len(q) /\ ~(Len(p) + i <= Len(p)) /\ (Len(p) + i) - Len(p) = i BY <1>0
  <2> QED BY <1>1, <2>1
<1> QED BY <1>1, <1>2, <1>3 DEF r

LEMMA WriteCommands ==
  ASSUME NEW reg \in Reg, NEW n \in Nat \ {0}, NEW x \in Int,
         NEW w, w = WriteScript(reg, n, x)
  PROVE  /\ w \in Seq(Command) /\ Len(w) = n + 3
         /\ StartOf(w[1], 0)
         /\ WriteOf(w[2], reg \div BYTES) /\ ~w[2].sto
         /\ WriteOf(w[3], reg % BYTES) /\ ~w[3].sto
         /\ \A i \in 1 .. n : WriteOf(w[3 + i], byteOf(x, i, n)) /\ (w[3 + i].sto <=> i = n)
<1> DEFINE A == Address(reg, FALSE)
           B == [i \in 1 .. n |-> WriteByte(byteOf(x, i, n), i = n)]
<1>1. A \in Seq(Command) /\ Len(A) = 3 BY AddressScript
<1>2. ASSUME NEW i \in 1 .. n
      PROVE  WriteOf(B[i], byteOf(x, i, n)) /\ (B[i].sto <=> i = n) /\ B[i] \in Command
  <2>1. byteOf(x, i, n) \in Datum BY DEF Datum
  <2>2. B[i] = Step("write", FALSE, i = n, byteOf(x, i, n)) BY DEF WriteByte
  <2>3. B[i] \in Command BY <2>1, <2>2, StepType
  <2> HIDE DEF B
  <2>4. WriteOf(B[i], byteOf(x, i, n)) /\ (B[i].sto <=> i = n)
    <3> DEFINE c == B[i]
               d == byteOf(x, i, n)
               stop == i = n
    <3>1. c = Step("write", FALSE, stop, d) BY <2>2
    <3> HIDE DEF c, d, stop
    <3>2. WriteOf(c, d) /\ (c.sto <=> stop) BY <3>1 DEF Step, WriteOf
    <3> QED BY <3>2 DEF c, d, stop
  <2> QED BY <2>3, <2>4
<1>3. B \in Seq(Command) /\ Len(B) = n
  <2>1. B \in [1 .. n -> Command] BY <1>2
  <2> HIDE DEF B
  <2> QED BY <2>1
<1>4. WriteScript(reg, n, x) = A \o B BY DEF WriteScript
<1> HIDE DEF B
<1>5. /\ StartOf(A[1], 0) /\ WriteOf(A[2], reg \div BYTES) /\ ~A[2].sto
      /\ WriteOf(A[3], reg % BYTES) /\ ~A[3].sto
  BY AddressScript
<1> HIDE DEF A
<1> DEFINE z == A \o B
<1>6. /\ z \in Seq(Command) /\ Len(z) = 3 + n
      /\ \A i \in 1 .. 3 : z[i] = A[i]
      /\ \A i \in 1 .. n : z[3 + i] = B[i]
  <2>1. z \in Seq(Command) /\ Len(z) = Len(A) + Len(B)
        /\ (\A i \in 1 .. Len(A) : z[i] = A[i])
        /\ (\A i \in 1 .. Len(B) : z[Len(A) + i] = B[i])
    BY <1>1, <1>3, Joined, Zenon
  <2> HIDE DEF z
  <2> QED BY <1>1, <1>3, <2>1
<1> HIDE DEF z
<1>9. z[1] = A[1] /\ z[2] = A[2] /\ z[3] = A[3] /\ Len(z) = n + 3 BY <1>6
<1>11. w = z BY <1>4 DEF z
<1>12. \A i \in 1 .. n : WriteOf(z[3 + i], byteOf(x, i, n)) /\ (z[3 + i].sto <=> i = n)
  BY <1>2, <1>6
<1> QED BY <1>5, <1>6, <1>9, <1>11, <1>12

LEMMA ReadCommands ==
  ASSUME NEW reg \in Reg, NEW n \in Nat \ {0}, NEW w, w = ReadScript(reg, n)
  PROVE  /\ w \in Seq(Command) /\ Len(w) = n + 4
         /\ StartOf(w[1], 0)
         /\ WriteOf(w[2], reg \div BYTES) /\ ~w[2].sto
         /\ WriteOf(w[3], reg % BYTES) /\ w[3].sto
         /\ StartOf(w[4], 1)
         /\ \A i \in 1 .. n : ReadOf(w[4 + i]) /\ (w[4 + i].sto <=> i = n)
<1> DEFINE A == Address(reg, TRUE)
           S == <<StartTransmit(1)>>
           B == [i \in 1 .. n |-> ReadByte(i = n)]
<1>1. A \in Seq(Command) /\ Len(A) = 3 BY AddressScript
<1>0. 0 \in Datum /\ 1 \in Datum BY DEF Datum
<1>2. ASSUME NEW i \in 1 .. n
      PROVE  ReadOf(B[i]) /\ (B[i].sto <=> i = n) /\ B[i] \in Command
  <2>2. B[i] = Step("read", FALSE, i = n, 0) BY DEF ReadByte
  <2>3. B[i] \in Command BY <1>0, <2>2, StepType
  <2> HIDE DEF B
  <2>4. ReadOf(B[i]) /\ (B[i].sto <=> i = n)
    <3> DEFINE c == B[i]
               stop == i = n
    <3>1. c = Step("read", FALSE, stop, 0) BY <2>2
    <3> HIDE DEF c, stop
    <3>2. ReadOf(c) /\ (c.sto <=> stop) BY <3>1 DEF Step, ReadOf
    <3> QED BY <3>2 DEF c, stop
  <2> QED BY <2>3, <2>4
<1>3. B \in Seq(Command) /\ Len(B) = n
  <2>1. B \in [1 .. n -> Command] BY <1>2
  <2> HIDE DEF B
  <2> QED BY <2>1
<1>4. ReadScript(reg, n) = A \o S \o B BY DEF ReadScript
<1>13. StartOf(S[1], 1) /\ S \in Seq(Command) /\ Len(S) = 1
  <2>1. StartTransmit(1) = Step("start", TRUE, FALSE, 1) BY DEF StartTransmit
  <2>2. StartTransmit(1) \in Command BY <1>0, <2>1, StepType
  <2> DEFINE c == Step("start", TRUE, FALSE, 1)
  <2>3. c \in Command /\ S = <<c>> BY <2>1, <2>2
  <2> HIDE DEF c, S
  <2>4. S \in Seq(Command) /\ Len(S) = 1 /\ S[1] = c BY <2>3
  <2>5. StartOf(c, 1) BY DEF c, Step, StartOf
  <2> QED BY <2>4, <2>5
<1> HIDE DEF B, S
<1>5. /\ StartOf(A[1], 0) /\ WriteOf(A[2], reg \div BYTES) /\ ~A[2].sto
      /\ WriteOf(A[3], reg % BYTES) /\ A[3].sto
  BY AddressScript
<1> HIDE DEF A
<1> DEFINE D == A \o S
<1>14. /\ D \in Seq(Command) /\ Len(D) = 3 + 1
      /\ (\A i \in 1 .. 3 : D[i] = A[i])
      /\ (\A i \in 1 .. 1 : D[3 + i] = S[i])
  <2>1. D \in Seq(Command) /\ Len(D) = Len(A) + Len(S)
        /\ (\A i \in 1 .. Len(A) : D[i] = A[i])
        /\ (\A i \in 1 .. Len(S) : D[Len(A) + i] = S[i])
    BY <1>1, <1>13, Joined, Zenon
  <2> HIDE DEF D
  <2> QED BY <1>1, <1>13, <2>1
<1> HIDE DEF D
<1>15. D[1] = A[1] /\ D[2] = A[2] /\ D[3] = A[3] /\ D[4] = S[1] /\ Len(D) = 4 BY <1>14
<1> DEFINE z == D \o B
<1>6. /\ z \in Seq(Command) /\ Len(z) = 4 + n
      /\ \A i \in 1 .. 4 : z[i] = D[i]
      /\ \A i \in 1 .. n : z[4 + i] = B[i]
  <2>1. z \in Seq(Command) /\ Len(z) = Len(D) + Len(B)
        /\ (\A i \in 1 .. Len(D) : z[i] = D[i])
        /\ (\A i \in 1 .. Len(B) : z[Len(D) + i] = B[i])
    BY <1>3, <1>14, <1>15, Joined, Zenon
  <2> HIDE DEF z
  <2> QED BY <1>3, <1>14, <1>15, <2>1
<1> HIDE DEF z
<1>9. z[1] = A[1] /\ z[2] = A[2] /\ z[3] = A[3] /\ z[4] = S[1] /\ Len(z) = n + 4 BY <1>6, <1>15
<1>11. w = z BY <1>4 DEF z, D
<1>12. \A i \in 1 .. n : ReadOf(z[4 + i]) /\ (z[4 + i].sto <=> i = n)
  BY <1>2, <1>6
<1> QED BY <1>5, <1>6, <1>9, <1>11, <1>12, <1>13

---------------------------------------------------------------------------
(* What the sensor makes of a command.                                     *)

(* A state of the sensor. *)
Sensor(d, i, a, r) == [dir |-> d, index |-> i, addr |-> a, regs |-> r]

LEMMA SensorFields ==
  ASSUME NEW d, NEW i, NEW a, NEW r, NEW s, s = Sensor(d, i, a, r)
  PROVE  s.dir = d /\ s.index = i /\ s.addr = a /\ s.regs = r
BY DEF Sensor

(* What each command does in the state it meets. *)
LEMMA PerformStart ==
  ASSUME NEW e, NEW i, NEW a, NEW r, NEW d, NEW s, s = Sensor(e, i, a, r),
         NEW c, StartOf(c, d)
  PROVE  Perform(s, c) = Sensor(IF d = 1 THEN "read" ELSE "write", 0, a, r)
<1> DEFINE g == IF d = 1 THEN "read" ELSE "write"
           z == [s EXCEPT !.dir = g, !.index = 0]
<1>1. c.sta /\ ~c.sto /\ c.data = d BY DEF StartOf
<1>2. z = Sensor(g, 0, a, r)
  <2> HIDE DEF g
  <2>1. z \in [dir : {g}, index : {0}, addr : {a}, regs : {r}] BY DEF Sensor
  <2> HIDE DEF z
  <2>2. z = [dir |-> g, index |-> 0, addr |-> a, regs |-> r] BY <2>1
  <2> QED BY <2>2 DEF Sensor
<1>3. Perform(s, c) = z BY <1>1 DEF Perform
<1> QED BY <1>2, <1>3

(* A byte written: of the address, high and low, or of a register.         *)
HighByte(s, c) == [s EXCEPT !.index = 1, !.addr = BYTES * c.data]
LowByte(s, c) == [s EXCEPT !.index = 2, !.addr = s.addr + c.data]
DataByte(s, c) == [s EXCEPT !.regs = [s.regs EXCEPT ![s.addr] = c.data],
                            !.addr = (s.addr + 1) % (BYTES * BYTES)]
Freeing(t) == [t EXCEPT !.dir = "free"]
Ended(t, c) == IF c.sto THEN Freeing(t) ELSE t

LEMMA PerformWriting ==
  ASSUME NEW s, NEW c, ~c.sta, s.dir = "write"
  PROVE  /\ s.index = 0 => Perform(s, c) = Ended(HighByte(s, c), c)
         /\ s.index = 1 => Perform(s, c) = Ended(LowByte(s, c), c)
         /\ s.index = 2 => Perform(s, c) = Ended(DataByte(s, c), c)
<1> DEFINE A == [s EXCEPT !.dir = IF c.data = 1 THEN "read" ELSE "write", !.index = 0]
           H == [s EXCEPT !.index = 1, !.addr = BYTES * c.data]
           L == [s EXCEPT !.index = 2, !.addr = @ + c.data]
           W == [s EXCEPT !.regs[s.addr] = c.data, !.addr = (@ + 1) % (BYTES * BYTES)]
           R == [s EXCEPT !.addr = (@ + 1) % (BYTES * BYTES)]
           t == CASE c.sta -> A
                  [] ~c.sta /\ s.dir = "write" /\ s.index = 0 -> H
                  [] ~c.sta /\ s.dir = "write" /\ s.index = 1 -> L
                  [] ~c.sta /\ s.dir = "write" /\ s.index = 2 -> W
                  [] ~c.sta /\ s.dir = "read" -> R
                  [] OTHER -> s
<1>1. Perform(s, c) = IF c.sto THEN [t EXCEPT !.dir = "free"] ELSE t BY Zenon DEF Perform
<1>2. (s.index = 0 => t = H) /\ (s.index = 1 => t = L) /\ (s.index = 2 => t = W)
  <2> HIDE DEF A, H, L, W, R
  <2> QED OBVIOUS
<1>3. H = HighByte(s, c) /\ L = LowByte(s, c) /\ W = DataByte(s, c)
  BY DEF HighByte, LowByte, DataByte
<1>4. Perform(s, c) = Ended(t, c) BY <1>1, Zenon DEF Ended, Freeing
<1> HIDE DEF t, H, L, W
<1> QED BY <1>2, <1>3, <1>4

LEMMA PerformHigh ==
  ASSUME NEW a, NEW r, NEW d, NEW s, s = Sensor("write", 0, a, r),
         NEW c, WriteOf(c, d), ~c.sto
  PROVE  Perform(s, c) = Sensor("write", 1, BYTES * d, r)
<1> DEFINE e == BYTES * d
           z == [s EXCEPT !.index = 1, !.addr = e]
<1>1. ~c.sta /\ ~c.sto /\ c.data = d BY DEF WriteOf
<1>4. s.dir = "write" /\ s.index = 0 BY SensorFields
<1>2. z = Sensor("write", 1, e, r)
  <2> HIDE DEF e
  <2>1. z \in [dir : {"write"}, index : {1}, addr : {e}, regs : {r}] BY DEF Sensor
  <2> HIDE DEF z
  <2>2. z = [dir |-> "write", index |-> 1, addr |-> e, regs |-> r] BY <2>1
  <2> QED BY <2>2 DEF Sensor
<1>3. Perform(s, c) = Ended(HighByte(s, c), c) BY <1>1, <1>4, PerformWriting
<1>6. HighByte(s, c) = z BY <1>1, <1>4, Zenon DEF HighByte
<1> HIDE DEF z, e
<1> QED BY <1>1, <1>2, <1>3, <1>6 DEF e, Ended

LEMMA Freed ==
  ASSUME NEW d, NEW i, NEW a, NEW r, NEW t, t = Sensor(d, i, a, r)
  PROVE  Freeing(t) = Sensor("free", i, a, r)
<1> DEFINE z == [t EXCEPT !.dir = "free"]
<1>1. z \in [dir : {"free"}, index : {i}, addr : {a}, regs : {r}] BY DEF Sensor
<1> HIDE DEF z
<1>2. z = [dir |-> "free", index |-> i, addr |-> a, regs |-> r] BY <1>1
<1>3. z = Sensor("free", i, a, r) BY <1>2 DEF Sensor
<1> QED BY <1>3 DEF z, Freeing

LEMMA PerformLow ==
  ASSUME NEW a, NEW r, NEW d, NEW s, s = Sensor("write", 1, a, r),
         NEW c, WriteOf(c, d)
  PROVE  Perform(s, c) = Sensor(IF c.sto THEN "free" ELSE "write", 2, a + d, r)
<1> DEFINE e == a + d
           z == [s EXCEPT !.index = 2, !.addr = e]
<1>1. ~c.sta /\ c.data = d BY DEF WriteOf
<1>4. s.dir = "write" /\ s.index = 1 /\ s.addr = a BY SensorFields
<1>2. z = Sensor("write", 2, e, r)
  <2> HIDE DEF e
  <2>1. z \in [dir : {"write"}, index : {2}, addr : {e}, regs : {r}] BY DEF Sensor
  <2> HIDE DEF z
  <2>2. z = [dir |-> "write", index |-> 2, addr |-> e, regs |-> r] BY <2>1
  <2> QED BY <2>2 DEF Sensor
<1>3. Perform(s, c) = Ended(LowByte(s, c), c) BY <1>1, <1>4, PerformWriting
<1>6. LowByte(s, c) = z BY <1>1, <1>4, Zenon DEF LowByte
<1> HIDE DEF z, e
<1>5. Freeing(z) = Sensor("free", 2, e, r) BY <1>2, Freed
<1> QED BY <1>1, <1>2, <1>3, <1>5, <1>6 DEF Ended, e

Stored(r, a, d) == [r EXCEPT ![a] = d]

LEMMA PerformWrite ==
  ASSUME NEW a, NEW r, NEW d, NEW s, s = Sensor("write", 2, a, r),
         NEW c, WriteOf(c, d), NEW u, u = Stored(r, a, d)
  PROVE  Perform(s, c) = Sensor(IF c.sto THEN "free" ELSE "write", 2, (a + 1) % (BYTES * BYTES), u)
<1> DEFINE e == (a + 1) % (BYTES * BYTES)
           z == [s EXCEPT !.regs = u, !.addr = e]
<1>1. ~c.sta /\ c.data = d BY DEF WriteOf
<1>4. s.dir = "write" /\ s.index = 2 /\ s.addr = a /\ s.regs = r BY SensorFields
<1>2. z = Sensor("write", 2, e, u)
  <2> HIDE DEF e
  <2>1. z \in [dir : {"write"}, index : {2}, addr : {e}, regs : {u}] BY DEF Sensor
  <2> HIDE DEF z
  <2>2. z = [dir |-> "write", index |-> 2, addr |-> e, regs |-> u] BY <2>1
  <2> QED BY <2>2 DEF Sensor
<1>3. Perform(s, c) = Ended(DataByte(s, c), c) BY <1>1, <1>4, PerformWriting
<1>6. DataByte(s, c) = z BY <1>1, <1>4, Zenon DEF DataByte, Stored
<1> HIDE DEF z, e
<1>5. Freeing(z) = Sensor("free", 2, e, u) BY <1>2, Freed
<1> QED BY <1>1, <1>2, <1>3, <1>5, <1>6 DEF Ended, e

LEMMA PerformRead ==
  ASSUME NEW a, NEW r, NEW i, NEW s, s = Sensor("read", i, a, r),
         NEW c, ReadOf(c)
  PROVE  Perform(s, c) = Sensor(IF c.sto THEN "free" ELSE "read", i, (a + 1) % (BYTES * BYTES), r)
<1> DEFINE e == (a + 1) % (BYTES * BYTES)
           z == [s EXCEPT !.addr = e]
<1>1. ~c.sta BY DEF ReadOf
<1>4. s.dir = "read" /\ s.addr = a BY SensorFields
<1>2. z = Sensor("read", i, e, r)
  <2> HIDE DEF e
  <2>1. z \in [dir : {"read"}, index : {i}, addr : {e}, regs : {r}] BY DEF Sensor
  <2> HIDE DEF z
  <2>2. z = [dir |-> "read", index |-> i, addr |-> e, regs |-> r] BY <2>1
  <2> QED BY <2>2 DEF Sensor
<1>3. Perform(s, c) = IF c.sto THEN [z EXCEPT !.dir = "free"] ELSE z
  <2>1. z = [s EXCEPT !.addr = (@ + 1) % (BYTES * BYTES)] BY <1>4
  <2> HIDE DEF z
  <2> QED BY <1>1, <1>4, <2>1 DEF Perform
<1> HIDE DEF z, e
<1>5. Freeing(z) = Sensor("free", i, e, r) BY <1>2, Freed
<1> QED BY <1>1, <1>2, <1>3, <1>5 DEF e, Freeing

---------------------------------------------------------------------------
(* What the commands of a whole call do to the sensor.                     *)
SensorShape(s) == s = Sensor(s.dir, s.index, s.addr, s.regs) /\ s.regs \in [Reg -> Datum]

(* Each command is a read where the sensor is being read, and there only.  *)
Proper(f, q) == \A i \in 1 .. Len(q) : q[i].fn = "read" <=> ~q[i].sta /\ f[i - 1].dir = "read"

(* The registers when the first m bytes of a call that writes n are in.    *)
Written(r0, reg, n, x, m) ==
  [r \in Reg |-> IF \E i \in 1 .. m : r = Registers!At(reg, i)
                 THEN byteOf(x, CHOOSE i \in 1 .. n : r = Registers!At(reg, i), n)
                 ELSE r0[r]]

WriteTrace(s, reg, n, x) ==
  [i \in 0 .. n + 3 |->
     IF i = 0 THEN s
     ELSE IF i = 1 THEN Sensor("write", 0, s.addr, s.regs)
     ELSE IF i = 2 THEN Sensor("write", 1, BYTES * (reg \div BYTES), s.regs)
     ELSE Sensor(IF i = n + 3 THEN "free" ELSE "write", 2, Registers!At(reg, i - 2),
                          Written(s.regs, reg, n, x, i - 3))]

ReadTrace(s, reg, n) ==
  [i \in 0 .. n + 4 |->
     IF i = 0 THEN s
     ELSE IF i = 1 THEN Sensor("write", 0, s.addr, s.regs)
     ELSE IF i = 2 THEN Sensor("write", 1, BYTES * (reg \div BYTES), s.regs)
     ELSE IF i = 3 THEN Sensor("free", 2, reg, s.regs)
     ELSE Sensor(IF i = n + 4 THEN "free" ELSE "read", 0, Registers!At(reg, i - 3), s.regs)]

LEMMA HighLow ==
  ASSUME NEW reg \in Reg
  PROVE  BYTES * (reg \div BYTES) + (reg % BYTES) = reg
<1>1. BYTES \in Nat \ {0} /\ reg \in Int BY I2cAssumption DEF Reg
<1>2. reg = BYTES * (reg \div BYTES) + (reg % BYTES) BY <1>1, DivMod, Zenon
<1> QED BY <1>2

LEMMA ByteWritten ==
  ASSUME NEW r0, NEW reg \in Reg, NEW n \in 1 .. BYTES * BYTES, NEW x, NEW m \in 1 .. n
  PROVE  [Written(r0, reg, n, x, m - 1) EXCEPT ![Registers!At(reg, m)] = byteOf(x, m, n)]
           = Written(r0, reg, n, x, m)
<1> DEFINE a == Registers!At(reg, m)
           W == Written(r0, reg, n, x, m - 1)
           V == Written(r0, reg, n, x, m)
           Who(r) == CHOOSE i \in 1 .. n : r = Registers!At(reg, i)
<1>1. n \in Nat /\ BYTES * BYTES \in Nat /\ n <= BYTES * BYTES BY I2cAssumption
<1>2. a \in Reg BY <1>1, Addresses
<1>3. ASSUME NEW i \in 1 .. n, Registers!At(reg, i) = a PROVE i = m
  <2>1. i \in 1 .. BYTES * BYTES /\ m \in 1 .. BYTES * BYTES BY <1>1
  <2> QED BY <1>3, <2>1, Addresses
<1>4. Who(a) = m
  <2>1. Who(a) \in 1 .. n /\ a = Registers!At(reg, Who(a)) OBVIOUS
  <2> HIDE DEF Who, a
  <2> QED BY <1>3, <2>1
<1>5. ASSUME NEW r \in Reg PROVE V[r] = IF r = a THEN byteOf(x, m, n) ELSE W[r]
  <2>1. V[r] = IF \E i \in 1 .. m : r = Registers!At(reg, i) THEN byteOf(x, Who(r), n) ELSE r0[r]
    BY DEF Written
  <2>2. W[r] = IF \E i \in 1 .. m - 1 : r = Registers!At(reg, i) THEN byteOf(x, Who(r), n) ELSE r0[r]
    BY DEF Written
  <2>3. (\E i \in 1 .. m : r = Registers!At(reg, i)) <=> (\E i \in 1 .. m - 1 : r = Registers!At(reg, i)) \/ r = a
    <3>1. 1 .. m = (1 .. m - 1) \cup {m} BY <1>1
    <3> QED BY <3>1
  <2> HIDE DEF Who, a
  <2> QED BY <1>4, <2>1, <2>2, <2>3
<1>6. W = [r \in Reg |-> W[r]] /\ V = [r \in Reg |-> V[r]] BY DEF Written
<1> HIDE DEF W, V, a
<1>7. [W EXCEPT ![a] = byteOf(x, m, n)] = V BY <1>2, <1>5, <1>6
<1> QED BY <1>7 DEF W, V, a

LEMMA TraceOfWrite ==
  ASSUME NEW s, SensorShape(s), NEW reg \in Reg, NEW n \in 1 .. BYTES * BYTES, NEW x \in Int
  PROVE  LET f == WriteTrace(s, reg, n, x)
             w == WriteScript(reg, n, x) IN
         /\ Trace(f, s, w) /\ Proper(f, w)
         /\ SensorShape(f[n + 3]) /\ f[n + 3].regs = Written(s.regs, reg, n, x, n)
<1> DEFINE f == WriteTrace(s, reg, n, x)
           w == WriteScript(reg, n, x)
<1>1. n \in Nat \ {0} /\ n <= BYTES * BYTES /\ BYTES * BYTES \in Nat BY I2cAssumption
<1>2. /\ Len(w) = n + 3
      /\ StartOf(w[1], 0)
      /\ WriteOf(w[2], reg \div BYTES) /\ ~w[2].sto
      /\ WriteOf(w[3], reg % BYTES) /\ ~w[3].sto
      /\ \A i \in 1 .. n : WriteOf(w[3 + i], byteOf(x, i, n)) /\ (w[3 + i].sto <=> i = n)
  <2>1. \A m \in Nat \ {0} : LET z == WriteScript(reg, m, x) IN
          /\ Len(z) = m + 3
          /\ StartOf(z[1], 0)
          /\ WriteOf(z[2], reg \div BYTES) /\ ~z[2].sto
          /\ WriteOf(z[3], reg % BYTES) /\ ~z[3].sto
          /\ \A i \in 1 .. m : WriteOf(z[3 + i], byteOf(x, i, m)) /\ (z[3 + i].sto <=> i = m)
    BY WriteCommands
  <2>2. n \in Nat \ {0} BY <1>1
  <2> QED BY <2>1, <2>2, Zenon
<1>3. /\ f[0] = s
      /\ f[1] = Sensor("write", 0, s.addr, s.regs)
      /\ f[2] = Sensor("write", 1, BYTES * (reg \div BYTES), s.regs)
      /\ \A i \in 3 .. n + 3 :
           f[i] = Sensor(IF i = n + 3 THEN "free" ELSE "write", 2, Registers!At(reg, i - 2),
                         Written(s.regs, reg, n, x, i - 3))
  <2> DEFINE Far(i) == Sensor(IF i = n + 3 THEN "free" ELSE "write", 2, Registers!At(reg, i - 2),
                              Written(s.regs, reg, n, x, i - 3))
             one == Sensor("write", 0, s.addr, s.regs)
             two == Sensor("write", 1, BYTES * (reg \div BYTES), s.regs)
  <2>1. f = [i \in 0 .. n + 3 |-> IF i = 0 THEN s ELSE IF i = 1 THEN one ELSE IF i = 2 THEN two ELSE Far(i)]
    BY Zenon DEF WriteTrace
  <2> HIDE DEF Far, one, two, f
  <2>2. /\ f[0] = s /\ f[1] = one /\ f[2] = two
        /\ \A i \in 3 .. n + 3 : f[i] = Far(i)
    BY <1>1, <2>1
  <2> QED BY <2>2 DEF Far, one, two
<1>4. f = [i \in 0 .. n + 3 |-> f[i]] BY DEF WriteTrace
<1> HIDE DEF f, w
<1>5. Written(s.regs, reg, n, x, 0) = s.regs
  <2>1. Written(s.regs, reg, n, x, 0) = [r \in Reg |-> s.regs[r]] BY DEF Written
  <2> QED BY <2>1 DEF SensorShape
<1>60. s = Sensor(s.dir, s.index, s.addr, s.regs) BY DEF SensorShape
<1>6. f[1] = Perform(f[0], w[1])
  <2>1. f[0] = Sensor(s.dir, s.index, s.addr, s.regs) BY <1>3, <1>60
  <2>2. Perform(f[0], w[1]) = Sensor(IF 0 = 1 THEN "read" ELSE "write", 0, s.addr, s.regs)
    BY <1>2, <2>1, PerformStart
  <2> QED BY <1>3, <2>2
<1>7. f[2] = Perform(f[1], w[2])
  BY <1>2, <1>3, PerformHigh
<1>8. f[3] = Perform(f[2], w[3])
  <2>1. 3 \in 3 .. n + 3 /\ 3 # n + 3 BY <1>1
  <2>2. f[3] = Sensor("write", 2, reg, s.regs)
    <3>1. Registers!At(reg, 3 - 2) = reg /\ Written(s.regs, reg, n, x, 3 - 3) = s.regs BY <1>5, Addresses
    <3> QED BY <1>3, <2>1, <3>1
  <2>3. Perform(f[2], w[3]) = Sensor(IF w[3].sto THEN "free" ELSE "write", 2, BYTES * (reg \div BYTES) + (reg % BYTES), s.regs)
    BY <1>2, <1>3, PerformLow
  <2> QED BY <1>2, <2>2, <2>3, HighLow
<1>9. ASSUME NEW i \in 1 .. n PROVE f[3 + i] = Perform(f[3 + i - 1], w[3 + i])
  <2> DEFINE a == Registers!At(reg, i)
             W == Written(s.regs, reg, n, x, i - 1)
  <2>1. /\ 3 + i - 1 \in 3 .. n + 3 /\ 3 + i - 1 # n + 3 /\ (3 + i - 1) - 2 = i /\ (3 + i - 1) - 3 = i - 1
        /\ 3 + i \in 3 .. n + 3 /\ (3 + i) - 2 = i + 1 /\ (3 + i) - 3 = i /\ (3 + i = n + 3 <=> i = n)
    BY <1>1
  <2>2. f[3 + i - 1] = Sensor("write", 2, a, W) BY <1>3, <2>1
  <2>3. f[3 + i] = Sensor(IF i = n THEN "free" ELSE "write", 2, Registers!At(reg, i + 1),
                          Written(s.regs, reg, n, x, i))
    BY <1>3, <2>1
  <2>4. (a + 1) % (BYTES * BYTES) = Registers!At(reg, i + 1) BY Addresses
  <2>5. [W EXCEPT ![a] = byteOf(x, i, n)] = Written(s.regs, reg, n, x, i) BY ByteWritten
  <2>6. WriteOf(w[3 + i], byteOf(x, i, n)) /\ (w[3 + i].sto <=> i = n) BY <1>2
  <2> HIDE DEF a, W
  <2>7. Perform(f[3 + i - 1], w[3 + i])
          = Sensor(IF w[3 + i].sto THEN "free" ELSE "write", 2, (a + 1) % (BYTES * BYTES),
                   [W EXCEPT ![a] = byteOf(x, i, n)])
    <3> DEFINE b == byteOf(x, i, n)
               t == f[3 + i - 1]
               c == w[3 + i]
    <3>1. t = Sensor("write", 2, a, W) /\ WriteOf(c, b) BY <2>2, <2>6
    <3> HIDE DEF b, t, c
    <3> DEFINE u == [W EXCEPT ![a] = b]
    <3>3. u = Stored(W, a, b) BY DEF Stored
    <3> HIDE DEF u
    <3>2. Perform(t, c) = Sensor(IF c.sto THEN "free" ELSE "write", 2, (a + 1) % (BYTES * BYTES), u)
      BY <3>1, <3>3, PerformWrite
    <3> QED BY <3>2 DEF b, t, c, u
  <2> QED BY <2>3, <2>4, <2>5, <2>6, <2>7
<1>10. ASSUME NEW i \in 0 .. n + 3 PROVE f[i] = IF i = 0 THEN s ELSE Perform(f[i - 1], w[i])
  <2>1. CASE i \in 0 .. 3
    <3>1. i = 0 \/ i = 1 \/ i = 2 \/ i = 3 BY <2>1
    <3> QED BY <1>3, <1>6, <1>7, <1>8, <3>1
  <2>2. CASE i > 3
    <3>1. i - 3 \in 1 .. n /\ 3 + (i - 3) = i /\ 3 + (i - 3) - 1 = i - 1 /\ i # 0 BY <1>1, <2>2
    <3> QED BY <1>9, <3>1
  <2> QED BY <1>1, <2>1, <2>2
<1>11. Trace(f, s, w) BY <1>2, <1>4, <1>10 DEF Trace
<1>12. Proper(f, w)
  <2>1. ASSUME NEW i \in 1 .. n + 3 PROVE w[i].fn # "read" /\ (~w[i].sta => f[i - 1].dir # "read")
    <3>5. f[1].dir = "write" /\ f[2].dir = "write" BY <1>3 DEF Sensor
    <3>1. CASE i = 1 BY <1>2, <3>1 DEF StartOf
    <3>2. CASE i = 2 BY <1>2, <3>2, <3>5 DEF WriteOf
    <3>3. CASE i = 3 BY <1>2, <3>3, <3>5 DEF WriteOf
    <3>4. CASE i > 3
      <4>1. i - 3 \in 1 .. n /\ 3 + (i - 3) = i /\ i - 1 \in 3 .. n + 3 BY <1>1, <3>4
      <4>2. w[i].fn = "write" BY <1>2, <4>1 DEF WriteOf
      <4>4. PICK e, a, q : f[i - 1] = Sensor(IF i - 1 = n + 3 THEN "free" ELSE "write", e, a, q) BY <1>3, <4>1
      <4>5. f[i - 1].dir = IF i - 1 = n + 3 THEN "free" ELSE "write"
        <5> HIDE <1>3
        <5> QED BY <4>4 DEF Sensor
      <4>3. f[i - 1].dir # "read" BY <4>5
      <4> QED BY <4>2, <4>3
    <3> QED BY <1>1, <3>1, <3>2, <3>3, <3>4
  <2> QED BY <1>2, <2>1 DEF Proper
<1>13. SensorShape(f[n + 3]) /\ f[n + 3].regs = Written(s.regs, reg, n, x, n)
  <2> DEFINE W == Written(s.regs, reg, n, x, n)
  <2>1. n + 3 \in 3 .. n + 3 /\ (n + 3) - 3 = n BY <1>1
  <2>2. f[n + 3] = Sensor("free", 2, Registers!At(reg, n + 3 - 2), W) BY <1>3, <2>1
  <2>3. W \in [Reg -> Datum]
    <3>1. \A r \in Reg : s.regs[r] \in Datum BY DEF SensorShape
    <3>2. \A r : r \in Reg /\ (\E i \in 1 .. n : r = Registers!At(reg, i))
                => (CHOOSE i \in 1 .. n : r = Registers!At(reg, i)) \in Nat
      BY <1>1
    <3>3. \A i \in Nat : byteOf(x, i, n) \in Datum BY <1>1 DEF Datum
    <3> QED BY <3>1, <3>2, <3>3 DEF Written
  <2> HIDE DEF W
  <2> DEFINE a == Registers!At(reg, n + 3 - 2)
             t == f[n + 3]
  <2>5. t = Sensor("free", 2, a, W) BY <2>2
  <2> HIDE DEF a, t
  <2>4. t.dir = "free" /\ t.index = 2 /\ t.addr = a /\ t.regs = W BY <2>5, SensorFields
  <2>6. SensorShape(t) BY <2>3, <2>4, <2>5 DEF SensorShape
  <2> QED BY <2>4, <2>6 DEF W, t
<1> QED BY <1>11, <1>12, <1>13 DEF f, w

LEMMA TraceOfRead ==
  ASSUME NEW s, SensorShape(s), NEW reg \in Reg, NEW n \in Nat \ {0}
  PROVE  LET f == ReadTrace(s, reg, n)
             w == ReadScript(reg, n) IN
         /\ Trace(f, s, w) /\ Proper(f, w)
         /\ SensorShape(f[n + 4]) /\ f[n + 4].regs = s.regs
         /\ \A i \in 1 .. n : f[4 + i - 1].addr = Registers!At(reg, i) /\ f[4 + i - 1].regs = s.regs
<1> DEFINE f == ReadTrace(s, reg, n)
           w == ReadScript(reg, n)
<1>2. /\ Len(w) = n + 4
      /\ StartOf(w[1], 0)
      /\ WriteOf(w[2], reg \div BYTES) /\ ~w[2].sto
      /\ WriteOf(w[3], reg % BYTES) /\ w[3].sto
      /\ StartOf(w[4], 1)
      /\ \A i \in 1 .. n : ReadOf(w[4 + i]) /\ (w[4 + i].sto <=> i = n)
  BY ReadCommands
<1>3. /\ f[0] = s
      /\ f[1] = Sensor("write", 0, s.addr, s.regs)
      /\ f[2] = Sensor("write", 1, BYTES * (reg \div BYTES), s.regs)
      /\ f[3] = Sensor("free", 2, reg, s.regs)
      /\ \A i \in 4 .. n + 4 :
           f[i] = Sensor(IF i = n + 4 THEN "free" ELSE "read", 0, Registers!At(reg, i - 3), s.regs)
  <2> DEFINE Far(i) == Sensor(IF i = n + 4 THEN "free" ELSE "read", 0, Registers!At(reg, i - 3), s.regs)
             one == Sensor("write", 0, s.addr, s.regs)
             two == Sensor("write", 1, BYTES * (reg \div BYTES), s.regs)
             three == Sensor("free", 2, reg, s.regs)
  <2>1. f = [i \in 0 .. n + 4 |-> IF i = 0 THEN s ELSE IF i = 1 THEN one ELSE IF i = 2 THEN two
                                  ELSE IF i = 3 THEN three ELSE Far(i)]
    BY Zenon DEF ReadTrace
  <2> HIDE DEF Far, one, two, three, f
  <2>2. /\ f[0] = s /\ f[1] = one /\ f[2] = two /\ f[3] = three
        /\ \A i \in 4 .. n + 4 : f[i] = Far(i)
    BY <2>1
  <2> QED BY <2>2 DEF Far, one, two, three
<1>4. f = [i \in 0 .. n + 4 |-> f[i]] BY DEF ReadTrace
<1>5. s.regs \in [Reg -> Datum] BY DEF SensorShape
<1>60. s = Sensor(s.dir, s.index, s.addr, s.regs) BY DEF SensorShape
<1> HIDE DEF f, w
<1>6. f[1] = Perform(f[0], w[1])
  <2>1. f[0] = Sensor(s.dir, s.index, s.addr, s.regs) BY <1>3, <1>60
  <2>2. Perform(f[0], w[1]) = Sensor(IF 0 = 1 THEN "read" ELSE "write", 0, s.addr, s.regs)
    BY <1>2, <2>1, PerformStart
  <2> QED BY <1>3, <2>2
<1>7. f[2] = Perform(f[1], w[2])
  BY <1>2, <1>3, PerformHigh
<1>8. f[3] = Perform(f[2], w[3])
  <2>3. Perform(f[2], w[3]) = Sensor(IF w[3].sto THEN "free" ELSE "write", 2, BYTES * (reg \div BYTES) + (reg % BYTES), s.regs)
    BY <1>2, <1>3, PerformLow
  <2> QED BY <1>2, <1>3, <2>3, HighLow
<1>9. f[4] = Perform(f[3], w[4])
  <2>2. Perform(f[3], w[4]) = Sensor(IF 1 = 1 THEN "read" ELSE "write", 0, reg, s.regs)
    BY <1>2, <1>3, PerformStart
  <2>3. 4 \in 4 .. n + 4 /\ 4 # n + 4 /\ Registers!At(reg, 4 - 3) = reg BY Addresses
  <2> QED BY <1>3, <2>2, <2>3
<1>10. ASSUME NEW i \in 1 .. n PROVE f[4 + i] = Perform(f[4 + i - 1], w[4 + i])
  <2> DEFINE a == Registers!At(reg, i)
  <2>1. /\ 4 + i - 1 \in 4 .. n + 4 /\ 4 + i - 1 # n + 4 /\ (4 + i - 1) - 3 = i
        /\ 4 + i \in 4 .. n + 4 /\ (4 + i) - 3 = i + 1 /\ (4 + i = n + 4 <=> i = n)
    OBVIOUS
  <2>2. f[4 + i - 1] = Sensor("read", 0, a, s.regs) BY <1>3, <2>1
  <2>3. f[4 + i] = Sensor(IF i = n THEN "free" ELSE "read", 0, Registers!At(reg, i + 1), s.regs)
    BY <1>3, <2>1
  <2>4. (a + 1) % (BYTES * BYTES) = Registers!At(reg, i + 1) BY Addresses
  <2>6. ReadOf(w[4 + i]) /\ (w[4 + i].sto <=> i = n) BY <1>2
  <2> HIDE DEF a
  <2>7. Perform(f[4 + i - 1], w[4 + i])
          = Sensor(IF w[4 + i].sto THEN "free" ELSE "read", 0, (a + 1) % (BYTES * BYTES), s.regs)
    BY <2>2, <2>6, PerformRead
  <2> QED BY <2>3, <2>4, <2>6, <2>7
<1>11. ASSUME NEW i \in 0 .. n + 4 PROVE f[i] = IF i = 0 THEN s ELSE Perform(f[i - 1], w[i])
  <2>1. CASE i \in 0 .. 4
    <3>1. i = 0 \/ i = 1 \/ i = 2 \/ i = 3 \/ i = 4 BY <2>1
    <3> QED BY <1>3, <1>6, <1>7, <1>8, <1>9, <3>1
  <2>2. CASE i > 4
    <3>1. i - 4 \in 1 .. n /\ 4 + (i - 4) = i /\ 4 + (i - 4) - 1 = i - 1 /\ i # 0 BY <2>2
    <3> QED BY <1>10, <3>1
  <2> QED BY <2>1, <2>2
<1>12. Trace(f, s, w) BY <1>2, <1>4, <1>11 DEF Trace
<1>13. Proper(f, w)
  <2>1. ASSUME NEW i \in 1 .. n + 4 PROVE w[i].fn = "read" <=> ~w[i].sta /\ f[i - 1].dir = "read"
    <3>5. f[1].dir = "write" /\ f[2].dir = "write" BY <1>3 DEF Sensor
    <3>1. CASE i = 1 BY <1>2, <3>1 DEF StartOf
    <3>2. CASE i = 2 BY <1>2, <3>2, <3>5 DEF WriteOf
    <3>3. CASE i = 3 BY <1>2, <3>3, <3>5 DEF WriteOf
    <3>4. CASE i = 4 BY <1>2, <3>4 DEF StartOf
    <3>6. CASE i > 4
      <4>1. i - 4 \in 1 .. n /\ 4 + (i - 4) = i /\ i - 1 \in 4 .. n + 4 /\ i - 1 # n + 4 BY <3>6
      <4>2. w[i].fn = "read" /\ ~w[i].sta BY <1>2, <4>1 DEF ReadOf
      <4>4. f[i - 1] = Sensor("read", 0, Registers!At(reg, i - 1 - 3), s.regs) BY <1>3, <4>1
      <4>3. f[i - 1].dir = "read" BY <4>4, SensorFields
      <4> QED BY <4>2, <4>3
    <3> QED BY <3>1, <3>2, <3>3, <3>4, <3>6
  <2> QED BY <1>2, <2>1 DEF Proper
<1>14. SensorShape(f[n + 4]) /\ f[n + 4].regs = s.regs
  <2>1. n + 4 \in 4 .. n + 4 OBVIOUS
  <2>2. f[n + 4] = Sensor("free", 0, Registers!At(reg, n + 4 - 3), s.regs) BY <1>3, <2>1
  <2> DEFINE a == Registers!At(reg, n + 4 - 3)
             t == f[n + 4]
  <2>5. t = Sensor("free", 0, a, s.regs) BY <2>2
  <2> HIDE DEF a, t
  <2>4. t.dir = "free" /\ t.index = 0 /\ t.addr = a /\ t.regs = s.regs BY <2>5, SensorFields
  <2>6. SensorShape(t) BY <1>5, <2>4, <2>5 DEF SensorShape
  <2> QED BY <2>4, <2>6 DEF t
<1>15. ASSUME NEW i \in 1 .. n
       PROVE  f[4 + i - 1].addr = Registers!At(reg, i) /\ f[4 + i - 1].regs = s.regs
  <2>1. 4 + i - 1 \in 4 .. n + 4 /\ (4 + i - 1) - 3 = i /\ 4 + i - 1 # n + 4 OBVIOUS
  <2>2. f[4 + i - 1] = Sensor("read", 0, Registers!At(reg, i), s.regs) BY <1>3, <2>1
  <2> QED BY <2>2, SensorFields
<1> QED BY <1>12, <1>13, <1>14, <1>15 DEF f, w

---------------------------------------------------------------------------
(* Two sequences of commands, one after the other. *)
Follow(h, f, g, p, q) ==
  h = [i \in 0 .. Len(p) + Len(q) |-> IF i <= Len(p) THEN f[i] ELSE g[i - Len(p)]]

LEMMA TraceJoined ==
  ASSUME NEW s, NEW p \in Seq(Command), NEW q \in Seq(Command),
         NEW f, Trace(f, s, p), NEW g, Trace(g, f[Len(p)], q),
         NEW h, Follow(h, f, g, p, q)
  PROVE  Trace(h, s, p \o q)
<1> DEFINE m == Len(p)
           n == Len(q)
           r == p \o q
<1>1. m \in Nat /\ n \in Nat OBVIOUS
<1>2. /\ Len(r) = m + n
      /\ \A i \in 1 .. m : r[i] = p[i]
      /\ \A i \in 1 .. n : r[m + i] = q[i]
  BY Joined, Zenon
<1>3. \A i \in 0 .. m : f[i] = IF i = 0 THEN s ELSE Perform(f[i - 1], p[i]) BY DEF Trace
<1>4. \A i \in 0 .. n : g[i] = IF i = 0 THEN f[m] ELSE Perform(g[i - 1], q[i]) BY DEF Trace
<1>0. h = [i \in 0 .. m + n |-> IF i <= m THEN f[i] ELSE g[i - m]] BY DEF Follow
<1> HIDE DEF m, n, r
<1>5. ASSUME NEW i \in 0 .. m PROVE h[i] = f[i] BY <1>0, <1>1
<1>6. ASSUME NEW i \in 0 .. n PROVE h[m + i] = g[i]
  <2>1. CASE i = 0
    <3>2. 0 \in 0 .. n /\ m \in 0 .. m BY <1>1
    <3>1. g[0] = f[m] /\ h[m] = f[m] BY <1>4, <1>5, <3>2
    <3> QED BY <1>1, <2>1, <3>1
  <2>2. CASE i # 0
    <3>1. m + i \in 0 .. m + n /\ ~(m + i <= m) /\ (m + i) - m = i BY <1>1, <2>2
    <3> QED BY <1>0, <3>1
  <2> QED BY <2>1, <2>2
<1>7. h = [i \in 0 .. m + n |-> h[i]] BY <1>0
<1>8. ASSUME NEW i \in 0 .. m + n PROVE h[i] = IF i = 0 THEN s ELSE Perform(h[i - 1], r[i])
  <2>1. CASE i = 0
    <3>1. 0 \in 0 .. m BY <1>1
    <3> QED BY <1>3, <1>5, <2>1, <3>1
  <2>2. CASE i # 0 /\ i <= m
    <3>1. i \in 1 .. m /\ i \in 0 .. m /\ i - 1 \in 0 .. m BY <1>1, <2>2
    <3>2. h[i] = f[i] /\ h[i - 1] = f[i - 1] /\ r[i] = p[i] BY <1>2, <1>5, <3>1
    <3> QED BY <1>3, <2>2, <3>1, <3>2
  <2>3. CASE i > m
    <3> DEFINE j == i - m
    <3>1. j \in 1 .. n /\ j \in 0 .. n /\ j - 1 \in 0 .. n /\ m + j = i /\ m + (j - 1) = i - 1 /\ j # 0 /\ i # 0
      BY <1>1, <2>3
    <3> HIDE DEF j
    <3>2. h[m + j] = g[j] /\ h[m + (j - 1)] = g[j - 1] /\ r[m + j] = q[j] BY <1>2, <1>6, <3>1
    <3>3. g[j] = Perform(g[j - 1], q[j]) BY <1>4, <3>1
    <3> QED BY <3>1, <3>2, <3>3
  <2> QED BY <1>1, <2>1, <2>2, <2>3
<1>9. Trace(h, s, r) BY <1>2, <1>7, <1>8 DEF Trace
<1> QED BY <1>9 DEF r

(* The first command is done. *)
LEMMA TraceTail ==
  ASSUME NEW s, NEW q \in Seq(Command), q # <<>>, NEW f, Trace(f, s, q),
         NEW g, g = [i \in 0 .. Len(q) - 1 |-> f[i + 1]]
  PROVE  Trace(g, Perform(s, q[1]), Tail(q))
<1> DEFINE n == Len(q)
           r == Tail(q)
<1>1. n \in Nat \ {0} BY EmptySeq
<1>2. Len(r) = n - 1 /\ \A i \in 1 .. n - 1 : r[i] = q[i + 1]
  BY HeadTailProperties
<1>3. \A i \in 0 .. n : f[i] = IF i = 0 THEN s ELSE Perform(f[i - 1], q[i]) BY DEF Trace
<1>0. g = [i \in 0 .. n - 1 |-> f[i + 1]] OBVIOUS
<1> HIDE DEF n, r
<1>4. \A i \in 0 .. n - 1 : g[i] = f[i + 1] BY <1>0
<1>5. g = [i \in 0 .. n - 1 |-> g[i]] BY <1>0
<1>6. ASSUME NEW i \in 0 .. n - 1 PROVE g[i] = IF i = 0 THEN Perform(s, q[1]) ELSE Perform(g[i - 1], r[i])
  <2>1. i + 1 \in 0 .. n /\ (i + 1) - 1 = i /\ i + 1 # 0 BY <1>1
  <2>2. g[i] = Perform(f[i], q[i + 1]) BY <1>3, <1>4, <2>1
  <2>3. CASE i = 0
    <3>1. 0 \in 0 .. n BY <1>1
    <3>2. f[0] = s BY <1>3, <3>1
    <3> QED BY <2>2, <2>3, <3>2
  <2>4. CASE i # 0
    <3>1. i \in 1 .. n - 1 /\ i - 1 \in 0 .. n - 1 /\ (i - 1) + 1 = i BY <1>1, <2>4
    <3>2. r[i] = q[i + 1] /\ g[i - 1] = f[i] BY <1>2, <1>4, <3>1
    <3> QED BY <2>2, <2>4, <3>2
  <2> QED BY <2>3, <2>4
<1>7. Trace(g, Perform(s, q[1]), r) BY <1>2, <1>5, <1>6 DEF Trace
<1> QED BY <1>7 DEF n, r

(* The first step of what is still to do. *)
LEMMA FirstRest ==
  ASSUME NEW q \in Seq(Command), q # <<>>
  PROVE  /\ Len(q) \in Nat \ {0} /\ Head(q) = q[1] /\ q[1] \in Command
         /\ Tail(q) \in Seq(Command) /\ Len(Tail(q)) = Len(q) - 1
         /\ \A i \in 1 .. Len(q) - 1 : Tail(q)[i] = q[i + 1]
         /\ <<q[1]>> \o Tail(q) = q
<1>1. Len(q) \in Nat \ {0} BY EmptySeq
<1>2. Head(q) = q[1] /\ q[1] \in Command /\ Tail(q) \in Seq(Command) /\ Len(Tail(q)) = Len(q) - 1
      /\ \A i \in 1 .. Len(q) - 1 : Tail(q)[i] = q[i + 1]
  <2>1. q[1] \in Command BY <1>1, ElementOfSeq
  <2>2. Head(q) = q[1] OBVIOUS
  <2> QED BY <2>1, <2>2, HeadTailProperties
<1>3. <<q[1]>> \o Tail(q) = q
  <2> DEFINE p == <<q[1]>>
             t == Tail(q)
             r == p \o t
  <2>1. p \in Seq(Command) /\ Len(p) = 1 /\ p[1] = q[1] BY <1>2
  <2> HIDE DEF p
  <2>2. t \in Seq(Command) /\ Len(t) = Len(q) - 1 /\ \A i \in 1 .. Len(q) - 1 : t[i] = q[i + 1] BY <1>2
  <2> HIDE DEF t
  <2>3. /\ r \in Seq(Command) /\ Len(r) = Len(p) + Len(t)
        /\ \A i \in 1 .. Len(p) : r[i] = p[i]
        /\ \A i \in 1 .. Len(t) : r[Len(p) + i] = t[i]
    BY <2>1, <2>2, Joined, Zenon
  <2> HIDE DEF r
  <2>4. Len(r) = Len(q) BY <1>1, <2>1, <2>2, <2>3
  <2>5. ASSUME NEW i \in 1 .. Len(q) PROVE r[i] = q[i]
    <3>1. CASE i = 1 BY <2>1, <2>3, <3>1
    <3>2. CASE i # 1
      <4>1. i - 1 \in 1 .. Len(q) - 1 /\ 1 + (i - 1) = i /\ (i - 1) + 1 = i BY <1>1, <3>2
      <4>2. r[1 + (i - 1)] = t[i - 1] /\ t[i - 1] = q[(i - 1) + 1] BY <2>1, <2>2, <2>3, <4>1
      <4> QED BY <4>1, <4>2
    <3> QED BY <3>1, <3>2
  <2>6. r = q BY <2>3, <2>4, <2>5, SeqEqual
  <2> QED BY <2>6 DEF r, p, t
<1> QED BY <1>1, <1>2, <1>3

---------------------------------------------------------------------------
(* The inductive invariant.                                                *)
NoRead(q) == \A i \in 1 .. Len(q) : q[i].fn # "read"

I2cType ==
  /\ dpc \in {"off", "config", "enable", "idle", "txwait", "put", "rxwait", "status"}
  /\ script \in Seq(Command) /\ cmds \in Seq(Command) /\ cur \in Seq(Command)
  /\ received \in Seq(Datum) /\ rx \in Seq(Datum)

(* Where a read is: which of its commands are still to put, and how many   *)
(* of its bytes are in.                                                    *)
ReadCall(reg, n) ==
  /\ asked = <<reg, n>>
  /\ \A i \in 1 .. Len(script) : /\ script[i].fn = "read" <=> Len(script) - i < n
                                 /\ script[i].sto <=> Len(script) - i \in {0, n + 1}
  /\ Len(received) = IF dpc = "status" THEN IF Len(script) = 1 THEN n ELSE 0
                     ELSE IF Len(script) <= n THEN n - Len(script) ELSE 0

WriteCall == \A i \in 1 .. Len(script) : /\ script[i].fn # "read"
                                         /\ script[i].sto <=> i = Len(script)

CallInv ==
  /\ script = <<>> <=> dpc \in {"off", "config", "enable", "idle"}
  /\ script = <<>> => asked = <<>>
  /\ asked = <<>> => received = <<>> /\ WriteCall
  /\ asked # <<>> => \E reg \in Reg, n \in Lengths : ReadCall(reg, n)
  /\ dpc = "put" => cmds = <<>>
  /\ dpc = "rxwait" => script[1].fn = "read"
  /\ dpc = "status" => script[1].sto

(* Of the reads at most one command is on its way, or its byte.            *)
QueueInv ==
  /\ Len(cmds) <= 1 /\ Len(cur) <= 1 /\ Len(rx) <= 1
  /\ dpc # "rxwait" \/ rx # <<>> => NoRead(cur) /\ NoRead(cmds)
  /\ dpc # "rxwait" => rx = <<>>
  /\ NoRead(cur) \/ cmds = <<>>

(* Each read will find the register of its byte, with what it will hold    *)
(* in the end; the bytes read are those.                                   *)
Delivers(f, reg, n) ==
  LET last == f[Len(toCome)] IN
  /\ \A i \in 1 .. Len(toCome) : toCome[i].fn = "read" =>
       f[i - 1].regs = last.regs /\ f[i - 1].addr = Registers!At(reg, n - (Len(toCome) - i))
  /\ \A j \in 1 .. Len(received) : received[j] = last.regs[Registers!At(reg, j)]
  /\ rx # <<>> => rx[1] = last.regs[Registers!At(reg, Len(received) + 1)]

Runs(f) ==
  /\ Trace(f, slave, toCome)
  /\ SensorShape(f[Len(toCome)])
  /\ Proper(f, toCome)
  /\ \A reg \in Reg, n \in Lengths : asked = <<reg, n>> => Delivers(f, reg, n)

I2cInv == I2cType /\ CallInv /\ QueueInv /\ \E f : Runs(f)

LEMMA LengthsPositive == \A n \in Lengths : n \in Nat \ {0} /\ n \in 1 .. BYTES * BYTES
<1>1. BYTES * BYTES \in Nat BY I2cAssumption
<1> DEFINE M == BYTES * BYTES
<1>2. Lengths \subseteq 1 .. M BY I2cAssumption
<1> HIDE DEF M
<1>3. \A n \in Lengths : n \in Nat \ {0} /\ n \in 1 .. M BY <1>1, <1>2
<1> QED BY <1>3 DEF M

LEMMA Single ==
  ASSUME NEW q \in Seq(Command), Len(q) <= 1, q # <<>>
  PROVE  Len(q) = 1 /\ q[1] \in Command /\ Head(q) = q[1] /\ q = <<q[1]>> /\ Tail(q) = <<>>
<1>1. Len(q) = 1 /\ q[1] \in Command /\ Head(q) = q[1] /\ Tail(q) \in Seq(Command) /\ Len(Tail(q)) = 0
  <2>1. /\ Len(q) \in Nat \ {0} /\ Head(q) = q[1] /\ q[1] \in Command
        /\ Tail(q) \in Seq(Command) /\ Len(Tail(q)) = Len(q) - 1
    BY FirstRest
  <2>2. Len(q) = 1 BY <2>1
  <2> QED BY <2>1, <2>2
<1>2. Tail(q) = <<>> BY <1>1, EmptySeq
<1>3. <<q[1]>> \o <<>> = q BY <1>2, FirstRest
<1>4. <<q[1]>> \in Seq(Command) BY <1>1
<1>5. q = <<q[1]>> BY <1>3, <1>4, ConcatEmptySeq, Zenon
<1> QED BY <1>1, <1>2, <1>5

(* The shapes of the two kinds of call. *)
LEMMA WriteShape ==
  ASSUME NEW reg \in Reg, NEW n \in Nat \ {0}, NEW x \in Int, NEW w, w = WriteScript(reg, n, x)
  PROVE  /\ w \in Seq(Command) /\ Len(w) = n + 3
         /\ \A i \in 1 .. Len(w) : w[i].fn # "read" /\ (w[i].sto <=> i = Len(w))
<1>1. /\ w \in Seq(Command) /\ Len(w) = n + 3
      /\ StartOf(w[1], 0)
      /\ WriteOf(w[2], reg \div BYTES) /\ ~w[2].sto
      /\ WriteOf(w[3], reg % BYTES) /\ ~w[3].sto
      /\ \A i \in 1 .. n : WriteOf(w[3 + i], byteOf(x, i, n)) /\ (w[3 + i].sto <=> i = n)
  <2>1. \A y \in Int : LET z == WriteScript(reg, n, y) IN
          /\ z \in Seq(Command) /\ Len(z) = n + 3
          /\ StartOf(z[1], 0)
          /\ WriteOf(z[2], reg \div BYTES) /\ ~z[2].sto
          /\ WriteOf(z[3], reg % BYTES) /\ ~z[3].sto
          /\ \A i \in 1 .. n : WriteOf(z[3 + i], byteOf(y, i, n)) /\ (z[3 + i].sto <=> i = n)
    BY WriteCommands
  <2> QED BY <2>1, Zenon
<1>2. ASSUME NEW i \in 1 .. n + 3 PROVE w[i].fn # "read" /\ (w[i].sto <=> i = n + 3)
  <2>1. CASE i = 1 BY <1>1, <2>1 DEF StartOf
  <2>2. CASE i = 2 BY <1>1, <2>2 DEF WriteOf
  <2>3. CASE i = 3 BY <1>1, <2>3 DEF WriteOf
  <2>4. CASE i > 3
    <3>1. i - 3 \in 1 .. n /\ 3 + (i - 3) = i /\ (i - 3 = n <=> i = n + 3) BY <2>4
    <3>2. WriteOf(w[i], byteOf(x, i - 3, n)) /\ (w[i].sto <=> i = n + 3) BY <1>1, <3>1
    <3> QED BY <3>2 DEF WriteOf
  <2> QED BY <2>1, <2>2, <2>3, <2>4
<1> QED BY <1>1, <1>2

LEMMA ReadShape ==
  ASSUME NEW reg \in Reg, NEW n \in Nat \ {0}, NEW w, w = ReadScript(reg, n)
  PROVE  /\ w \in Seq(Command) /\ Len(w) = n + 4
         /\ \A i \in 1 .. Len(w) : /\ w[i].fn = "read" <=> Len(w) - i < n
                                   /\ w[i].sto <=> Len(w) - i \in {0, n + 1}
<1>1. /\ w \in Seq(Command) /\ Len(w) = n + 4
      /\ StartOf(w[1], 0)
      /\ WriteOf(w[2], reg \div BYTES) /\ ~w[2].sto
      /\ WriteOf(w[3], reg % BYTES) /\ w[3].sto
      /\ StartOf(w[4], 1)
      /\ \A i \in 1 .. n : ReadOf(w[4 + i]) /\ (w[4 + i].sto <=> i = n)
  BY ReadCommands
<1>2. ASSUME NEW i \in 1 .. n + 4
      PROVE  /\ w[i].fn = "read" <=> n + 4 - i < n
             /\ w[i].sto <=> n + 4 - i \in {0, n + 1}
  <2>1. CASE i = 1 BY <1>1, <2>1 DEF StartOf
  <2>2. CASE i = 2 BY <1>1, <2>2 DEF WriteOf
  <2>3. CASE i = 3 BY <1>1, <2>3 DEF WriteOf
  <2>4. CASE i = 4 BY <1>1, <2>4 DEF StartOf
  <2>5. CASE i > 4
    <3>1. i - 4 \in 1 .. n /\ 4 + (i - 4) = i /\ (i - 4 = n <=> n + 4 - i \in {0, n + 1}) BY <2>5
    <3>2. ReadOf(w[i]) /\ (w[i].sto <=> n + 4 - i \in {0, n + 1}) BY <1>1, <3>1
    <3> QED BY <2>5, <3>2 DEF ReadOf
  <2> QED BY <2>1, <2>2, <2>3, <2>4, <2>5
<1> QED BY <1>1, <1>2

Shapes == I2cType /\ CallInv /\ QueueInv

---------------------------------------------------------------------------
(* The steps that leave what is to come as it is.                          *)
LEMMA ScriptThere ==
  ASSUME Shapes, dpc \in {"txwait", "put", "rxwait", "status"}
  PROVE  /\ script # <<>> /\ Len(script) \in Nat \ {0} /\ Head(script) = script[1]
         /\ script[1] \in Command
         /\ Tail(script) \in Seq(Command) /\ Len(Tail(script)) = Len(script) - 1
         /\ \A i \in 1 .. Len(script) - 1 : Tail(script)[i] = script[i + 1]
<1>1. script \in Seq(Command) /\ script # <<>> BY DEF Shapes, I2cType, CallInv
<1> QED BY <1>1, FirstRest

LEMMA AskedCall ==
  ASSUME Shapes, asked # <<>>
  PROVE  \E reg \in Reg, n \in Lengths : ReadCall(reg, n) /\ n \in Nat \ {0}
BY LengthsPositive DEF Shapes, CallInv

LEMMA InitShapes ==
  ASSUME Shapes, InitStep PROVE Shapes' /\ toCome' = toCome
<1> USE DEF Shapes, InitStep
<1>1. I2cType' BY DEF I2cType
<1>2. CallInv' BY DEF CallInv, WriteCall
<1>3. QueueInv' BY DEF QueueInv, NoRead
<1>4. toCome' = toCome
  <2>1. dpc \notin {"rxwait", "status"} /\ dpc' \notin {"rxwait", "status"} OBVIOUS
  <2> QED BY <2>1, Zenon DEF toCome
<1> QED BY <1>1, <1>2, <1>3, <1>4

LEMMA TxReadyShapes ==
  ASSUME Shapes, TxReady PROVE Shapes' /\ toCome' = toCome
<1> USE DEF Shapes, TxReady, coreVars
<1>1. I2cType' BY DEF I2cType
<1>2. CallInv'
  <2>1. cmds = <<>> BY DEF txReady, TX_READY
  <2>2. script # <<>> BY DEF CallInv
  <2>3. ASSUME NEW reg, NEW n, ReadCall(reg, n) PROVE ReadCall(reg, n)' BY <2>3 DEF ReadCall
  <2> QED BY <2>1, <2>2, <2>3 DEF CallInv, WriteCall
<1>3. QueueInv' BY DEF QueueInv, NoRead
<1>4. toCome' = toCome
  <2>1. dpc \notin {"rxwait", "status"} /\ dpc' \notin {"rxwait", "status"} OBVIOUS
  <2> QED BY <2>1, Zenon DEF toCome
<1> QED BY <1>1, <1>2, <1>3, <1>4

LEMMA CoreTakeShapes ==
  ASSUME Shapes, CoreTake PROVE Shapes' /\ toCome' = toCome
<1> USE DEF Shapes, CoreTake, driverVars
<1>1. Len(cmds) = 1 /\ cmds[1] \in Command /\ cmds \in Seq(Command) /\ cmds' = <<>> /\ cur' = cmds
  <2>1. cmds \in Seq(Command) /\ Len(cmds) <= 1 /\ cmds # <<>> BY DEF I2cType, QueueInv
  <2>2. Len(cmds) = 1 /\ cmds[1] \in Command /\ Head(cmds) = cmds[1] /\ cmds = <<cmds[1]>> /\ Tail(cmds) = <<>>
    BY <2>1, Single, Zenon
  <2> QED BY <2>1, <2>2
<1>2. I2cType' BY <1>1 DEF I2cType
<1>3. CallInv'
  <2>3. ASSUME NEW reg, NEW n, ReadCall(reg, n) PROVE ReadCall(reg, n)' BY <2>3 DEF ReadCall
  <2> QED BY <1>1, <2>3 DEF CallInv, WriteCall
<1>4. QueueInv'
  <2>1. NoRead(cmds')
    <3>1. Len(cmds') = 0 BY <1>1, EmptySeq
    <3> QED BY <3>1 DEF NoRead
  <2>2. NoRead(cmds) => NoRead(cur') BY <1>1
  <2> QED BY <1>1, <2>1, <2>2 DEF QueueInv
<1>5. toCome' = toCome
  <2> DEFINE p == IF dpc \in {"rxwait", "status"} THEN Tail(script) ELSE script
  <2>1. toCome = (cur \o cmds) \o p BY Zenon DEF toCome
  <2>2. toCome' = (cur' \o cmds') \o p BY Zenon DEF toCome
  <2>3. cur \o cmds = cmds /\ cmds \o cmds' = cmds
    <3>1. cur = <<>> /\ cmds' = <<>> BY <1>1
    <3>2. <<>> \o cmds = cmds /\ cmds \o <<>> = cmds BY <1>1, ConcatEmptySeq, Zenon
    <3> QED BY <3>1, <3>2, Zenon
  <2> QED BY <1>1, <2>1, <2>2, <2>3, Zenon
<1> QED BY <1>2, <1>3, <1>4, <1>5

LEMMA CoreStopShapes ==
  ASSUME Shapes, CoreStop PROVE Shapes' /\ toCome' = toCome
<1> USE DEF Shapes, CoreStop, driverVars
<1>1. I2cType' BY DEF I2cType
<1>2. CallInv'
  <2>3. ASSUME NEW reg, NEW n, ReadCall(reg, n) PROVE ReadCall(reg, n)' BY <2>3 DEF ReadCall
  <2> QED BY <2>3 DEF CallInv, WriteCall
<1>3. QueueInv' BY DEF QueueInv, NoRead
<1>4. toCome' = toCome BY Zenon DEF toCome
<1> QED BY <1>1, <1>2, <1>3, <1>4

(* A step that is over and is not the last. *)
LEMMA NextOfRead ==
  ASSUME Shapes, dpc \in {"txwait", "put", "rxwait", "status"}, Len(script) # 1, NextStep,
         asked' = asked, NEW reg, NEW n \in Nat \ {0}, ReadCall(reg, n),
         Len(received') = IF Len(script) - 1 <= n THEN n - (Len(script) - 1) ELSE 0
  PROVE  ReadCall(reg, n)'
<1> DEFINE L == Len(script)
<1>1. L \in Nat \ {0} /\ L > 1 /\ script' = Tail(script) /\ Len(script') = L - 1
      /\ \A i \in 1 .. L - 1 : script'[i] = script[i + 1]
  <2>1. /\ Len(script) \in Nat \ {0} /\ Tail(script) \in Seq(Command) /\ Len(Tail(script)) = Len(script) - 1
        /\ \A i \in 1 .. Len(script) - 1 : Tail(script)[i] = script[i + 1]
    BY ScriptThere
  <2>2. script' = Tail(script) BY DEF NextStep
  <2> QED BY <2>1, <2>2
<1>2. dpc' = "txwait" BY DEF NextStep, firstWait
<1>3. \A i \in 1 .. L : /\ script[i].fn = "read" <=> L - i < n
                        /\ script[i].sto <=> L - i \in {0, n + 1}
  BY DEF ReadCall
<1>4. asked' = <<reg, n>> BY DEF ReadCall
<1> HIDE DEF L
<1>5. ASSUME NEW i \in 1 .. L - 1
      PROVE  /\ script'[i].fn = "read" <=> L - 1 - i < n
             /\ script'[i].sto <=> L - 1 - i \in {0, n + 1}
  <2>1. i + 1 \in 1 .. L /\ L - (i + 1) = L - 1 - i BY <1>1
  <2> QED BY <1>1, <1>3, <2>1
<1>6. Len(received') = IF L - 1 <= n THEN n - (L - 1) ELSE 0 BY DEF L
<1> QED BY <1>1, <1>2, <1>4, <1>5, <1>6 DEF ReadCall

LEMMA NextType ==
  ASSUME Shapes, dpc \in {"txwait", "put", "rxwait", "status"}, NextStep
  PROVE  /\ script' \in Seq(Command) /\ dpc' \in {"idle", "txwait"}
         /\ script' = <<>> <=> dpc' = "idle"
         /\ dpc' = "idle" <=> Len(script) = 1
<1>1. script' = Tail(script) /\ script' \in Seq(Command) /\ Len(script') = Len(script) - 1 /\ Len(script) \in Nat \ {0}
  BY ScriptThere DEF NextStep
<1>2. dpc' = IF Len(script) = 1 THEN "idle" ELSE "txwait" BY DEF NextStep, firstWait
<1>3. script' = <<>> <=> Len(script') = 0 BY <1>1, EmptySeq
<1> QED BY <1>1, <1>2, <1>3

(* What is to be put after the step in progress. *)
LEMMA PutAfter ==
  ASSUME Shapes, dpc \in {"rxwait", "status"}, NextStep, UNCHANGED <<cur, cmds>>
  PROVE  toCome' = toCome
<1>1. dpc' \notin {"rxwait", "status"} /\ script' = Tail(script) BY NextType DEF NextStep
<1> QED BY <1>1, Zenon DEF toCome

LEMMA StatusShapes ==
  ASSUME Shapes, StatusBusy PROVE Shapes' /\ toCome' = toCome
<1> DEFINE L == Len(script)
<1>0. Shapes /\ dpc = "status" /\ NextStep /\ UNCHANGED <<enabled, cmds, cur, stopping, rx, slave>>
  BY DEF StatusBusy, coreVars
<1>1. L \in Nat \ {0} BY <1>0, ScriptThere
<1>2. /\ script' \in Seq(Command) /\ dpc' \in {"idle", "txwait"}
      /\ script' = <<>> <=> dpc' = "idle"
      /\ dpc' = "idle" <=> L = 1
  BY <1>0, NextType
<1>3. 1 \in 1 .. L /\ script[1].sto BY <1>0, <1>1 DEF Shapes, CallInv
<1>4. L > 1 => asked # <<>> BY <1>0, <1>1, <1>3 DEF Shapes, CallInv, WriteCall
<1>5. L > 1 => UNCHANGED <<asked, received, answer>> BY DEF StatusBusy
<1>6. L = 1 => asked' = <<>> /\ received' = <<>> BY <1>0, <1>1 DEF StatusBusy, Shapes, CallInv
<1> HIDE DEF L
<1>7. I2cType'
  <2>1. received' \in Seq(Datum)
    <3>1. <<>> \in Seq(Datum) BY EmptySeq
    <3>2. received \in Seq(Datum) BY <1>0 DEF Shapes, I2cType
    <3>3. CASE L = 1 BY <1>6, <3>1, <3>3
    <3>4. CASE L > 1 BY <1>5, <3>2, <3>4
    <3> QED BY <1>1, <3>3, <3>4
  <2> QED BY <1>0, <1>2, <2>1 DEF Shapes, I2cType
<1>8. CallInv'
  <2>1. CASE L = 1
    <3>1. asked' = <<>> /\ received' = <<>> /\ script' = <<>> /\ dpc' = "idle" BY <1>2, <1>6, <2>1
    <3>2. WriteCall'
      <4>1. Len(script') = 0 BY <3>1, EmptySeq
      <4> QED BY <4>1 DEF WriteCall
    <3> QED BY <3>1, <3>2 DEF CallInv
  <2>2. CASE L > 1
    <3>1. PICK reg \in Reg, n \in Lengths : ReadCall(reg, n) /\ n \in Nat \ {0} BY <1>0, <1>4, <2>2, AskedCall
    <3>2. L - 1 = n + 1 /\ Len(received) = 0
      <4>1. L - 1 \in {0, n + 1} BY <1>3, <3>1 DEF ReadCall, L
      <4>2. Len(received) = 0 BY <1>0, <2>2, <3>1 DEF ReadCall, L
      <4> QED BY <2>2, <4>1, <4>2, <1>1
    <3>3. Len(received') = IF L - 1 <= n THEN n - (L - 1) ELSE 0 BY <1>5, <2>2, <3>1, <3>2
    <3>8. L # 1 BY <1>1, <2>2
    <3>6. Len(script) # 1 /\ asked' = asked /\ dpc \in {"txwait", "put", "rxwait", "status"}
      BY <1>0, <1>5, <2>2, <3>8 DEF L
    <3>7. Len(received') = IF Len(script) - 1 <= n THEN n - (Len(script) - 1) ELSE 0 BY <3>3 DEF L
    <3>4. ReadCall(reg, n)' BY <1>0, <3>1, <3>6, <3>7, NextOfRead
    <3>5. script' # <<>> /\ dpc' = "txwait" /\ asked' # <<>> BY <1>1, <1>2, <1>4, <1>5, <2>2
    <3> QED BY <3>1, <3>4, <3>5 DEF CallInv
  <2> QED BY <1>1, <2>1, <2>2
<1>9. QueueInv' BY <1>0, <1>2 DEF Shapes, QueueInv, NoRead
<1>10. toCome' = toCome BY <1>0, PutAfter
<1> QED BY <1>7, <1>8, <1>9, <1>10 DEF Shapes

LEMMA RxReadyShapes ==
  ASSUME Shapes, RxReady
  PROVE  /\ Shapes' /\ toCome' = toCome
         /\ rx' = <<>> /\ received' = Append(received, rx[1]) /\ rx[1] \in Datum
<1> DEFINE L == Len(script)
<1>0. Shapes /\ dpc = "rxwait" /\ UNCHANGED <<asked, answer, enabled, cmds, cur, stopping, slave>>
  BY DEF RxReady
<1>1. L \in Nat \ {0} BY <1>0, ScriptThere
<1>2. Len(rx) = 1 /\ rx[1] \in Datum /\ Head(rx) = rx[1] /\ Tail(rx) = <<>>
  <2>1. rx \in Seq(Datum) /\ rx # <<>> /\ Len(rx) <= 1
    BY DEF RxReady, RX_READY, Shapes, I2cType, QueueInv
  <2>2. Len(rx) \in Nat \ {0} BY <2>1, EmptySeq
  <2>3. Len(rx) = 1 BY <2>1, <2>2
  <2>4. rx[1] \in Datum BY <2>1, <2>3, ElementOfSeq
  <2>5. Head(rx) = rx[1] BY <2>1, <2>3
  <2>6. Tail(rx) \in Seq(Datum) /\ Len(Tail(rx)) = Len(rx) - 1 BY <2>1, HeadTailProperties
  <2>8. Tail(rx) \in Seq(Datum) /\ Len(Tail(rx)) = 0 BY <2>3, <2>6
  <2>7. Tail(rx) = <<>> BY <2>8, EmptySeq
  <2> QED BY <2>3, <2>4, <2>5, <2>7
<1>3. rx' = <<>> /\ received' = Append(received, rx[1]) BY <1>2 DEF RxReady
<1>4. received \in Seq(Datum) /\ received' \in Seq(Datum) /\ Len(received') = Len(received) + 1
  <2>1. received \in Seq(Datum) BY DEF Shapes, I2cType
  <2> QED BY <1>2, <1>3, <2>1, AppendProperties
<1>5. script[1].fn = "read" /\ 1 \in 1 .. L BY <1>0, <1>1 DEF Shapes, CallInv
<1>6. asked # <<>> BY <1>0, <1>1, <1>5 DEF Shapes, CallInv, WriteCall
<1>7. PICK reg \in Reg, n \in Lengths : ReadCall(reg, n) /\ n \in Nat \ {0} BY <1>0, <1>6, AskedCall
<1>8. L <= n /\ Len(received) = n - L
  <2>1. L - 1 < n BY <1>5, <1>7 DEF ReadCall
  <2>2. L <= n BY <1>1, <1>7, <2>1
  <2> QED BY <1>0, <1>7, <2>2 DEF ReadCall
<1>9. script[1].sto <=> L = 1
  <2>1. script[1].sto <=> L - 1 \in {0, n + 1} BY <1>5, <1>7 DEF ReadCall
  <2> QED BY <1>1, <1>7, <1>8, <2>1
<1>10. \/ L = 1 /\ dpc' = "status" /\ UNCHANGED script
       \/ L # 1 /\ NextStep
  <2>1. Head(script) = script[1] BY <1>0, ScriptThere
  <2> QED BY <1>9, <2>1 DEF RxReady
<1>11. L # 1 => /\ script' \in Seq(Command) /\ dpc' \in {"idle", "txwait"}
                /\ script' = <<>> <=> dpc' = "idle"
                /\ dpc' = "idle" <=> L = 1
  <2> SUFFICES ASSUME L # 1 PROVE NextStep
    BY <1>0, NextType
  <2> QED BY <1>10
<1>12. I2cType' BY <1>0, <1>3, <1>4, <1>10, <1>11, EmptySeq DEF Shapes, I2cType
<1>13. ReadCall(reg, n)'
  <2>1. CASE L = 1
    <3>1. Len(received') = n BY <1>4, <1>7, <1>8, <2>1
    <3>2. UNCHANGED <<script, asked>> /\ dpc' = "status" BY <1>0, <1>10, <2>1
    <3> QED BY <1>7, <2>1, <3>1, <3>2 DEF ReadCall
  <2>2. CASE L # 1
    <3>1. Len(received') = IF L - 1 <= n THEN n - (L - 1) ELSE 0 BY <1>1, <1>4, <1>7, <1>8
    <3>2. NextStep BY <1>10, <2>2
    <3> QED BY <1>0, <1>7, <2>2, <3>1, <3>2, NextOfRead
  <2> QED BY <2>1, <2>2
<1>14. CallInv'
  <2>1. script' # <<>> /\ dpc' \in {"status", "txwait"} /\ asked' # <<>>
    <3>1. script # <<>> BY <1>0, ScriptThere
    <3> QED BY <1>0, <1>6, <1>10, <1>11, <3>1
  <2>2. dpc' = "status" => script'[1].sto BY <1>9, <1>10, <1>11
  <2> QED BY <1>7, <1>13, <2>1, <2>2 DEF CallInv
<1>15. QueueInv'
  <2>1. Len(rx') = 0 BY <1>3, EmptySeq
  <2>2. NoRead(cur) /\ NoRead(cmds) /\ Len(cur) <= 1 /\ Len(cmds) <= 1 BY DEF Shapes, QueueInv, RxReady, RX_READY
  <2> QED BY <1>0, <1>3, <2>1, <2>2 DEF QueueInv, NoRead
<1>16. toCome' = toCome
  <2>1. CASE L = 1
    <3>1. dpc \in {"rxwait", "status"} /\ dpc' \in {"rxwait", "status"} /\ UNCHANGED <<script, cur, cmds>>
      BY <1>0, <1>10, <2>1
    <3> QED BY <3>1, Zenon DEF toCome
  <2>2. CASE L # 1 BY <1>0, <1>10, <2>2, PutAfter
  <2> QED BY <2>1, <2>2
<1> QED BY <1>2, <1>3, <1>12, <1>14, <1>15, <1>16 DEF Shapes

LEMMA One ==
  ASSUME NEW c \in Command
  PROVE  <<c>> \in Seq(Command) /\ Len(<<c>>) = 1 /\ <<c>>[1] = c /\ (c.fn # "read" => NoRead(<<c>>))
BY DEF NoRead

LEMMA Regrouped ==
  \A p, q, r \in Seq(Command) : (p \o q) \o r = p \o (q \o r)
BY ConcatAssociative

LEMMA PutShapes ==
  ASSUME Shapes, PutCommand PROVE Shapes' /\ toCome' = toCome
<1> DEFINE L == Len(script)
           c == script[1]
<1>0. Shapes /\ dpc = "put" /\ UNCHANGED <<asked, received, answer, enabled, cur, stopping, rx, slave>>
  BY DEF PutCommand
<1>1. /\ script # <<>> /\ L \in Nat \ {0} /\ Head(script) = c /\ c \in Command
      /\ Tail(script) \in Seq(Command) /\ Len(Tail(script)) = L - 1
      /\ <<c>> \o Tail(script) = script
  <2>1. script \in Seq(Command) /\ script # <<>> BY <1>0 DEF Shapes, I2cType, CallInv
  <2> QED BY <2>1, FirstRest
<1>2. cmds = <<>> /\ rx = <<>> /\ NoRead(cur) /\ Len(cur) <= 1 /\ cur \in Seq(Command)
  BY <1>0 DEF Shapes, CallInv, QueueInv, I2cType
<1>3. cmds' = <<c>>
  <2>1. cmds' = IF Len(cmds) < DEPTH THEN Append(cmds, c) ELSE cmds BY <1>1 DEF PutCommand
  <2>2. Len(cmds) < DEPTH
    <3>1. Len(cmds) = 0 BY <1>2, EmptySeq
    <3> QED BY <3>1, I2cAssumption
  <2>3. Append(<<>>, c) = <<c>> OBVIOUS
  <2> QED BY <1>2, <2>1, <2>2, <2>3, Zenon
<1>4. cmds' \in Seq(Command) /\ Len(cmds') = 1 /\ (c.fn # "read" => NoRead(cmds'))
  BY <1>1, <1>3, One
<1>5. \/ c.fn = "read" /\ dpc' = "rxwait" /\ UNCHANGED script
      \/ c.fn # "read" /\ c.sto /\ dpc' = "status" /\ UNCHANGED script
      \/ c.fn # "read" /\ ~c.sto /\ NextStep
  BY <1>1 DEF PutCommand
<1>11. L \in Nat \ {0} /\ Len(Tail(script)) = L - 1 BY <1>1
<1>12. script # <<>> BY <1>1
<1> HIDE DEF L
<1>6. 1 \in 1 .. L BY <1>11
<1>7. ASSUME c.fn = "read" /\ dpc' = "rxwait" /\ UNCHANGED script PROVE Shapes'
  <2>1. I2cType' BY <1>0, <1>4, <1>7 DEF Shapes, I2cType
  <2>2. CallInv'
    <3>1. ASSUME NEW reg, NEW n, ReadCall(reg, n) PROVE ReadCall(reg, n)' BY <1>0, <1>7, <3>1 DEF ReadCall
    <3>2. asked # <<>> BY <1>0, <1>6, <1>7 DEF Shapes, CallInv, WriteCall, L
    <3> QED BY <1>0, <1>12, <1>7, <3>1, <3>2 DEF Shapes, CallInv
  <2>3. QueueInv'
    <3>1. NoRead(cur)' /\ cur' = cur /\ rx' = <<>> BY <1>0, <1>2 DEF NoRead
    <3>2. Len(rx') = 0 BY <3>1, EmptySeq
    <3> QED BY <1>2, <1>4, <1>7, <3>1, <3>2 DEF QueueInv
  <2> QED BY <2>1, <2>2, <2>3 DEF Shapes
<1>8. ASSUME c.fn # "read" /\ c.sto /\ dpc' = "status" /\ UNCHANGED script PROVE Shapes'
  <2>1. I2cType' BY <1>0, <1>4, <1>8 DEF Shapes, I2cType
  <2>2. CallInv'
    <3>1. ASSUME NEW reg, NEW n \in Nat \ {0}, ReadCall(reg, n) PROVE ReadCall(reg, n)'
      <4>1. ~(L - 1 < n) /\ L - 1 \in {0, n + 1} BY <1>6, <1>8, <3>1 DEF ReadCall, L
      <4>2. ~(L <= n) /\ L # 1 BY <1>11, <4>1
      <4>3. Len(received) = 0 BY <1>0, <3>1, <4>2 DEF ReadCall, L
      <4>4. Len(received') = 0 /\ Len(script') # 1 /\ dpc' = "status" BY <1>0, <1>8, <4>2, <4>3 DEF L
      <4>5. \A i \in 1 .. Len(script') : /\ script'[i].fn = "read" <=> Len(script') - i < n
                                         /\ script'[i].sto <=> Len(script') - i \in {0, n + 1}
        BY <1>8, <3>1 DEF ReadCall
      <4>6. asked' = <<reg, n>> BY <1>0, <3>1 DEF ReadCall
      <4> QED BY <4>4, <4>5, <4>6 DEF ReadCall
    <3>2. asked = <<>> => received = <<>> /\ WriteCall' BY <1>0, <1>8 DEF Shapes, CallInv, WriteCall
    <3>3. asked # <<>> => \E reg \in Reg, n \in Lengths : ReadCall(reg, n)'
      BY <1>0, <3>1, AskedCall
    <3> QED BY <1>0, <1>12, <1>8, <3>2, <3>3 DEF CallInv
  <2>3. QueueInv'
    <3>1. NoRead(cur)' /\ cur' = cur /\ rx' = <<>> BY <1>0, <1>2 DEF NoRead
    <3>2. Len(rx') = 0 BY <3>1, EmptySeq
    <3> QED BY <1>2, <1>4, <1>8, <3>1, <3>2 DEF QueueInv
  <2> QED BY <2>1, <2>2, <2>3 DEF Shapes
<1>9. ASSUME c.fn # "read" /\ ~c.sto /\ NextStep PROVE Shapes'
  <2>0. /\ script' \in Seq(Command) /\ dpc' \in {"idle", "txwait"}
        /\ script' = <<>> <=> dpc' = "idle"
        /\ dpc' = "idle" <=> L = 1
    BY <1>0, <1>9, NextType DEF L
  <2>1. I2cType' BY <1>0, <1>4, <2>0 DEF Shapes, I2cType
  <2>2. CallInv'
    <3>1. CASE asked = <<>>
      <4>1. \A i \in 1 .. L : script[i].fn # "read" /\ (script[i].sto <=> i = L) /\ received = <<>>
        BY <1>0, <3>1 DEF Shapes, CallInv, WriteCall, L
      <4>2. L # 1 BY <1>6, <1>9, <4>1
      <4>3. Len(script') = L - 1 /\ \A i \in 1 .. L - 1 : script'[i] = script[i + 1]
        BY <1>0, <1>9, ScriptThere DEF NextStep, L
      <4>4. ASSUME NEW i \in 1 .. L - 1
            PROVE  script'[i].fn # "read" /\ (script'[i].sto <=> i = L - 1)
        <5>1. i + 1 \in 1 .. L /\ (i + 1 = L <=> i = L - 1) BY <1>11
        <5> QED BY <4>1, <4>3, <5>1
      <4>5. WriteCall' BY <4>3, <4>4 DEF WriteCall
      <4>6. asked' = <<>> /\ received' = <<>> BY <1>0, <1>6, <3>1, <4>1
      <4> QED BY <2>0, <4>2, <4>5, <4>6 DEF CallInv
    <3>2. CASE asked # <<>>
      <4>1. PICK reg \in Reg, n \in Lengths : ReadCall(reg, n) /\ n \in Nat \ {0} BY <1>0, <3>2, AskedCall
      <4>2. ~(L - 1 < n) /\ L - 1 \notin {0, n + 1} BY <1>6, <1>9, <4>1 DEF ReadCall, L
      <4>8. n \in Nat \ {0} BY <4>1
      <4>3. L # 1 /\ ~(L <= n) BY <1>11, <4>2, <4>8
      <4>4. Len(received) = 0 BY <1>0, <4>1, <4>3 DEF ReadCall, L
      <4>5. Len(received') = IF Len(script) - 1 <= n THEN n - (Len(script) - 1) ELSE 0
        <5>1. received' = received BY <1>0
        <5>2. IF L - 1 <= n THEN n - (L - 1) = 0 ELSE TRUE BY <1>11, <4>2, <4>8
        <5> QED BY <4>4, <5>1, <5>2 DEF L
      <4>6. asked' = asked /\ Len(script) # 1 /\ dpc \in {"txwait", "put", "rxwait", "status"}
        BY <1>0, <4>3 DEF L
      <4>7. ReadCall(reg, n)' BY <1>0, <1>9, <4>1, <4>5, <4>6, NextOfRead
      <4> QED BY <2>0, <3>2, <4>1, <4>3, <4>6, <4>7 DEF CallInv
    <3> QED BY <3>1, <3>2
  <2>3. QueueInv'
    <3>1. NoRead(cur)' /\ cur' = cur /\ rx' = <<>> BY <1>0, <1>2 DEF NoRead
    <3>2. Len(rx') = 0 BY <3>1, EmptySeq
    <3> QED BY <1>2, <1>4, <1>9, <3>1, <3>2 DEF QueueInv
  <2> QED BY <2>1, <2>2, <2>3 DEF Shapes
<1>10. toCome' = toCome
  <2>1. toCome = (cur \o <<>>) \o script BY <1>0, <1>2, Zenon DEF toCome
  <2>2. toCome' = (cur \o <<c>>) \o Tail(script)
    <3>1. CASE dpc' \in {"rxwait", "status"} /\ UNCHANGED script BY <1>0, <1>3, <3>1, Zenon DEF toCome
    <3>2. CASE NextStep
      <4>1. dpc' \notin {"rxwait", "status"} /\ script' = Tail(script) BY <1>0, <3>2, NextType DEF NextStep
      <4> QED BY <1>0, <1>3, <4>1, Zenon DEF toCome
    <3> QED BY <1>5, <3>1, <3>2
  <2>3. cur \o <<>> = cur BY <1>2, ConcatEmptySeq, Zenon
  <2>5. <<c>> \in Seq(Command) BY <1>1, One
  <2> HIDE DEF c
  <2>4. (cur \o <<c>>) \o Tail(script) = cur \o (<<c>> \o Tail(script))
    BY <1>1, <1>2, <2>5, Regrouped, Zenon
  <2> QED BY <1>1, <2>1, <2>2, <2>3, <2>4, Zenon
<1> QED BY <1>5, <1>7, <1>8, <1>9, <1>10

LEMMA Together ==
  ASSUME Shapes
  PROVE  LET p == IF dpc \in {"rxwait", "status"} THEN Tail(script) ELSE script IN
         /\ p \in Seq(Command)
         /\ toCome = cur \o (cmds \o p) /\ cmds \o p \in Seq(Command)
         /\ toCome \in Seq(Command)
         /\ Len(toCome) = Len(cur) + Len(cmds) + Len(p)
<1> DEFINE p == IF dpc \in {"rxwait", "status"} THEN Tail(script) ELSE script
<1>1. p \in Seq(Command)
  <2>1. CASE dpc \in {"rxwait", "status"} BY <2>1, ScriptThere
  <2>2. CASE dpc \notin {"rxwait", "status"} BY <2>2 DEF Shapes, I2cType
  <2> QED BY <2>1, <2>2
<1>2. toCome = (cur \o cmds) \o p BY Zenon DEF toCome
<1>3. cur \in Seq(Command) /\ cmds \in Seq(Command) BY DEF Shapes, I2cType
<1> HIDE DEF p
<1>4. toCome = cur \o (cmds \o p) BY <1>1, <1>2, <1>3, Regrouped, Zenon
<1> DEFINE q == cmds \o p
<1>5. q \in Seq(Command) /\ Len(q) = Len(cmds) + Len(p) BY <1>1, <1>3, Joined, Zenon
<1>6. toCome = cur \o q BY <1>4
<1> HIDE DEF q
<1>7. cur \o q \in Seq(Command) /\ Len(cur \o q) = Len(cur) + Len(q) BY <1>3, <1>5, Joined, Zenon
<1>8. toCome \in Seq(Command) /\ Len(toCome) = Len(cur) + Len(q) BY <1>6, <1>7, Zenon
<1>9. Len(cur) \in Nat /\ Len(cmds) \in Nat /\ Len(p) \in Nat BY <1>1, <1>3
<1>10. Len(toCome) = Len(cur) + Len(cmds) + Len(p) BY <1>5, <1>8, <1>9
<1> QED BY <1>1, <1>4, <1>5, <1>8, <1>10 DEF p, q

(* What a step leaves of the sensor's future. *)
LEMMA KeepsRuns ==
  ASSUME Shapes, toCome' = toCome, slave' = slave, NEW f, Runs(f),
         \/ UNCHANGED <<asked, received, rx>>
         \/ asked' = <<>>
         \/ asked' = asked /\ rx # <<>> /\ rx' = <<>> /\ received' = Append(received, rx[1]) /\ rx[1] \in Datum
  PROVE  Runs(f)'
<1>1. Trace(f, slave', toCome') /\ SensorShape(f[Len(toCome')]) /\ Proper(f, toCome')
  BY Zenon DEF Runs
<1>2. ASSUME NEW reg \in Reg, NEW n \in Lengths, asked' = <<reg, n>> PROVE Delivers(f, reg, n)'
  <2>0. asked' # <<>> BY <1>2
  <2> DEFINE q == toCome
             last == f[Len(q)]
  <2>1. asked' = asked BY <2>0
  <2>2. Delivers(f, reg, n) BY <1>2, <2>1 DEF Runs
  <2>3. /\ \A i \in 1 .. Len(q) : q[i].fn = "read" =>
             f[i - 1].regs = last.regs /\ f[i - 1].addr = Registers!At(reg, n - (Len(q) - i))
        /\ \A j \in 1 .. Len(received) : received[j] = last.regs[Registers!At(reg, j)]
        /\ rx # <<>> => rx[1] = last.regs[Registers!At(reg, Len(received) + 1)]
    BY <2>2, Zenon DEF Delivers
  <2>4. toCome' = q OBVIOUS
  <2>5. /\ \A j \in 1 .. Len(received') : received'[j] = last.regs[Registers!At(reg, j)]
        /\ rx' # <<>> => rx'[1] = last.regs[Registers!At(reg, Len(received') + 1)]
    <3> HIDE DEF q, last
    <3>1. CASE UNCHANGED <<asked, received, rx>> BY <2>3, <3>1
    <3>2. CASE asked' = asked /\ rx # <<>> /\ rx' = <<>> /\ received' = Append(received, rx[1]) /\ rx[1] \in Datum
      <4>1. received \in Seq(Datum) BY DEF Shapes, I2cType
      <4>2. /\ Len(received') = Len(received) + 1 /\ Len(received) \in Nat
            /\ \A i \in 1 .. Len(received) : received'[i] = received[i]
            /\ received'[Len(received) + 1] = rx[1]
        BY <3>2, <4>1, AppendProperties
      <4>3. rx[1] = last.regs[Registers!At(reg, Len(received) + 1)] BY <2>3, <3>2
      <4>4. ASSUME NEW j \in 1 .. Len(received') PROVE received'[j] = last.regs[Registers!At(reg, j)]
        <5>1. CASE j = Len(received) + 1 BY <4>2, <4>3, <5>1
        <5>2. CASE j # Len(received) + 1
          <6>1. j \in 1 .. Len(received) BY <4>2, <5>2
          <6> QED BY <2>3, <4>2, <6>1
        <5> QED BY <5>1, <5>2
      <4> QED BY <3>2, <4>4
    <3> QED BY <2>0, <3>1, <3>2
  <2> HIDE DEF q
  <2> QED BY <2>3, <2>4, <2>5, Zenon DEF Delivers
<1> QED BY <1>1, <1>2, Zenon DEF Runs

(* The registers in the end. *)
LEMMA Final ==
  ASSUME NEW f, NEW s, NEW q, Len(q) \in Nat, Trace(f, s, q)
  PROVE  (CHOOSE t \in After(s, q) : TRUE).regs = f[Len(q)].regs
<1>1. After(s, q) = {f[Len(q)]} BY AfterTrace
<1>2. \A x : (CHOOSE t \in {x} : TRUE) = x OBVIOUS
<1> QED BY <1>1, <1>2, Zenon

LEMMA FinalRegs ==
  ASSUME NEW f, toCome \in Seq(Command), Trace(f, slave, toCome)
  PROVE  finalRegs = f[Len(toCome)].regs
<1>1. Len(toCome) \in Nat OBVIOUS
<1>2. finalRegs = (CHOOSE t \in After(slave, toCome) : TRUE).regs BY FinalDef, Zenon DEF finalRegs
<1> QED BY <1>1, <1>2, Final, Zenon

LEMMA FinalRegsNext ==
  ASSUME NEW f, toCome' \in Seq(Command), Trace(f, slave', toCome')
  PROVE  finalRegs' = f[Len(toCome')].regs
<1>1. Len(toCome') \in Nat OBVIOUS
<1>2. finalRegs' = (CHOOSE t \in After(slave', toCome') : TRUE).regs BY FinalDef, Zenon DEF finalRegs
<1> QED BY <1>1, <1>2, Final, Zenon

LEMMA SameFinal ==
  ASSUME toCome' = toCome, slave' = slave PROVE finalRegs' = finalRegs
BY FinalDef, Zenon DEF finalRegs

LEMMA TakenOff ==
  ASSUME NEW q \in Seq(Command), NEW c \in Command, NEW r, r = <<c>> \o q
  PROVE  /\ r \in Seq(Command) /\ r # <<>> /\ Len(r) = Len(q) + 1 /\ r[1] = c
         /\ \A i \in 1 .. Len(q) : r[i + 1] = q[i]
         /\ Tail(r) = q
<1> DEFINE p == <<c>>
<1>1. p \in Seq(Command) /\ Len(p) = 1 /\ p[1] = c BY One
<1>2. r = p \o q OBVIOUS
<1> HIDE DEF p
<1>3. /\ r \in Seq(Command) /\ Len(r) = Len(p) + Len(q)
      /\ \A i \in 1 .. Len(p) : r[i] = p[i]
      /\ \A i \in 1 .. Len(q) : r[Len(p) + i] = q[i]
  <2>1. /\ p \o q \in Seq(Command) /\ Len(p \o q) = Len(p) + Len(q)
        /\ \A i \in 1 .. Len(p) : (p \o q)[i] = p[i]
        /\ \A i \in 1 .. Len(q) : (p \o q)[Len(p) + i] = q[i]
    BY <1>1, Joined, Zenon
  <2> QED BY <1>2, <2>1, Zenon
<1>4. Len(q) \in Nat OBVIOUS
<1>5. Len(r) = Len(q) + 1 /\ r[1] = c BY <1>1, <1>3, <1>4
<1>6. r # <<>>
  <2>1. Len(r) # 0 BY <1>4, <1>5
  <2> QED BY <2>1, EmptySeq
<1>7. \A i \in 1 .. Len(q) : r[i + 1] = q[i] BY <1>1, <1>3, <1>4
<1>8. Tail(r) \in Seq(Command) /\ Len(Tail(r)) = Len(q) /\ \A i \in 1 .. Len(q) : Tail(r)[i] = r[i + 1]
  <2>1. /\ Tail(r) \in Seq(Command) /\ Len(Tail(r)) = Len(r) - 1
        /\ \A i \in 1 .. Len(r) - 1 : Tail(r)[i] = r[i + 1]
    BY <1>3, <1>6, FirstRest
  <2>2. Len(r) - 1 = Len(q) BY <1>4, <1>5
  <2> QED BY <2>1, <2>2
<1>9. Tail(r) = q BY <1>7, <1>8, SeqEqual
<1> QED BY <1>3, <1>5, <1>6, <1>7, <1>9

---------------------------------------------------------------------------
(* The core carries out the command at the head of all that is to come.    *)
LEMMA TransferStep ==
  ASSUME Shapes, NEW f, Runs(f), CoreTransfer
  PROVE  /\ Shapes' /\ \E g : Runs(g)'
         /\ finalRegs' = finalRegs
<1> DEFINE c == cur[1]
           p == IF dpc \in {"rxwait", "status"} THEN Tail(script) ELSE script
           q == cmds \o p
           m == Len(toCome)
           last == f[m]
<1>0. cur # <<>> /\ slave' = Perform(slave, c) /\ cur' = <<>>
      /\ UNCHANGED <<dpc, asked, script, received, answer, enabled, cmds>>
  BY DEF CoreTransfer, driverVars
<1>1. Len(cur) = 1 /\ c \in Command /\ cur = <<c>> /\ cur \in Seq(Command) /\ cmds \in Seq(Command)
  BY <1>0, Single DEF Shapes, I2cType, QueueInv
<1>2. /\ p \in Seq(Command)
      /\ toCome = cur \o q /\ q \in Seq(Command)
      /\ toCome \in Seq(Command)
      /\ m = Len(cur) + Len(cmds) + Len(p)
  BY Together, Zenon
<1>3. toCome' = q
  <2>1. toCome' = (cur' \o cmds') \o p BY <1>0, Zenon DEF toCome
  <2>2. <<>> \o cmds = cmds BY <1>1, ConcatEmptySeq, Zenon
  <2>3. cur' = <<>> /\ cmds' = cmds BY <1>0
  <2> QED BY <2>1, <2>2, <2>3, Zenon
<1>4. /\ toCome # <<>> /\ m = Len(q) + 1 /\ toCome[1] = c
      /\ \A i \in 1 .. Len(q) : toCome[i + 1] = q[i]
      /\ Tail(toCome) = q
  <2>1. toCome = <<c>> \o q BY <1>1, <1>2, Zenon
  <2>2. q \in Seq(Command) /\ c \in Command BY <1>1, <1>2
  <2> HIDE DEF c, q
  <2>3. /\ toCome # <<>> /\ Len(toCome) = Len(q) + 1 /\ toCome[1] = c
        /\ \A i \in 1 .. Len(q) : toCome[i + 1] = q[i]
        /\ Tail(toCome) = q
    BY <2>1, <2>2, TakenOff
  <2> QED BY <2>3
<1>5. Len(p) \in Nat /\ Len(cmds) \in Nat /\ Len(q) \in Nat
  <2> HIDE DEF p, q
  <2> QED BY <1>1, <1>2
<1> HIDE DEF c, p, q, m
<1>6. f[0] = slave /\ SensorShape(last) /\ Proper(f, toCome) /\ Trace(f, slave, toCome)
  <2>1. Trace(f, slave, toCome) /\ SensorShape(last) /\ Proper(f, toCome) BY DEF Runs, m
  <2>2. 0 \in 0 .. Len(toCome) BY <1>4, <1>5 DEF m
  <2>3. f[0] = slave BY <2>1, <2>2 DEF Trace
  <2> QED BY <2>1, <2>3
<1>7. c.fn = "read" <=> ~c.sta /\ slave.dir = "read"
  <2>1. 1 \in 1 .. Len(toCome) /\ 1 - 1 = 0 BY <1>4, <1>5 DEF m
  <2> QED BY <1>4, <1>6, <2>1 DEF Proper
<1>8. rx' = IF c.fn = "read" /\ Len(rx) < DEPTH THEN Append(rx, slave.regs[slave.addr]) ELSE rx
  BY <1>7 DEF CoreTransfer, c
(* The byte that is read. *)
<1>9. ASSUME c.fn = "read"
      PROVE  /\ dpc = "rxwait" /\ cmds = <<>> /\ rx = <<>>
             /\ slave.regs[slave.addr] \in Datum
             /\ \E reg \in Reg, n \in Lengths :
                  /\ asked = <<reg, n>>
                  /\ slave.regs[slave.addr] = last.regs[Registers!At(reg, Len(received) + 1)]
  <2>1. ~NoRead(cur) BY <1>1, <1>9 DEF NoRead, c
  <2>2. dpc = "rxwait" /\ cmds = <<>> /\ rx = <<>> BY <2>1 DEF Shapes, QueueInv
  <2> DEFINE L == Len(script)
  <2>3. L \in Nat \ {0} /\ Len(p) = L - 1 BY <2>2, ScriptThere DEF p
  <2> HIDE DEF L
  <2>4. 1 \in 1 .. L /\ script[1].fn = "read" BY <2>2, <2>3 DEF Shapes, CallInv
  <2>5. asked # <<>> BY <2>4 DEF Shapes, CallInv, WriteCall, L
  <2>6. PICK reg \in Reg, n \in Lengths : ReadCall(reg, n) /\ n \in Nat \ {0} BY <2>5, AskedCall
  <2>7. L - 1 < n BY <2>4, <2>6 DEF ReadCall, L
  <2>8. n \in Nat \ {0} BY <2>6
  <2>9. L <= n BY <2>3, <2>7, <2>8
  <2>10. Len(received) = n - L BY <2>2, <2>6, <2>9 DEF ReadCall, L
  <2>11. Len(cmds) = 0 BY <2>2, EmptySeq
  <2>12. m = L BY <1>1, <1>2, <2>3, <2>11
  <2>13. asked = <<reg, n>> /\ Delivers(f, reg, n) BY <2>6 DEF ReadCall, Runs
  <2>14. slave.regs = last.regs /\ slave.addr = Registers!At(reg, n - (m - 1))
    <3>1. \A i \in 1 .. Len(toCome) : toCome[i].fn = "read" =>
            f[i - 1].regs = last.regs /\ f[i - 1].addr = Registers!At(reg, n - (Len(toCome) - i))
      BY <2>13, Zenon DEF Delivers, m
    <3>2. 1 \in 1 .. Len(toCome) /\ 1 - 1 = 0 BY <1>4, <1>5 DEF m
    <3>3. f[1 - 1].regs = last.regs /\ f[1 - 1].addr = Registers!At(reg, n - (Len(toCome) - 1))
      BY <1>4, <1>9, <3>1, <3>2
    <3> QED BY <1>6, <3>2, <3>3 DEF m
  <2>15. n - (m - 1) = Len(received) + 1 /\ n - (m - 1) \in Nat \ {0} BY <2>3, <2>8, <2>9, <2>10, <2>12
  <2>16. slave.addr \in Reg
    <3> DEFINE i == n - (m - 1)
    <3>1. i \in Nat \ {0} BY <2>15
    <3> HIDE DEF i
    <3>2. Registers!At(reg, i) \in Reg BY <3>1, Addresses
    <3> QED BY <2>14, <3>2 DEF i
  <2>17. slave.regs[slave.addr] \in Datum BY <1>6, <2>14, <2>16 DEF SensorShape
  <2> QED BY <2>2, <2>13, <2>14, <2>15, <2>17
<1>10. \/ c.fn = "read" /\ rx' = <<slave.regs[slave.addr]>>
       \/ c.fn # "read" /\ rx' = rx
  <2>1. CASE c.fn = "read"
    <3>1. Len(rx) < DEPTH
      <4>1. Len(rx) = 0 BY <1>9, <2>1, EmptySeq
      <4> QED BY <4>1, I2cAssumption
    <3>2. \A x : Append(<<>>, x) = <<x>> OBVIOUS
    <3> QED BY <1>8, <1>9, <2>1, <3>1, <3>2
  <2>2. CASE c.fn # "read" BY <1>8, <2>2
  <2> QED BY <2>1, <2>2
<1>11. Shapes'
  <2>1. I2cType'
    <3>1. rx' \in Seq(Datum)
      <4>1. CASE c.fn = "read"
        <5>1. slave.regs[slave.addr] \in Datum BY <1>9, <4>1
        <5> DEFINE x == slave.regs[slave.addr]
        <5>2. rx' = <<x>> BY <1>10, <4>1
        <5> HIDE DEF x
        <5> QED BY <5>1, <5>2 DEF x
      <4>2. CASE c.fn # "read" BY <1>10, <4>2 DEF Shapes, I2cType
      <4> QED BY <4>1, <4>2
    <3>2. cur' \in Seq(Command) BY <1>0, EmptySeq
    <3> QED BY <1>0, <3>1, <3>2 DEF Shapes, I2cType
  <2>2. CallInv'
    <3>1. ASSUME NEW reg, NEW n, ReadCall(reg, n) PROVE ReadCall(reg, n)' BY <1>0, <3>1 DEF ReadCall
    <3> QED BY <1>0, <3>1 DEF Shapes, CallInv, WriteCall
  <2>3. QueueInv'
    <3>1. Len(cur') = 0 /\ NoRead(cur') BY <1>0, EmptySeq DEF NoRead
    <3>2. CASE c.fn = "read"
      <4>1. dpc' = "rxwait" /\ cmds' = <<>> BY <1>0, <1>9, <3>2
      <4>2. Len(cmds') = 0 BY <4>1, EmptySeq
      <4>3. NoRead(cmds') BY <4>2 DEF NoRead
      <4>4. Len(rx') = 1 BY <1>10, <3>2
      <4> QED BY <3>1, <4>1, <4>2, <4>3, <4>4 DEF QueueInv
    <3>3. CASE c.fn # "read"
      <4>1. rx' = rx /\ dpc' = dpc /\ cmds' = cmds BY <1>0, <1>10, <3>3
      <4> QED BY <3>1, <4>1 DEF Shapes, QueueInv, NoRead
    <3> QED BY <3>2, <3>3
  <2> QED BY <2>1, <2>2, <2>3 DEF Shapes
<1>19. PICK g : g = [i \in 0 .. m - 1 |-> f[i + 1]] OBVIOUS
<1>12. Trace(g, slave', q) /\ \A i \in 0 .. m - 1 : g[i] = f[i + 1]
  <2>1. \A i \in 0 .. m - 1 : g[i] = f[i + 1] BY <1>19
  <2>2. g = [i \in 0 .. Len(toCome) - 1 |-> f[i + 1]] BY <1>19 DEF m
  <2>3. Trace(g, Perform(slave, toCome[1]), Tail(toCome)) BY <1>2, <1>4, <1>6, <2>2, TraceTail
  <2> QED BY <1>0, <1>4, <2>1, <2>3
<1>13. g[Len(q)] = last /\ Len(q) = m - 1
  <2>1. Len(q) \in 0 .. m - 1 /\ Len(q) + 1 = m /\ Len(q) = m - 1 BY <1>4, <1>5
  <2> QED BY <1>12, <2>1
<1>14. ASSUME NEW i \in 1 .. Len(q)
       PROVE  /\ q[i] = toCome[i + 1] /\ g[i - 1] = f[(i + 1) - 1] /\ i + 1 \in 1 .. Len(toCome)
              /\ Len(toCome) - (i + 1) = Len(q) - i
  <2>1. i - 1 \in 0 .. m - 1 /\ (i - 1) + 1 = (i + 1) - 1 /\ i + 1 \in 1 .. m /\ m - (i + 1) = Len(q) - i
    BY <1>4, <1>5
  <2>2. q[i] = toCome[i + 1] BY <1>4
  <2>3. g[i - 1] = f[(i - 1) + 1] BY <1>12, <2>1
  <2> QED BY <2>1, <2>2, <2>3 DEF m
<1>15. Proper(g, q) BY <1>6, <1>14 DEF Proper
<1>16. ASSUME NEW reg \in Reg, NEW n \in Lengths, asked' = <<reg, n>> PROVE Delivers(g, reg, n)'
  <2>1. asked = <<reg, n>> BY <1>0, <1>16
  <2>2. Delivers(f, reg, n) BY <2>1 DEF Runs
  <2>3. /\ \A i \in 1 .. Len(toCome) : toCome[i].fn = "read" =>
             f[i - 1].regs = last.regs /\ f[i - 1].addr = Registers!At(reg, n - (Len(toCome) - i))
        /\ \A j \in 1 .. Len(received) : received[j] = last.regs[Registers!At(reg, j)]
        /\ rx # <<>> => rx[1] = last.regs[Registers!At(reg, Len(received) + 1)]
    BY <2>2, Zenon DEF Delivers, m
  <2>4. \A i \in 1 .. Len(q) : q[i].fn = "read" =>
          g[i - 1].regs = last.regs /\ g[i - 1].addr = Registers!At(reg, n - (Len(q) - i))
    <3> SUFFICES ASSUME NEW i \in 1 .. Len(q), q[i].fn = "read"
                 PROVE  g[i - 1].regs = last.regs /\ g[i - 1].addr = Registers!At(reg, n - (Len(q) - i))
      OBVIOUS
    <3>1. toCome[i + 1].fn = "read" /\ i + 1 \in 1 .. Len(toCome) BY <1>14
    <3>2. f[(i + 1) - 1].regs = last.regs /\ f[(i + 1) - 1].addr = Registers!At(reg, n - (Len(toCome) - (i + 1)))
      BY <2>3, <3>1
    <3>3. g[i - 1] = f[(i + 1) - 1] /\ Len(toCome) - (i + 1) = Len(q) - i BY <1>14
    <3> QED BY <3>2, <3>3, Zenon
  <2>5. rx' # <<>> => rx'[1] = last.regs[Registers!At(reg, Len(received) + 1)]
    <3>1. CASE c.fn = "read"
      <4>1. PICK reg2 \in Reg, n2 \in Lengths :
               /\ asked = <<reg2, n2>>
               /\ slave.regs[slave.addr] = last.regs[Registers!At(reg2, Len(received) + 1)]
        BY <1>9, <3>1
      <4>2. reg2 = reg BY <2>1, <4>1
      <4>3. rx'[1] = slave.regs[slave.addr] BY <1>10, <3>1
      <4> QED BY <4>1, <4>2, <4>3
    <3>2. CASE c.fn # "read" BY <1>10, <2>3, <3>2
    <3> QED BY <3>1, <3>2
  <2>6. toCome' = q /\ received' = received /\ g[Len(q)] = last BY <1>0, <1>3, <1>13
  <2> HIDE DEF last
  <2> QED BY <2>3, <2>4, <2>5, <2>6, Zenon DEF Delivers
<1>17. Runs(g)'
  <2>1. toCome' = q /\ g[Len(q)] = last BY <1>3, <1>13
  <2> HIDE DEF last
  <2> QED BY <1>6, <1>12, <1>15, <1>16, <2>1, Zenon DEF Runs
<1>18. finalRegs' = finalRegs
  <2>1. finalRegs = last.regs BY <1>2, <1>6, FinalRegs DEF m
  <2>2. finalRegs' = g[Len(toCome')].regs BY <1>2, <1>3, <1>12, FinalRegsNext
  <2> QED BY <1>3, <1>13, <2>1, <2>2
<1> QED BY <1>11, <1>17, <1>18

---------------------------------------------------------------------------
(* A call: its commands queue up behind those still to be carried out.     *)
LEMMA BeginStep ==
  ASSUME Shapes, NEW f, Runs(f), dpc = "idle", NEW w \in Seq(Command), Len(w) \in Nat \ {0},
         NEW call, Begin(w, call), NEW g, Trace(g, f[Len(toCome)], w), Proper(g, w),
         SensorShape(g[Len(w)]), NEW reg \in Reg, NEW n \in Lengths,
         \/ /\ call = <<>>
            /\ \A i \in 1 .. Len(w) : w[i].fn # "read" /\ (w[i].sto <=> i = Len(w))
         \/ /\ call = <<reg, n>> /\ ~(Len(w) <= n)
            /\ \A i \in 1 .. Len(w) : /\ w[i].fn = "read" <=> Len(w) - i < n
                                      /\ w[i].sto <=> Len(w) - i \in {0, n + 1}
                                      /\ w[i].fn = "read" => /\ g[i - 1].regs = g[Len(w)].regs
                                                             /\ g[i - 1].addr = Registers!At(reg, n - (Len(w) - i))
  PROVE  /\ Shapes' /\ \E h : Runs(h)'
         /\ finalRegs = f[Len(toCome)].regs /\ finalRegs' = g[Len(w)].regs /\ answer' = <<>>
<1> DEFINE m == Len(toCome)
           k == Len(w)
<1>0. /\ script' = w /\ asked' = call /\ received' = <<>> /\ dpc' = "txwait" /\ answer' = <<>>
      /\ UNCHANGED <<enabled, cmds, cur, stopping, rx, slave>>
  BY DEF Begin, firstWait, coreVars
<1>1. /\ script = <<>> /\ asked = <<>> /\ rx = <<>> /\ NoRead(cur) /\ NoRead(cmds)
      /\ cur \in Seq(Command) /\ cmds \in Seq(Command) /\ Len(cur) <= 1 /\ Len(cmds) <= 1
  BY DEF Shapes, I2cType, CallInv, QueueInv
<1>2. toCome = cur \o cmds /\ toCome \in Seq(Command) /\ toCome' = toCome \o w
  <2>1. toCome = (cur \o cmds) \o <<>> BY <1>1, Zenon DEF toCome
  <2>2. cur \o cmds \in Seq(Command) BY <1>1, Joined, Zenon
  <2>3. (cur \o cmds) \o <<>> = cur \o cmds
    <3> DEFINE z == cur \o cmds
    <3>1. z \in Seq(Command) BY <2>2
    <3> HIDE DEF z
    <3>2. z \o <<>> = z BY <3>1, ConcatEmptySeq, Zenon
    <3> QED BY <3>2 DEF z
  <2>4. dpc' \notin {"rxwait", "status"} BY <1>0
  <2>5. toCome' = (cur \o cmds) \o w BY <1>0, <2>4, Zenon DEF toCome
  <2> QED BY <2>1, <2>2, <2>3, <2>5, Zenon
<1>3. NoRead(toCome)
  <2>1. /\ Len(toCome) = Len(cur) + Len(cmds)
        /\ \A i \in 1 .. Len(cur) : toCome[i] = cur[i]
        /\ \A i \in 1 .. Len(cmds) : toCome[Len(cur) + i] = cmds[i]
    <3>1. /\ Len(cur \o cmds) = Len(cur) + Len(cmds)
          /\ \A i \in 1 .. Len(cur) : (cur \o cmds)[i] = cur[i]
          /\ \A i \in 1 .. Len(cmds) : (cur \o cmds)[Len(cur) + i] = cmds[i]
      BY <1>1, Joined, Zenon
    <3> QED BY <1>2, <3>1, Zenon
  <2>2. Len(cur) \in Nat /\ Len(cmds) \in Nat BY <1>1
  <2> SUFFICES ASSUME NEW i \in 1 .. Len(toCome) PROVE toCome[i].fn # "read" BY DEF NoRead
  <2>3. CASE i <= Len(cur)
    <3>1. i \in 1 .. Len(cur) BY <2>1, <2>2, <2>3
    <3> QED BY <1>1, <2>1, <3>1 DEF NoRead
  <2>4. CASE i > Len(cur)
    <3>1. i - Len(cur) \in 1 .. Len(cmds) /\ Len(cur) + (i - Len(cur)) = i BY <2>1, <2>2, <2>4
    <3> QED BY <1>1, <2>1, <3>1 DEF NoRead
  <2> QED BY <2>1, <2>2, <2>3, <2>4
<1>4. m \in Nat /\ Len(toCome') = m + k
      /\ (\A i \in 1 .. m : toCome'[i] = toCome[i])
      /\ (\A i \in 1 .. k : toCome'[m + i] = w[i])
      /\ toCome' \in Seq(Command)
  <2>1. /\ toCome \o w \in Seq(Command) /\ Len(toCome \o w) = Len(toCome) + Len(w)
        /\ \A i \in 1 .. Len(toCome) : (toCome \o w)[i] = toCome[i]
        /\ \A i \in 1 .. Len(w) : (toCome \o w)[Len(toCome) + i] = w[i]
    BY <1>2, Joined, Zenon
  <2>2. Len(toCome) \in Nat BY <1>2
  <2> QED BY <1>2, <2>1, <2>2, Zenon
<1>5. Trace(f, slave, toCome) /\ Proper(f, toCome) BY DEF Runs
<1>6. PICK h : Follow(h, f, g, toCome, w) BY DEF Follow
<1>7. Trace(h, slave, toCome \o w)
  <2> DEFINE p == toCome
             s == slave
  <2>1. p \in Seq(Command) /\ Trace(f, s, p) /\ Trace(g, f[Len(p)], w) /\ Follow(h, f, g, p, w)
    BY <1>2, <1>5, <1>6, Zenon
  <2> HIDE DEF p, s
  <2>2. Trace(h, s, p \o w) BY <2>1, TraceJoined
  <2> QED BY <2>2 DEF p, s
<1>8. Trace(h, slave', toCome') BY <1>0, <1>2, <1>7, Zenon
<1>17. Len(w) = k /\ Len(toCome) = m OBVIOUS
<1> HIDE DEF m, k
<1>9. (\A i \in 0 .. m : h[i] = f[i]) /\ (\A i \in 0 .. k : h[m + i] = g[i]) /\ k \in Nat \ {0} /\ h[m + k] = g[k]
  <2>1. k \in Nat \ {0} /\ m \in Nat BY <1>4, <1>17
  <2>2. h = [i \in 0 .. m + k |-> IF i <= m THEN f[i] ELSE g[i - m]] BY <1>6, <1>17 DEF Follow
  <2>3. ASSUME NEW i \in 0 .. m PROVE h[i] = f[i] BY <2>1, <2>2
  <2>4. ASSUME NEW i \in 0 .. k PROVE h[m + i] = g[i]
    <3>1. CASE i = 0
      <4>1. 0 \in 0 .. k /\ m \in 0 .. m BY <2>1
      <4>2. g[0] = f[m] BY <1>17, <4>1 DEF Trace
      <4> QED BY <2>1, <2>3, <3>1, <4>1, <4>2
    <3>2. CASE i # 0
      <4>1. m + i \in 0 .. m + k /\ ~(m + i <= m) /\ (m + i) - m = i BY <2>1, <3>2
      <4> QED BY <2>2, <4>1
    <3> QED BY <3>1, <3>2
  <2>5. k \in 0 .. k BY <2>1
  <2> QED BY <2>1, <2>3, <2>4, <2>5
<1>10. ASSUME NEW i \in 1 .. m + k
       PROVE  \/ i \in 1 .. m /\ toCome'[i] = toCome[i] /\ h[i - 1] = f[i - 1]
              \/ \E j \in 1 .. k : i = m + j /\ toCome'[i] = w[j] /\ h[i - 1] = g[j - 1]
  <2>1. CASE i <= m
    <3>1. i \in 1 .. m /\ i - 1 \in 0 .. m BY <1>4, <2>1
    <3> QED BY <1>4, <1>9, <3>1
  <2>2. CASE i > m
    <3> DEFINE j == i - m
    <3>1. j \in 1 .. k /\ i = m + j /\ j - 1 \in 0 .. k /\ m + (j - 1) = i - 1 BY <1>4, <1>9, <2>2
    <3> HIDE DEF j
    <3>2. toCome'[m + j] = w[j] /\ h[m + (j - 1)] = g[j - 1] BY <1>4, <1>9, <3>1
    <3> QED BY <3>1, <3>2
  <2> QED BY <1>4, <1>9, <2>1, <2>2
<1>11. Proper(h, toCome')
  <2> SUFFICES ASSUME NEW i \in 1 .. m + k
               PROVE  toCome'[i].fn = "read" <=> ~toCome'[i].sta /\ h[i - 1].dir = "read"
    BY <1>4 DEF Proper
  <2>1. CASE i \in 1 .. m /\ toCome'[i] = toCome[i] /\ h[i - 1] = f[i - 1]
    <3>1. toCome[i].fn = "read" <=> ~toCome[i].sta /\ f[i - 1].dir = "read" BY <1>5, <1>17, <2>1 DEF Proper
    <3> QED BY <2>1, <3>1
  <2>2. ASSUME NEW j \in 1 .. k, i = m + j, toCome'[i] = w[j], h[i - 1] = g[j - 1]
        PROVE  toCome'[i].fn = "read" <=> ~toCome'[i].sta /\ h[i - 1].dir = "read"
    <3>1. w[j].fn = "read" <=> ~w[j].sta /\ g[j - 1].dir = "read" BY <1>17 DEF Proper
    <3> QED BY <2>2, <3>1
  <2> QED BY <1>10, <2>1, <2>2
<1>12. ASSUME NEW reg2 \in Reg, NEW n2 \in Lengths, asked' = <<reg2, n2>> PROVE Delivers(h, reg2, n2)'
  <2>1. call = <<reg, n>> /\ reg2 = reg /\ n2 = n
    <3>1. call # <<>> BY <1>0, <1>12
    <3>2. call = <<reg, n>> BY <3>1
    <3> QED BY <1>0, <1>12, <3>2
  <2>2. \A i \in 1 .. k : w[i].fn = "read" =>
          g[i - 1].regs = g[k].regs /\ g[i - 1].addr = Registers!At(reg, n - (k - i))
    <3>1. call # <<>> BY <2>1
    <3> QED BY <1>17, <3>1
  <2>3. ASSUME NEW i \in 1 .. m + k, toCome'[i].fn = "read"
        PROVE  h[i - 1].regs = g[k].regs /\ h[i - 1].addr = Registers!At(reg, n - ((m + k) - i))
    <3>1. CASE i \in 1 .. m /\ toCome'[i] = toCome[i] /\ h[i - 1] = f[i - 1]
      BY <1>3, <1>17, <2>3, <3>1 DEF NoRead
    <3>2. ASSUME NEW j \in 1 .. k, i = m + j, toCome'[i] = w[j], h[i - 1] = g[j - 1]
          PROVE  h[i - 1].regs = g[k].regs /\ h[i - 1].addr = Registers!At(reg, n - ((m + k) - i))
      <4>1. g[j - 1].regs = g[k].regs /\ g[j - 1].addr = Registers!At(reg, n - (k - j)) BY <2>2, <2>3, <3>2
      <4>2. (m + k) - i = k - j BY <1>4, <1>9, <3>2
      <4> QED BY <3>2, <4>1, <4>2, Zenon
    <3> QED BY <1>10, <3>1, <3>2
  <2>4. Len(received') = 0 /\ rx' = <<>> /\ h[Len(toCome')] = g[k] /\ Len(toCome') = m + k
    BY <1>0, <1>1, <1>4, <1>9, EmptySeq
  <2>5. \A j \in 1 .. Len(received') : received'[j] = g[k].regs[Registers!At(reg, j)] BY <2>4
  <2>6. \A i \in 1 .. Len(toCome') : toCome'[i].fn = "read" =>
          /\ h[i - 1].regs = h[Len(toCome')].regs
          /\ h[i - 1].addr = Registers!At(reg, n - (Len(toCome') - i))
    <3> SUFFICES ASSUME NEW i \in 1 .. Len(toCome'), toCome'[i].fn = "read"
                 PROVE  /\ h[i - 1].regs = h[Len(toCome')].regs
                        /\ h[i - 1].addr = Registers!At(reg, n - (Len(toCome') - i))
      OBVIOUS
    <3>1. i \in 1 .. m + k BY <2>4
    <3>2. h[i - 1].regs = g[k].regs /\ h[i - 1].addr = Registers!At(reg, n - ((m + k) - i)) BY <2>3, <3>1
    <3>3. h[Len(toCome')] = g[k] /\ Len(toCome') = m + k BY <2>4
    <3>4. h[i - 1].regs = h[Len(toCome')].regs BY <3>2, <3>3, Zenon
    <3>5. h[i - 1].addr = Registers!At(reg, n - (Len(toCome') - i))
      <4> DEFINE z == Len(toCome')
                 y == m + k
      <4>3. z = y BY <3>3, Zenon
      <4>4. h[i - 1].addr = Registers!At(reg, n - (y - i)) BY <3>2, Zenon
      <4>1. z = y /\ h[i - 1].addr = Registers!At(reg, n - (y - i)) BY <4>3, <4>4
      <4> HIDE DEF y, z
      <4>2. h[i - 1].addr = Registers!At(reg, n - (z - i)) BY <4>1, Zenon
      <4> QED BY <4>2 DEF z
    <3> QED BY <3>4, <3>5
  <2>7. \A j \in 1 .. Len(received') : received'[j] = h[Len(toCome')].regs[Registers!At(reg, j)]
    BY <2>4, <2>5, Zenon
  <2> QED BY <2>1, <2>4, <2>6, <2>7, Zenon DEF Delivers
<1>13. SensorShape(h[Len(toCome')]) BY <1>4, <1>9, <1>17, Zenon
<1>14. Runs(h)' BY <1>8, <1>11, <1>12, <1>13, Zenon DEF Runs
<1>15. Shapes'
  <2>1. I2cType' BY <1>0, EmptySeq DEF Shapes, I2cType
  <2>2. CallInv'
    <3>1. script' # <<>>
      <4>1. Len(script') # 0 BY <1>0, <1>9, <1>17
      <4> QED BY <4>1, EmptySeq
    <3>2. CASE call = <<>>
      <4>1. \A i \in 1 .. Len(w) : w[i].fn # "read" /\ (w[i].sto <=> i = Len(w)) BY <3>2
      <4>2. WriteCall' BY <1>0, <4>1 DEF WriteCall
      <4> QED BY <1>0, <3>1, <3>2, <4>2 DEF CallInv
    <3>3. CASE call = <<reg, n>>
      <4>0. call # <<>> BY <3>3
      <4>1. /\ ~(Len(w) <= n)
            /\ \A i \in 1 .. Len(w) : /\ w[i].fn = "read" <=> Len(w) - i < n
                                      /\ w[i].sto <=> Len(w) - i \in {0, n + 1}
        BY <4>0
      <4>2. Len(received') = 0 BY <1>0, EmptySeq
      <4>3. ReadCall(reg, n)' BY <1>0, <3>3, <4>1, <4>2 DEF ReadCall
      <4> QED BY <1>0, <3>1, <4>0, <4>3 DEF CallInv
    <3> QED BY <3>2, <3>3
  <2>3. QueueInv'
    <3>1. Len(rx') = 0 BY <1>0, <1>1, EmptySeq
    <3> QED BY <1>0, <1>1, <3>1 DEF QueueInv, NoRead
  <2> QED BY <2>1, <2>2, <2>3 DEF Shapes
<1>16. finalRegs = f[Len(toCome)].regs /\ finalRegs' = g[Len(w)].regs
  <2>1. finalRegs = f[Len(toCome)].regs BY <1>2, <1>5, FinalRegs
  <2>2. finalRegs' = h[Len(toCome')].regs BY <1>4, <1>8, FinalRegsNext
  <2> QED BY <1>4, <1>9, <1>17, <2>1, <2>2, Zenon
<1> QED BY <1>0, <1>14, <1>15, <1>16

LEMMA WriteStep ==
  ASSUME Shapes, NEW f, Runs(f), NEW reg \in Reg, NEW n \in Lengths, NEW x \in Int,
         I2cWrite(reg, n, x)
  PROVE  Shapes' /\ (\E h : Runs(h)') /\ Registers!Write(reg, n, x)
<1>1. n \in Nat \ {0} /\ n \in 1 .. BYTES * BYTES BY LengthsPositive
<1>2. PICK w : w = WriteScript(reg, n, x) OBVIOUS
<1>3. dpc = "idle" /\ Begin(w, <<>>) BY <1>2, Zenon DEF I2cWrite
<1>4. PICK s : s = f[Len(toCome)] OBVIOUS
<1>5. SensorShape(s) BY <1>4, Zenon DEF Runs
<1>6. /\ w \in Seq(Command) /\ Len(w) = n + 3
      /\ \A i \in 1 .. Len(w) : w[i].fn # "read" /\ (w[i].sto <=> i = Len(w))
  <2>1. \A y \in Int : LET z == WriteScript(reg, n, y) IN
          /\ z \in Seq(Command) /\ Len(z) = n + 3
          /\ \A i \in 1 .. Len(z) : z[i].fn # "read" /\ (z[i].sto <=> i = Len(z))
    BY <1>1, WriteShape
  <2> QED BY <1>2, <2>1, Zenon
<1>7. PICK g : g = WriteTrace(s, reg, n, x) OBVIOUS
<1>8. /\ Trace(g, s, w) /\ Proper(g, w)
      /\ SensorShape(g[n + 3]) /\ g[n + 3].regs = Written(s.regs, reg, n, x, n)
  <2>1. LET e == WriteTrace(s, reg, n, x)
            z == WriteScript(reg, n, x) IN
         /\ Trace(e, s, z) /\ Proper(e, z)
         /\ SensorShape(e[n + 3]) /\ e[n + 3].regs = Written(s.regs, reg, n, x, n)
    BY <1>1, <1>5, TraceOfWrite, Zenon
  <2> QED BY <1>2, <1>7, <2>1, Zenon
<1>9. Trace(g, f[Len(toCome)], w) /\ SensorShape(g[Len(w)]) BY <1>4, <1>6, <1>8, Zenon
<1>10. Len(w) \in Nat \ {0} BY <1>1, <1>6
<1>11. PICK newCall : newCall = <<>> OBVIOUS
<1>12. Begin(w, newCall) BY <1>3, <1>11
<1>13. /\ newCall = <<>>
       /\ \A i \in 1 .. Len(w) : w[i].fn # "read" /\ (w[i].sto <=> i = Len(w))
  BY <1>6, <1>11
<1>14. /\ Shapes' /\ \E h : Runs(h)'
       /\ finalRegs = f[Len(toCome)].regs /\ finalRegs' = g[Len(w)].regs /\ answer' = <<>>
  BY <1>3, <1>6, <1>8, <1>9, <1>10, <1>12, <1>13, BeginStep
<1>15. finalRegs = s.regs /\ finalRegs' = Written(s.regs, reg, n, x, n) BY <1>4, <1>6, <1>8, <1>14, Zenon
<1>16. finalRegs' = Written(finalRegs, reg, n, x, n) BY <1>15, Zenon
<1>17. \A i : byteOf(x, i, n) = Registers!ByteOf(x, i, n) BY DEF byteOf, Registers!ByteOf
<1>18. Written(finalRegs, reg, n, x, n)
       = [r \in Reg |-> IF \E i \in 1 .. n : r = Registers!At(reg, i)
                        THEN Registers!ByteOf(x, CHOOSE i \in 1 .. n : r = Registers!At(reg, i), n)
                        ELSE finalRegs[r]]
  BY <1>17, Zenon DEF Written
<1>19. Registers!Reg = Reg BY DEF Registers!Reg, Reg
<1>20. Registers!Write(reg, n, x) BY <1>14, <1>16, <1>18, <1>19, Zenon DEF Registers!Write
<1> QED BY <1>14, <1>20

LEMMA ReadStep ==
  ASSUME Shapes, NEW f, Runs(f), NEW reg \in Reg, NEW n \in Lengths, I2cRead(reg, n)
  PROVE  Shapes' /\ (\E h : Runs(h)') /\ Registers!Ask
<1>1. n \in Nat \ {0} BY LengthsPositive
<1>2. PICK w : w = ReadScript(reg, n) OBVIOUS
<1>3. dpc = "idle" /\ Begin(w, <<reg, n>>) BY <1>2, Zenon DEF I2cRead
<1>4. PICK s : s = f[Len(toCome)] OBVIOUS
<1>5. SensorShape(s) BY <1>4, Zenon DEF Runs
<1>6. /\ w \in Seq(Command) /\ Len(w) = n + 4
      /\ \A i \in 1 .. Len(w) : /\ w[i].fn = "read" <=> Len(w) - i < n
                                /\ w[i].sto <=> Len(w) - i \in {0, n + 1}
  BY <1>1, <1>2, ReadShape
<1>7. PICK g : g = ReadTrace(s, reg, n) OBVIOUS
<1>8. /\ Trace(g, s, w) /\ Proper(g, w)
      /\ SensorShape(g[n + 4]) /\ g[n + 4].regs = s.regs
      /\ \A i \in 1 .. n : g[4 + i - 1].addr = Registers!At(reg, i) /\ g[4 + i - 1].regs = s.regs
  <2>1. LET e == ReadTrace(s, reg, n)
            z == ReadScript(reg, n) IN
         /\ Trace(e, s, z) /\ Proper(e, z)
         /\ SensorShape(e[n + 4]) /\ e[n + 4].regs = s.regs
         /\ \A i \in 1 .. n : e[4 + i - 1].addr = Registers!At(reg, i) /\ e[4 + i - 1].regs = s.regs
    BY <1>1, <1>5, TraceOfRead, Zenon
  <2> QED BY <1>2, <1>7, <2>1, Zenon
<1>9. Trace(g, f[Len(toCome)], w) /\ SensorShape(g[Len(w)]) /\ g[Len(w)].regs = s.regs BY <1>4, <1>6, <1>8, Zenon
<1>10. Len(w) \in Nat \ {0} /\ ~(Len(w) <= n) BY <1>1, <1>6
<1>11. PICK newCall : newCall = <<reg, n>> OBVIOUS
<1>12. Begin(w, newCall) BY <1>3, <1>11
<1>13. ASSUME NEW i \in 1 .. Len(w)
       PROVE  /\ w[i].fn = "read" <=> Len(w) - i < n
              /\ w[i].sto <=> Len(w) - i \in {0, n + 1}
              /\ w[i].fn = "read" => /\ g[i - 1].regs = g[Len(w)].regs
                                     /\ g[i - 1].addr = Registers!At(reg, n - (Len(w) - i))
  <2>1. /\ w[i].fn = "read" <=> Len(w) - i < n
        /\ w[i].sto <=> Len(w) - i \in {0, n + 1}
    BY <1>6
  <2>2. ASSUME w[i].fn = "read"
        PROVE  g[i - 1].regs = g[Len(w)].regs /\ g[i - 1].addr = Registers!At(reg, n - (Len(w) - i))
    <3>1. PICK j : j = n - (Len(w) - i) OBVIOUS
    <3>2. Len(w) - i < n BY <2>1, <2>2
    <3>3. j \in 1 .. n /\ 4 + j - 1 = i - 1 BY <1>1, <1>6, <3>1, <3>2
    <3>4. g[4 + j - 1].addr = Registers!At(reg, j) /\ g[4 + j - 1].regs = s.regs BY <1>8, <3>3
    <3> QED BY <1>9, <3>1, <3>3, <3>4, Zenon
  <2> QED BY <2>1, <2>2
<1>14. /\ Shapes' /\ \E h : Runs(h)'
       /\ finalRegs = f[Len(toCome)].regs /\ finalRegs' = g[Len(w)].regs /\ answer' = <<>>
  <2>1. /\ newCall = <<reg, n>> /\ ~(Len(w) <= n)
        /\ \A i \in 1 .. Len(w) : /\ w[i].fn = "read" <=> Len(w) - i < n
                                  /\ w[i].sto <=> Len(w) - i \in {0, n + 1}
                                  /\ w[i].fn = "read" => /\ g[i - 1].regs = g[Len(w)].regs
                                                         /\ g[i - 1].addr = Registers!At(reg, n - (Len(w) - i))
    BY <1>10, <1>11, <1>13
  <2>2. w \in Seq(Command) /\ Len(w) \in Nat \ {0} BY <1>6, <1>10
  <2> QED BY <1>3, <1>8, <1>9, <1>12, <2>1, <2>2, BeginStep
<1>15. finalRegs' = finalRegs BY <1>4, <1>9, <1>14, Zenon
<1> QED BY <1>14, <1>15 DEF Registers!Ask

(* The number in a read's registers, and the one made of its bytes.       *)
NumberAt(held, reg, n) == Registers!NumberOf(LAMBDA i : held[Registers!At(reg, i)], n)

LEMMA SameNumber ==
  ASSUME NEW bytes, NEW n \in Nat, Len(bytes) = n, NEW held, NEW reg,
         \A i \in 1 .. n : bytes[i] = held[Registers!At(reg, i)]
  PROVE  valueOf(bytes) = NumberAt(held, reg, n)
<1> DEFINE P(f) == f = [i \in 0 .. n |-> IF i = 0 THEN 0 ELSE BYTES * f[i - 1] + bytes[i]]
           Q(f) == f = [i \in 0 .. n |-> IF i = 0 THEN 0 ELSE BYTES * f[i - 1] + held[Registers!At(reg, i)]]
<1>1. valueOf(bytes) = (CHOOSE f : P(f))[n] BY DEF valueOf
<1>2. NumberAt(held, reg, n) = (CHOOSE f : Q(f))[n] BY DEF NumberAt, Registers!NumberOf
<1>3. \A f : P(f) <=> Q(f)
  <2> TAKE f
  <2>1. \A i \in 0 .. n : i # 0 => bytes[i] = held[Registers!At(reg, i)] OBVIOUS
  <2>2. [i \in 0 .. n |-> IF i = 0 THEN 0 ELSE BYTES * f[i - 1] + bytes[i]]
        = [i \in 0 .. n |-> IF i = 0 THEN 0 ELSE BYTES * f[i - 1] + held[Registers!At(reg, i)]]
    BY <2>1
  <2> QED BY <2>2
<1>4. (CHOOSE f : P(f)) = (CHOOSE f : Q(f))
  <2> HIDE DEF P, Q
  <2> QED BY <1>3
<1> QED BY <1>1, <1>2, <1>4

LEMMA Extended ==
  ASSUME NEW S, NEW p \in Seq(S), NEW c \in S, Len(p) = 2,
         NEW t \in Seq(S), Len(t) = 3, t[1] = p[1], t[2] = p[2], t[3] = c
  PROVE  Append(p, c) = t
<1>1. PICK r : r = Append(p, c) OBVIOUS
<1>2. /\ r \in Seq(S) /\ Len(r) = Len(p) + 1
      /\ \A i \in 1 .. Len(p) : r[i] = p[i]
      /\ r[Len(p) + 1] = c
  BY <1>1, AppendProperties
<1>3. Len(r) = Len(t) BY <1>2
<1>4. \A i \in 1 .. Len(r) : r[i] = t[i] BY <1>2
<1> QED BY <1>1, <1>2, <1>3, <1>4, SeqEqual
LEMMA Third == \A a, b, c : Append(<<a, b>>, c) = <<a, b, c>>
<1> TAKE a, b, c
<1>0. PICK S : S = {a, b, c} OBVIOUS
<1>1. a \in S /\ b \in S /\ c \in S BY <1>0
<1>2. PICK p : p = <<a, b>> OBVIOUS
<1>3. PICK t : t = <<a, b, c>> OBVIOUS
<1>4. p \in Seq(S) /\ Len(p) = 2 /\ p[1] = a /\ p[2] = b BY <1>1, <1>2
<1>5. t \in Seq(S) /\ Len(t) = 3 /\ t[1] = a /\ t[2] = b /\ t[3] = c BY <1>1, <1>3
<1>6. Append(p, c) = t BY <1>1, <1>4, <1>5, Extended
<1> QED BY <1>2, <1>3, <1>6, Zenon

---------------------------------------------------------------------------
(* A call's STOP: what the call returns, when it is the last of a read.    *)
LEMMA StatusStep ==
  ASSUME Shapes, NEW f, Runs(f), StatusBusy
  PROVE  \/ UNCHANGED <<finalRegs, answer>>
         \/ \E reg \in Reg, n \in Lengths : asked = <<reg, n>> /\ Registers!Read(reg, n)
<1>1. dpc = "status" /\ slave' = slave /\ toCome' = toCome /\ Len(script) \in Nat \ {0}
  <2>1. dpc = "status" /\ slave' = slave BY DEF StatusBusy, coreVars
  <2> QED BY <2>1, StatusShapes, ScriptThere
<1>2. finalRegs' = finalRegs BY <1>1, SameFinal
<1>3. CASE Len(script) > 1 \/ asked = <<>>
  <2>1. answer' = answer BY <1>3 DEF StatusBusy
  <2> QED BY <1>2, <2>1
<1>4. CASE ~(Len(script) > 1 \/ asked = <<>>)
  <2>1. Len(script) = 1 /\ asked # <<>>
    <3> DEFINE L == Len(script)
    <3>1. ~(L > 1) /\ asked # <<>> BY <1>4, Zenon
    <3>2. L \in Nat \ {0} BY <1>1
    <3> HIDE DEF L
    <3>3. L = 1 BY <3>1, <3>2
    <3> QED BY <3>1, <3>3, Zenon DEF L
  <2>2. PICK reg \in Reg, n \in Lengths : ReadCall(reg, n) /\ n \in Nat \ {0} BY <2>1, AskedCall
  <2>3. asked = <<reg, n>> /\ Len(received) = n /\ n \in Nat BY <1>1, <2>1, <2>2 DEF ReadCall
  <2>4. Delivers(f, reg, n) BY <2>3, Zenon DEF Runs
  <2>5. finalRegs = f[Len(toCome)].regs
    <3>1. toCome \in Seq(Command) /\ Trace(f, slave, toCome) BY Together, Zenon DEF Runs
    <3> QED BY <3>1, FinalRegs
  <2>6. PICK r : r = finalRegs OBVIOUS
  <2>7. \A j \in 1 .. n : received[j] = r[Registers!At(reg, j)]
    BY <2>3, <2>4, <2>5, <2>6, Zenon DEF Delivers
  <2>8. valueOf(received) = NumberAt(r, reg, n)
    BY <2>3, <2>7, SameNumber
  <2>9. answer' = Append(asked, valueOf(received)) BY <1>4 DEF StatusBusy
  <2>10. \A x : Append(<<reg, n>>, x) = <<reg, n, x>> BY Third
  <2>11. answer' = <<reg, n, valueOf(received)>> BY <2>3, <2>9, <2>10, Zenon
  <2>12. answer' = <<reg, n, NumberAt(finalRegs, reg, n)>> BY <2>6, <2>8, <2>11, Zenon
  <2>13. Registers!Read(reg, n) BY <1>2, <2>12 DEF Registers!Read, NumberAt
  <2> QED BY <2>3, <2>13
<1> QED BY <1>3, <1>4

(* In the beginning the sensor's registers are all there is. *)
LEMMA Initially ==
  ASSUME I2cInit PROVE I2cInv /\ Registers!RegInit
<1> USE DEF I2cInit
<1> DEFINE zeros == [r \in Reg |-> 0]
<1>1. toCome = <<>> /\ toCome \in Seq(Command) /\ Len(toCome) = 0
  <2>1. toCome = (<<>> \o <<>>) \o <<>> BY Zenon DEF toCome
  <2>2. <<>> \o <<>> = <<>> /\ <<>> \in Seq(Command) BY EmptySeq
  <2>3. toCome = <<>> BY <2>1, <2>2, Zenon
  <2> QED BY <2>2, <2>3, EmptySeq
<1>2. I2cType BY EmptySeq DEF I2cType
<1>3. CallInv
  <2>1. Len(script) = 0 BY EmptySeq
  <2> QED BY <2>1 DEF CallInv, WriteCall
<1>4. QueueInv
  <2>1. Len(cmds) = 0 /\ Len(cur) = 0 /\ Len(rx) = 0 BY EmptySeq
  <2> QED BY <2>1 DEF QueueInv, NoRead
<1>5. PICK f : f = [i \in 0 .. 0 |-> slave] OBVIOUS
<1>6. f[0] = slave /\ Trace(f, slave, toCome)
  <2>1. f[0] = slave BY <1>5
  <2>2. f = [i \in 0 .. 0 |-> IF i = 0 THEN slave ELSE Perform(f[i - 1], toCome[i])] BY <1>5
  <2> QED BY <1>1, <2>1, <2>2 DEF Trace
<1>7. SensorShape(slave) /\ slave.regs = zeros
  <2>1. zeros \in [Reg -> Datum] BY DEF Datum
  <2>2. slave = Sensor("free", 0, 0, zeros) BY DEF Sensor
  <2>3. slave.dir = "free" /\ slave.index = 0 /\ slave.addr = 0 /\ slave.regs = zeros BY <2>2, SensorFields
  <2> HIDE DEF zeros
  <2> QED BY <2>1, <2>2, <2>3 DEF SensorShape
<1>8. Runs(f)
  <2>1. Proper(f, toCome) BY <1>1 DEF Proper
  <2>2. \A reg \in Reg, n \in Lengths : asked # <<reg, n>> OBVIOUS
  <2>3. SensorShape(f[Len(toCome)]) BY <1>1, <1>6, <1>7, Zenon
  <2> QED BY <1>6, <2>1, <2>2, <2>3, Zenon DEF Runs
<1>9. finalRegs = zeros BY <1>1, <1>6, <1>7, FinalRegs
<1>10. Registers!RegInit
  <2>1. zeros \in [Reg -> 0 .. BYTES - 1] BY I2cAssumption
  <2> HIDE DEF zeros
  <2> QED BY <1>9, <2>1 DEF Registers!RegInit, Registers!Reg, Registers!Octet, Reg
<1> QED BY <1>2, <1>3, <1>4, <1>8, <1>10 DEF I2cInv

RegistersStep ==
  \/ UNCHANGED <<finalRegs, answer>>
  \/ \E reg \in Reg, n \in Lengths :
       \/ I2cRead(reg, n) /\ Registers!Ask
       \/ asked = <<reg, n>> /\ StatusBusy /\ Registers!Read(reg, n)
       \/ \E value \in 0 .. BYTES^n - 1 :
            I2cWrite(reg, n, value) /\ Registers!Write(reg, n, value)

LEMMA QuietStep ==
  ASSUME Shapes, NEW f, Runs(f), Shapes', toCome' = toCome, slave' = slave, answer' = answer,
         \/ UNCHANGED <<asked, received, rx>>
         \/ asked' = asked /\ rx # <<>> /\ rx' = <<>> /\ received' = Append(received, rx[1]) /\ rx[1] \in Datum
  PROVE  I2cInv' /\ RegistersStep
<1>1. Runs(f)' BY KeepsRuns
<1>2. finalRegs' = finalRegs BY SameFinal
<1> QED BY <1>1, <1>2 DEF I2cInv, Shapes, RegistersStep

LEMMA EachStep ==
  ASSUME I2cInv, [I2cNext]_i2cVars PROVE I2cInv' /\ RegistersStep
<1>1. Shapes /\ \E f : Runs(f) BY DEF I2cInv, Shapes
<1>2. PICK f : Runs(f) BY <1>1
<1>3. ASSUME NEW reg \in Reg, NEW n \in Lengths, I2cRead(reg, n) PROVE I2cInv' /\ RegistersStep
  <2>1. Shapes' /\ (\E h : Runs(h)') /\ Registers!Ask BY <1>1, <1>2, <1>3, ReadStep
  <2> QED BY <1>3, <2>1, Zenon DEF I2cInv, Shapes, RegistersStep
<1>4. ASSUME NEW reg \in Reg, NEW n \in Lengths, NEW x \in 0 .. BYTES^n - 1, I2cWrite(reg, n, x)
      PROVE  I2cInv' /\ RegistersStep
  <2>1. x \in Int OBVIOUS
  <2>2. \A y \in Int : I2cWrite(reg, n, y) => Shapes' /\ (\E h : Runs(h)') /\ Registers!Write(reg, n, y)
    BY <1>1, <1>2, WriteStep
  <2>3. Shapes' /\ (\E h : Runs(h)') /\ Registers!Write(reg, n, x) BY <1>4, <2>1, <2>2, Zenon
  <2> QED BY <1>4, <2>3, Zenon DEF I2cInv, Shapes, RegistersStep
<1>5. CASE InitStep
  <2>1. Shapes' /\ toCome' = toCome BY <1>1, <1>5, InitShapes
  <2> QED BY <1>1, <1>2, <1>5, <2>1, QuietStep DEF InitStep
<1>6. CASE TxReady
  <2>1. Shapes' /\ toCome' = toCome BY <1>1, <1>6, TxReadyShapes
  <2> QED BY <1>1, <1>2, <1>6, <2>1, QuietStep DEF TxReady, coreVars
<1>7. CASE PutCommand
  <2>1. Shapes' /\ toCome' = toCome BY <1>1, <1>7, PutShapes
  <2>2. UNCHANGED <<asked, received, answer, rx, slave>> BY <1>7 DEF PutCommand
  <2> QED BY <1>1, <1>2, <2>1, <2>2, QuietStep
<1>8. CASE RxReady
  <2>1. /\ Shapes' /\ toCome' = toCome
        /\ rx' = <<>> /\ received' = Append(received, rx[1]) /\ rx[1] \in Datum
    BY <1>1, <1>8, RxReadyShapes
  <2>2. UNCHANGED <<asked, answer, slave>> /\ rx # <<>> BY <1>8 DEF RxReady, RX_READY
  <2> QED BY <1>1, <1>2, <2>1, <2>2, QuietStep
<1>9. CASE StatusBusy
  <2>1. Shapes' /\ toCome' = toCome BY <1>1, <1>9, StatusShapes
  <2>2. slave' = slave /\ (UNCHANGED <<asked, received, rx>> \/ asked' = <<>>)
    BY <1>9 DEF StatusBusy, coreVars
  <2>3. Runs(f)' BY <1>1, <1>2, <2>1, <2>2, KeepsRuns
  <2>4. \/ UNCHANGED <<finalRegs, answer>>
        \/ \E reg \in Reg, n \in Lengths : asked = <<reg, n>> /\ Registers!Read(reg, n)
    BY <1>1, <1>2, <1>9, StatusStep
  <2> QED BY <1>9, <2>1, <2>3, <2>4, Zenon DEF I2cInv, Shapes, RegistersStep
<1>10. CASE CoreTake
  <2>1. Shapes' /\ toCome' = toCome BY <1>1, <1>10, CoreTakeShapes
  <2> QED BY <1>1, <1>2, <1>10, <2>1, QuietStep DEF CoreTake, driverVars
<1>11. CASE CoreTransfer
  <2>1. Shapes' /\ (\E g : Runs(g)') /\ finalRegs' = finalRegs BY <1>1, <1>2, <1>11, TransferStep
  <2>2. answer' = answer BY <1>11 DEF CoreTransfer, driverVars
  <2> QED BY <2>1, <2>2, Zenon DEF I2cInv, Shapes, RegistersStep
<1>12. CASE CoreStop
  <2>1. Shapes' /\ toCome' = toCome BY <1>1, <1>12, CoreStopShapes
  <2> QED BY <1>1, <1>2, <1>12, <2>1, QuietStep DEF CoreStop, driverVars
<1>13. CASE UNCHANGED i2cVars
  <2>1. UNCHANGED <<dpc, asked, script, received, answer, enabled, cmds, cur, stopping, rx, slave>>
    BY <1>13 DEF i2cVars
  <2>2. toCome' = toCome BY <2>1, Zenon DEF toCome
  <2>3. I2cType' /\ QueueInv' BY <1>1, <2>1 DEF Shapes, I2cType, QueueInv, NoRead
  <2>4. CallInv'
    <3>1. ASSUME NEW reg, NEW n, ReadCall(reg, n) PROVE ReadCall(reg, n)' BY <2>1, <3>1 DEF ReadCall
    <3> QED BY <1>1, <2>1, <3>1 DEF Shapes, CallInv, WriteCall
  <2> QED BY <1>1, <1>2, <2>1, <2>2, <2>3, <2>4, QuietStep DEF Shapes
<1> QED BY <1>3, <1>4, <1>5, <1>6, <1>7, <1>8, <1>9, <1>10, <1>11, <1>12, <1>13, Zenon
     DEF I2cNext, I2cCall, I2cDriver, I2cCore

(***************************************************************************)
(* RegistersImplemented: every run of the driver, the core and the sensor  *)
(* is a run of the register file.  Each write takes effect at its call on  *)
(* the registers as they will be, each read returns the number its         *)
(* registers held when it was called, and no other step changes either,    *)
(* for every width of a byte, depth of the FIFO and set of lengths that    *)
(* fit the sensor's registers (VL53L1X.c 51-124, qsys_i2c.c 48-119).       *)
(***************************************************************************)
THEOREM RegistersImplemented == I2cSpec => ImplementsRegisters
<1>1. I2cInit => I2cInv /\ Registers!RegInit BY Initially
<1>2. I2cInv /\ [I2cNext]_i2cVars => I2cInv' /\ RegistersStep BY EachStep
<1>3. ImplementsRegisters <=> Registers!RegInit /\ [][RegistersStep]_i2cVars
  BY DEF ImplementsRegisters, RegistersStep
<1> QED BY <1>1, <1>2, <1>3, PTL DEF I2cSpec
=============================================================================
