-------------------------- MODULE SendSessionProofs --------------------------
(***************************************************************************)
(* Proofs about SendSession for any number of threads, lines, configs and   *)
(* repetitions and for codewords of any length.                             *)
(*                                                                          *)
(* SessionsSerialized is not inductive: it needs the lock discipline        *)
(* (LockInv).  KeyedOnlyByFault needs to know that the board's line_high    *)
(* flag agrees with the physical level of the requested line (LineInv),     *)
(* which in turn needs that only the lock holder drives a line.             *)
(* SuccessIsAWholeTransmission needs the loop invariant of send_tris()      *)
(* (AirInv).                                                                *)
(***************************************************************************)
EXTENDS SendSession, TLAPS

(* The calls that hold the lock.                                             *)
Holding(t) == pc[t] \in {"init", "high", "low", "exit", "unlock"}

LockInv == \A t \in Threads : Holding(t) <=> send_lock = t

LineInv ==
  /\ \A t \in Threads : InSession(t) => chip \in Lines
  /\ (\A t \in Threads : ~InSession(t)) => chip = NoLine
  /\ chip # NoLine => chip = parse_config(gpio_config)
  /\ \A l \in Lines : owner[l] = "us" <=> l = chip
  /\ chip \in Lines => (line_high = 1 <=> level[chip] = "high")
  /\ \A t \in Threads : pc[t] = "high" => line_high = 0
  /\ \A t \in Threads : pc[t] = "exit" /\ ret[t] = 0 => line_high = 0

SafeInv == TypeOK /\ LockInv /\ LineInv /\ KeyedOnlyByFault

Whole(w, n) == [j \in 1..n |-> Frame(w)]

AirAt(t) ==
  /\ pc[t] \in {"lock", "init", "high", "low"} => word[t] \in Words
  /\ pc[t] \in {"high", "low"} =>
       /\ rep[t] < NTIMES
       /\ pulse[t] < FrameLen(word[t])
       /\ aired.frames = Whole(word[t], rep[t])
       /\ aired.partial = [k \in 1..pulse[t] |-> Frame(word[t])[k]]
  /\ pc[t] \in {"exit", "unlock"} /\ ret[t] = 0 =>
       aired = [frames |-> Whole(word[t], NTIMES), partial |-> <<>>]

AirInv == \A t \in Threads : AirAt(t)

IInv == SafeInv /\ AirInv

-----------------------------------------------------------------------------
(* A function on 1..n is a sequence of length n.                             *)
LEMMA RowType ==
  ASSUME NEW n \in Nat
  PROVE  \A s \in [1..n -> Symbols] : s \in Seq(Symbols) /\ Len(s) = n
OBVIOUS

(* Every entry of the code tables is a non-empty sequence of tri-state       *)
(* symbols.                                                                  *)
LEMMA TableRows ==
  ASSUME NEW dev \in {REV_008345, POLLIN_2605}, NEW k \in 1..3
  PROVE  /\ Len(Tables(dev)[k]) \in Nat
         /\ \A i \in 1..Len(Tables(dev)[k]) :
              /\ Tables(dev)[k][i] \in Seq(Symbols)
              /\ Len(Tables(dev)[k][i]) >= 1
<1>. DEFINE Rows(T) == /\ Len(T) \in Nat
                       /\ \A i \in 1..Len(T) : T[i] \in Seq(Symbols) /\ Len(T[i]) >= 1
<1>1. Rows(rev_008345_groups)
  <2>1. rev_008345_groups \in [1..4 -> [1..4 -> Symbols]] /\ Len(rev_008345_groups) = 4
    BY DEF rev_008345_groups, Symbols, F, O, I
  <2>2. \A s \in [1..4 -> Symbols] : s \in Seq(Symbols) /\ Len(s) = 4
    BY RowType
  <2>3. \A i \in 1..4 : rev_008345_groups[i] \in [1..4 -> Symbols]
    BY <2>1
  <2>. QED  BY <2>1, <2>2, <2>3
<1>2. Rows(rev_008345_sockets)
  <2>1. rev_008345_sockets \in [1..3 -> [1..4 -> Symbols]] /\ Len(rev_008345_sockets) = 3
    BY DEF rev_008345_sockets, Symbols, F, O, I
  <2>2. \A s \in [1..4 -> Symbols] : s \in Seq(Symbols) /\ Len(s) = 4
    BY RowType
  <2>3. \A i \in 1..3 : rev_008345_sockets[i] \in [1..4 -> Symbols]
    BY <2>1
  <2>. QED  BY <2>1, <2>2, <2>3
<1>3. Rows(rev_008345_data)
  <2>1. rev_008345_data \in [1..2 -> [1..4 -> Symbols]] /\ Len(rev_008345_data) = 2
    BY DEF rev_008345_data, Symbols, F, O, I
  <2>2. \A s \in [1..4 -> Symbols] : s \in Seq(Symbols) /\ Len(s) = 4
    BY RowType
  <2>3. \A i \in 1..2 : rev_008345_data[i] \in [1..4 -> Symbols]
    BY <2>1
  <2>. QED  BY <2>1, <2>2, <2>3
<1>4. Rows(pollin_2605_groups)
  <2>1. pollin_2605_groups \in [1..32 -> [1..5 -> Symbols]] /\ Len(pollin_2605_groups) = 32
    BY DEF pollin_2605_groups, Symbols, F, O, I
  <2>2. \A s \in [1..5 -> Symbols] : s \in Seq(Symbols) /\ Len(s) = 5
    BY RowType
  <2>3. \A i \in 1..32 : pollin_2605_groups[i] \in [1..5 -> Symbols]
    BY <2>1
  <2>4. \A i \in 1..32 : pollin_2605_groups[i] \in Seq(Symbols) /\ Len(pollin_2605_groups[i]) = 5
    BY <2>2, <2>3, Zenon
  <2>5. Len(pollin_2605_groups) \in Nat
    BY <2>1
  <2>6. 1..Len(pollin_2605_groups) = 1..32
    BY <2>1
  <2>7. 5 >= 1
    OBVIOUS
  <2>. QED  BY <2>4, <2>5, <2>6, <2>7, Zenon
<1>5. Rows(pollin_2605_data)
  <2>1. pollin_2605_data \in [1..2 -> [1..2 -> Symbols]] /\ Len(pollin_2605_data) = 2
    BY DEF pollin_2605_data, Symbols, F, O, I
  <2>2. \A s \in [1..2 -> Symbols] : s \in Seq(Symbols) /\ Len(s) = 2
    BY RowType
  <2>3. \A i \in 1..2 : pollin_2605_data[i] \in [1..2 -> Symbols]
    BY <2>1
  <2>4. \A i \in 1..2 : pollin_2605_data[i] \in Seq(Symbols) /\ Len(pollin_2605_data[i]) = 2
    BY <2>2, <2>3
  <2>5. Len(pollin_2605_data) \in Nat
    BY <2>1
  <2>. QED  BY <2>1, <2>4, <2>5
<1>6. Tables(dev)[k] \in {rev_008345_groups, rev_008345_sockets, rev_008345_data,
                          pollin_2605_groups, pollin_2605_data}
  BY DEF Tables, REV_008345, POLLIN_2605, pollin_2605_sockets
<1>7. Rows(Tables(dev)[k])
  <2>. HIDE DEF Rows
  <2>. QED  BY <1>1, <1>2, <1>3, <1>4, <1>5, <1>6
<1>. QED  BY <1>7

(* A codeword of socket_send() or socket_send_codeword() that passed its     *)
(* check is a non-empty sequence of tri-state symbols.                       *)
LEMMA WordsType ==
  ASSUME NEW w \in Words
  PROVE  w \in Seq(Symbols) /\ Len(w) >= 1
<1>1. CASE \E a \in Addresses : address_check(a) /\ w = socket_ctrl(a)
  <2>1. PICK a \in Addresses : address_check(a) /\ w = socket_ctrl(a)
    BY <1>1
  <2>2. a \in Nat \X Nat \X Nat \X Nat
    BY ConstantsAssumption
  <2>3. a[1] \in {REV_008345, POLLIN_2605}
    BY <2>1 DEF address_check, KnownDev
  <2>4. \A k \in 1..3 : a[k + 1] + 1 \in 1..Len(Tables(a[1])[k])
    <3>1. \A k \in 1..3 : a[k + 1] \in Nat
      BY <2>2
    <3>2. \A k \in 1..3 : a[k + 1] < Len(Tables(a[1])[k])
      BY <2>1 DEF address_check, dev_limits
    <3>3. \A k \in 1..3 : Len(Tables(a[1])[k]) \in Nat
      BY <2>3, TableRows
    <3>. QED  BY <3>1, <3>2, <3>3
  <2>5. /\ Tables(a[1])[1][a[2] + 1] \in Seq(Symbols)
        /\ Tables(a[1])[2][a[3] + 1] \in Seq(Symbols)
        /\ Tables(a[1])[3][a[4] + 1] \in Seq(Symbols)
        /\ Len(Tables(a[1])[1][a[2] + 1]) >= 1
    <3>1. /\ a[2] + 1 \in 1..Len(Tables(a[1])[1])
          /\ a[3] + 1 \in 1..Len(Tables(a[1])[2])
          /\ a[4] + 1 \in 1..Len(Tables(a[1])[3])
      BY <2>4
    <3>2. \A k \in 1..3 : \A i \in 1..Len(Tables(a[1])[k]) :
            Tables(a[1])[k][i] \in Seq(Symbols) /\ Len(Tables(a[1])[k][i]) >= 1
      BY <2>3, TableRows
    <3>3. 1 \in 1..3 /\ 2 \in 1..3 /\ 3 \in 1..3
      OBVIOUS
    <3>. QED  BY <3>1, <3>2, <3>3, Zenon
  <2>6. ASSUME NEW g \in Seq(Symbols), NEW s \in Seq(Symbols),
               NEW d \in Seq(Symbols), Len(g) >= 1
        PROVE  g \o s \o d \in Seq(Symbols) /\ Len(g \o s \o d) >= 1
    BY <2>6
  <2>. QED  BY <2>1, <2>5, <2>6 DEF socket_ctrl
<1>2. CASE \E c \in RawCalls : codeword_check(c[1], c[2]) /\ w = c[1]
  BY <1>2, ConstantsAssumption
     DEF codeword_check, tristate_check, SOCKET_CODEWORD_MIN_LEN,
         SOCKET_CODEWORD_MAX_LEN
<1>. QED  BY <1>1, <1>2 DEF Words

(* One repetition: its type, its length, and the sync pulse at its end and   *)
(* nowhere else.                                                             *)
LEMMA FrameType ==
  ASSUME NEW w \in Seq(Symbols)
  PROVE  /\ FrameLen(w) \in Nat /\ FrameLen(w) >= 1
         /\ Frame(w) \in Seq(Pulses)
         /\ Len(Frame(w)) = FrameLen(w)
         /\ DOMAIN Frame(w) = 1..FrameLen(w)
         /\ \A k \in 1..FrameLen(w) :
              Frame(w)[k] \in Pulses /\ (Frame(w)[k] = Sync <=> k = FrameLen(w))
<1>1. FrameLen(w) \in Nat /\ FrameLen(w) >= 1
  BY DEF FrameLen
<1>2. ASSUME NEW k \in 1..FrameLen(w), k # FrameLen(w)
      PROVE  Frame(w)[k] \in {<<1, 3>>, <<3, 1>>}
  <2>1. (k + 1) \div 2 \in 1..Len(w)
    BY <1>2 DEF FrameLen
  <2>2. w[(k + 1) \div 2] \in Symbols
    BY <2>1
  <2>3. \A h \in {1, 2} : SymbolPulse(w[(k + 1) \div 2], h) \in {<<1, 3>>, <<3, 1>>}
    BY <2>2 DEF SymbolPulse, Symbols
  <2>. QED  BY <1>2, <2>3 DEF Frame
<1>3. Frame(w)[FrameLen(w)] = Sync
  BY <1>1 DEF Frame
<1>4. Sync \notin {<<1, 3>>, <<3, 1>>}
  BY DEF Sync
<1>5. \A k \in 1..FrameLen(w) :
        Frame(w)[k] \in Pulses /\ (Frame(w)[k] = Sync <=> k = FrameLen(w))
  BY <1>2, <1>3, <1>4 DEF Pulses
<1>6. DOMAIN Frame(w) = 1..FrameLen(w) /\ Frame(w) = [k \in 1..FrameLen(w) |-> Frame(w)[k]]
  BY DEF Frame
<1>. QED  BY <1>1, <1>5, <1>6

-----------------------------------------------------------------------------
(* The initial state satisfies the inductive invariant.                      *)
LEMMA InitIInv == Init => IInv
<1>. SUFFICES ASSUME Init PROVE IInv
  OBVIOUS
<1>1. TypeOK
  BY ConstantsAssumption DEF Init, TypeOK, PCs, Owners, Silent
<1>2. LockInv /\ LineInv /\ KeyedOnlyByFault /\ AirInv
  BY ConstantsAssumption
     DEF Init, LockInv, Holding, LineInv, InSession, KeyedOnlyByFault, AirInv, AirAt
<1>. QED  BY <1>1, <1>2 DEF IInv, SafeInv

(* While one thread holds the lock, what the others know of the air does not *)
(* change: they are idle or wait.                                            *)
LEMMA OthersAir ==
  ASSUME TypeOK, LockInv, AirInv, NEW t \in Threads, Holding(t),
         NEW s \in Threads \ {t}, pc'[s] = pc[s], word'[s] = word[s]
  PROVE  AirAt(s)'
<1>1. pc[s] \in {"idle", "lock", "config"}
  BY DEF TypeOK, PCs, LockInv, Holding
<1>2. pc[s] = "lock" => word[s] \in Words
  BY DEF AirInv, AirAt
<1>. QED  BY <1>1, <1>2 DEF AirAt

(* A send with valid arguments that goes on to the lock preserves it.        *)
LEMMA Step_Proceed ==
  ASSUME IInv, NEW t \in Threads, pc[t] = "idle", NEW w \in Words, Proceed(t, w),
         UNCHANGED <<libVars, boardVars, lineVars, histVars, config, rep, pulse>>
  PROVE  IInv'
<1>. USE ConstantsAssumption DEF IInv, SafeInv, libVars, boardVars, callVars, lineVars, histVars
<1>1. TypeOK'
  BY DEF Proceed, TypeOK, PCs
<1>2. LockInv'
  BY DEF Proceed, TypeOK, LockInv, Holding
<1>3. LineInv'
  BY DEF Proceed, TypeOK, LineInv, InSession, parse_config
<1>4. KeyedOnlyByFault'
  BY DEF KeyedOnlyByFault
<1>5. AirInv'
  BY DEF Proceed, TypeOK, AirInv, AirAt
<1>. QED  BY <1>1, <1>2, <1>3, <1>4, <1>5

(* A refused call changes the return value of its thread only.               *)
LEMMA Step_Refuse ==
  ASSUME IInv, NEW t \in Threads, pc[t] = "idle", Refuse(t),
         UNCHANGED <<libVars, boardVars, lineVars, histVars, config, rep, pulse>>
  PROVE  IInv'
<1>. USE ConstantsAssumption DEF IInv, SafeInv, libVars, boardVars, callVars, lineVars, histVars
<1>1. TypeOK'
  BY DEF Refuse, TypeOK, PCs
<1>2. LockInv'
  BY DEF Refuse, TypeOK, LockInv, Holding
<1>3. LineInv'
  BY DEF Refuse, TypeOK, LineInv, InSession, parse_config
<1>4. KeyedOnlyByFault'
  BY DEF KeyedOnlyByFault
<1>5. AirInv'
  BY DEF Refuse, TypeOK, AirInv, AirAt
<1>. QED  BY <1>1, <1>2, <1>3, <1>4, <1>5

(* socket_send() preserves the invariant.                                    *)
LEMMA Step_socket_send ==
  ASSUME IInv, NEW t \in Threads, socket_send(t)
  PROVE  IInv'
<1>1. CASE \E w \in Words : Proceed(t, w)
  BY <1>1, Step_Proceed DEF socket_send
<1>2. CASE Refuse(t)
  BY <1>2, Step_Refuse DEF socket_send
<1>. QED  BY <1>1, <1>2 DEF socket_send, Words

(* socket_send_codeword() preserves the invariant.                           *)
LEMMA Step_socket_send_codeword ==
  ASSUME IInv, NEW t \in Threads, socket_send_codeword(t)
  PROVE  IInv'
<1>1. CASE \E w \in Words : Proceed(t, w)
  BY <1>1, Step_Proceed DEF socket_send_codeword
<1>2. CASE Refuse(t)
  BY <1>2, Step_Refuse DEF socket_send_codeword
<1>. QED  BY <1>1, <1>2 DEF socket_send_codeword, Words

(* Taking the lock preserves the invariant: nobody else holds it.            *)
LEMMA Step_Lock ==
  ASSUME IInv, NEW t \in Threads, Lock(t)
  PROVE  IInv'
<1>. USE ConstantsAssumption DEF IInv, SafeInv, libVars, boardVars, callVars, lineVars, histVars
<1>1. TypeOK'
  BY DEF Lock, TypeOK, PCs, Owners
<1>2. LockInv'
  BY DEF Lock, TypeOK, LockInv, Holding
<1>3. LineInv'
  BY DEF Lock, TypeOK, LockInv, Holding, LineInv, InSession, parse_config
<1>4. KeyedOnlyByFault'
  BY DEF Lock, TypeOK, LockInv, Holding, LineInv, InSession, KeyedOnlyByFault
<1>5. AirInv'
  BY DEF Lock, TypeOK, LockInv, Holding, AirInv, AirAt
<1>. QED  BY <1>1, <1>2, <1>3, <1>4, <1>5

(* A call that cannot have the lock ends where it began.                     *)
LEMMA Step_LockFails ==
  ASSUME IInv, NEW t \in Threads, LockFails(t)
  PROVE  IInv'
<1>. USE ConstantsAssumption DEF IInv, SafeInv, libVars, boardVars, callVars, lineVars, histVars
<1>1. TypeOK'
  BY DEF LockFails, TypeOK, PCs, Owners
<1>2. LockInv'
  BY DEF LockFails, TypeOK, LockInv, Holding
<1>3. LineInv'
  BY DEF LockFails, TypeOK, LockInv, Holding, LineInv, InSession, parse_config
<1>4. KeyedOnlyByFault'
  BY DEF LockFails, TypeOK, LockInv, Holding, LineInv, InSession, KeyedOnlyByFault
<1>5. AirInv'
  BY DEF LockFails, TypeOK, LockInv, Holding, AirInv, AirAt
<1>. QED  BY <1>1, <1>2, <1>3, <1>4, <1>5

(* board_init() starts a session with a low line and a silent air.           *)
LEMMA Step_BoardInit ==
  ASSUME IInv, NEW t \in Threads, BoardInit(t)
  PROVE  IInv'
<1>. USE ConstantsAssumption DEF IInv, SafeInv, libVars, boardVars, callVars, lineVars, histVars
<1>1. TypeOK'
  <2>1. parse_config(gpio_config) \in Lines
    BY DEF BoardInit, TypeOK, parse_config
  <2>. QED  BY <2>1 DEF BoardInit, TypeOK, PCs, Owners, Silent
<1>2. LockInv'
  BY DEF BoardInit, TypeOK, LockInv, Holding
<1>3. LineInv'
  BY DEF BoardInit, TypeOK, LockInv, Holding, LineInv, InSession, parse_config
<1>4. KeyedOnlyByFault'
  BY DEF BoardInit, TypeOK, KeyedOnlyByFault
<1>5. AirInv'
  <2>1. word[t] \in Words
    BY DEF BoardInit, AirInv, AirAt
  <2>2. FrameLen(word[t]) \in Nat /\ FrameLen(word[t]) >= 1
    BY <2>1, WordsType, FrameType
  <2>3. Silent.frames = Whole(word[t], 0) /\ Silent.partial = [k \in 1..0 |-> Frame(word[t])[k]]
    BY DEF Silent, Whole
  <2>4. /\ rep'[t] = 0 /\ pulse'[t] = 0 /\ word' = word /\ aired' = Silent
        /\ pc'[t] = "high"
    BY DEF BoardInit, TypeOK
  <2>5. AirAt(t)'
    BY <2>1, <2>2, <2>3, <2>4 DEF AirAt
  <2>6. \A s \in Threads \ {t} : pc'[s] = pc[s] /\ word'[s] = word[s]
    BY DEF BoardInit, TypeOK
  <2>. QED  BY <2>5, <2>6, OthersAir DEF BoardInit, AirInv, Holding
<1>. QED  BY <1>1, <1>2, <1>3, <1>4, <1>5

(* A failed board_init() leaves no line requested.                           *)
LEMMA Step_BoardInitFails ==
  ASSUME IInv, NEW t \in Threads, BoardInitFails(t)
  PROVE  IInv'
<1>. USE ConstantsAssumption DEF IInv, SafeInv, libVars, boardVars, callVars, lineVars, histVars
<1>1. TypeOK'
  BY DEF BoardInitFails, TypeOK, PCs, Owners
<1>2. LockInv'
  BY DEF BoardInitFails, TypeOK, LockInv, Holding
<1>3. LineInv'
  BY DEF BoardInitFails, TypeOK, LockInv, Holding, LineInv, InSession, parse_config
<1>4. KeyedOnlyByFault'
  BY DEF BoardInitFails, TypeOK, LockInv, Holding, LineInv, InSession, KeyedOnlyByFault
<1>5. AirInv'
  BY DEF BoardInitFails, TypeOK, LockInv, Holding, AirInv, AirAt
<1>. QED  BY <1>1, <1>2, <1>3, <1>4, <1>5

(* The high write of transmit() preserves the invariant.                     *)
LEMMA Step_TransmitHigh ==
  ASSUME IInv, NEW t \in Threads, TransmitHigh(t)
  PROVE  IInv'
<1>. USE ConstantsAssumption DEF IInv, SafeInv, libVars, boardVars, callVars, lineVars, histVars
<1>1. TypeOK'
  BY DEF TransmitHigh, TypeOK, PCs, Owners
<1>2. LockInv'
  BY DEF TransmitHigh, TypeOK, LockInv, Holding
<1>3. LineInv'
  <2>1. \A s \in Threads \ {t} : pc'[s] = pc[s] /\ ret'[s] = ret[s] /\ ~InSession(s)
    BY DEF TransmitHigh, TypeOK, LockInv, Holding, InSession
  <2>2. line_high = 0 /\ chip \in Lines /\ level[chip] # "high"
    BY DEF TransmitHigh, TypeOK, LineInv
  <2>3. CASE pc'[t] = "low"
    BY <2>1, <2>2, <2>3 DEF TransmitHigh, TypeOK, LineInv, InSession, parse_config
  <2>4. CASE pc'[t] = "exit"
    BY <2>1, <2>2, <2>4 DEF TransmitHigh, TypeOK, LineInv, InSession, parse_config
  <2>. QED  BY <2>3, <2>4 DEF TransmitHigh, TypeOK
<1>4. KeyedOnlyByFault'
  BY DEF TransmitHigh, TypeOK, LineInv, KeyedOnlyByFault
<1>5. AirInv'
  BY DEF TransmitHigh, TypeOK, LockInv, Holding, AirInv, AirAt
<1>. QED  BY <1>1, <1>2, <1>3, <1>4, <1>5

(* The low write of transmit(): one more pulse of the frame is on the air.   *)
LEMMA Step_TransmitLow ==
  ASSUME IInv, NEW t \in Threads, TransmitLow(t)
  PROVE  IInv'
<1>. USE ConstantsAssumption DEF IInv, SafeInv, libVars, boardVars, callVars, lineVars, histVars
<1>. DEFINE w == word[t]
            n == rep[t]
            p == pulse[t]
            f == Frame(w)
<1>1. /\ w \in Words /\ w \in Seq(Symbols)
      /\ n \in Nat /\ n < NTIMES /\ p \in Nat /\ p < FrameLen(w)
      /\ aired.frames = Whole(w, n)
      /\ aired.partial = [k \in 1..p |-> f[k]]
  BY WordsType DEF TransmitLow, TypeOK, AirInv, AirAt
<1>2. /\ FrameLen(w) \in Nat
      /\ f \in Seq(Pulses) /\ Len(f) = FrameLen(w)
      /\ f[p + 1] \in Pulses
      /\ f[p + 1] = Sync <=> p + 1 = FrameLen(w)
  BY <1>1, FrameType
<1>3. Append(aired.partial, f[p + 1]) = [k \in 1..(p + 1) |-> f[k]]
  BY <1>1, <1>2
<1>4. aired' \in [frames : Seq(Seq(Pulses)), partial : Seq(Pulses)]
  <2>1. CASE f[p + 1] = Sync
    BY <1>2, <2>1 DEF TransmitLow, Aired, TypeOK
  <2>2. CASE f[p + 1] # Sync
    <3>1. aired' = [aired EXCEPT !.partial = Append(@, f[p + 1])]
      BY <2>2 DEF TransmitLow, Aired
    <3>2. Append(aired.partial, f[p + 1]) \in Seq(Pulses)
      BY <1>2 DEF TypeOK
    <3>. QED  BY <3>1, <3>2 DEF TypeOK
  <2>. QED  BY <2>1, <2>2
<1>5. pc'[t] \in {"high", "exit"} /\ pc' = [pc EXCEPT ![t] = pc'[t]]
  BY DEF TransmitLow, Advance, TypeOK
<1>6. \A s \in Threads \ {t} : pc'[s] = pc[s] /\ ret'[s] = ret[s] /\ word'[s] = word[s]
  BY DEF TransmitLow, Advance, TypeOK
<1>7. TypeOK'
  <2>1. pc' \in [Threads -> PCs]
    BY <1>5 DEF TypeOK, PCs
  <2>2. ret' \in [Threads -> {0, -1}]
    BY DEF TransmitLow, Advance, TypeOK
  <2>3. pulse' \in [Threads -> Nat]
    <3>1. pulse' = [pulse EXCEPT ![t] = p + 1] \/ pulse' = [pulse EXCEPT ![t] = 0]
      BY DEF TransmitLow, Advance
    <3>2. pulse \in [Threads -> Nat] /\ p + 1 \in Nat
      BY <1>1 DEF TypeOK
    <3>. QED  BY <3>1, <3>2
  <2>4. n + 1 \in 0..NTIMES
    BY <1>1
  <2>5. rep' \in [Threads -> 0..NTIMES]
    BY <2>4 DEF TransmitLow, Advance, TypeOK
  <2>. QED  BY <1>4, <2>1, <2>2, <2>3, <2>5 DEF TransmitLow, TypeOK
<1>8. LockInv'
  BY <1>5 DEF TransmitLow, TypeOK, LockInv, Holding
<1>9. LineInv'
  BY <1>5, <1>6 DEF TransmitLow, TypeOK, LockInv, Holding, LineInv, InSession, parse_config
<1>10. KeyedOnlyByFault'
  BY DEF TransmitLow, TypeOK, KeyedOnlyByFault
<1>11. AirInv'
  <2>1. ASSUME p + 1 < FrameLen(w) PROVE AirAt(t)'
    <3>1. /\ aired'.frames = Whole(w, n)
          /\ aired'.partial = [k \in 1..(p + 1) |-> f[k]]
      BY <1>1, <1>2, <1>3, <2>1 DEF TransmitLow, Aired, TypeOK
    <3>2. pc'[t] = "high" /\ pulse'[t] = p + 1 /\ rep'[t] = n /\ word'[t] = w
      BY <1>1, <1>2, <2>1 DEF TransmitLow, Advance, TypeOK
    <3>. QED  BY <1>1, <2>1, <3>1, <3>2 DEF AirAt
  <2>2. ASSUME p + 1 = FrameLen(w) PROVE AirAt(t)'
    <3>1. Append(aired.partial, f[p + 1]) = f
      BY <1>2, <1>3, <2>2, FrameType, <1>1
    <3>2. aired' = [frames |-> Whole(w, n + 1), partial |-> <<>>]
      <4>1. Append(Whole(w, n), f) = Whole(w, n + 1)
        BY <1>1 DEF Whole
      <4>. QED  BY <1>1, <1>2, <2>2, <3>1, <4>1 DEF TransmitLow, Aired
    <3>3. pulse'[t] = 0 /\ rep'[t] = n + 1 /\ word'[t] = w
      BY <1>1, <1>2, <2>2 DEF TransmitLow, Advance, TypeOK
    <3>4. CASE n + 1 < NTIMES
      <4>1. pc'[t] = "high"
        BY <1>1, <1>2, <2>2, <3>4 DEF TransmitLow, Advance, TypeOK
      <4>2. aired'.frames = Whole(w, n + 1) /\ aired'.partial = [k \in 1..0 |-> f[k]]
        BY <3>2
      <4>. QED  BY <1>1, <1>2, <2>2, <3>3, <3>4, <4>1, <4>2 DEF AirAt
    <3>5. CASE n + 1 = NTIMES
      <4>1. pc'[t] = "exit"
        BY <1>1, <1>2, <2>2, <3>5 DEF TransmitLow, Advance, TypeOK
      <4>. QED  BY <3>2, <3>3, <3>5, <4>1 DEF AirAt
    <3>. QED  BY <1>1, <3>4, <3>5
  <2>3. AirAt(t)'
    BY <1>1, <1>2, <2>1, <2>2
  <2>. QED  BY <1>6, <2>3, OthersAir DEF TransmitLow, AirInv, Holding
<1>. QED  BY <1>7, <1>8, <1>9, <1>10, <1>11

(* A failed low write leaves line_high set, for board_exit().                *)
LEMMA Step_TransmitLowFails ==
  ASSUME IInv, NEW t \in Threads, TransmitLowFails(t)
  PROVE  IInv'
<1>. USE ConstantsAssumption DEF IInv, SafeInv, libVars, boardVars, callVars, lineVars, histVars
<1>1. TypeOK'
  BY DEF TransmitLowFails, TypeOK, PCs, Owners
<1>2. LockInv'
  BY DEF TransmitLowFails, TypeOK, LockInv, Holding
<1>3. LineInv'
  BY DEF TransmitLowFails, TypeOK, LockInv, Holding, LineInv, InSession, parse_config
<1>4. KeyedOnlyByFault'
  BY DEF TransmitLowFails, TypeOK, LockInv, Holding, LineInv, InSession, KeyedOnlyByFault
<1>5. AirInv'
  BY DEF TransmitLowFails, TypeOK, LockInv, Holding, AirInv, AirAt
<1>. QED  BY <1>1, <1>2, <1>3, <1>4, <1>5

(* board_exit() releases the line, low or blamed.                            *)
LEMMA Step_BoardExit ==
  ASSUME IInv, NEW t \in Threads, BoardExit(t)
  PROVE  IInv'
<1>. USE ConstantsAssumption DEF IInv, SafeInv, libVars, boardVars, callVars, lineVars, histVars
<1>1. TypeOK'
  BY DEF BoardExit, TypeOK, PCs, Owners
<1>2. LockInv'
  BY DEF BoardExit, TypeOK, LockInv, Holding
<1>3. LineInv'
  BY DEF BoardExit, TypeOK, LockInv, Holding, LineInv, InSession, parse_config
<1>4. KeyedOnlyByFault'
  BY DEF BoardExit, TypeOK, LockInv, Holding, LineInv, InSession, KeyedOnlyByFault
<1>5. AirInv'
  BY DEF BoardExit, TypeOK, LockInv, Holding, AirInv, AirAt
<1>. QED  BY <1>1, <1>2, <1>3, <1>4, <1>5

(* Giving the lock back preserves the invariant.                             *)
LEMMA Step_Unlock ==
  ASSUME IInv, NEW t \in Threads, Unlock(t)
  PROVE  IInv'
<1>. USE ConstantsAssumption DEF IInv, SafeInv, libVars, boardVars, callVars, lineVars, histVars
<1>1. TypeOK'
  BY DEF Unlock, TypeOK, PCs, Owners, Silent
<1>2. LockInv'
  BY DEF Unlock, TypeOK, LockInv, Holding, Silent
<1>3. LineInv'
  BY DEF Unlock, TypeOK, LockInv, Holding, LineInv, InSession, parse_config, Silent
<1>4. KeyedOnlyByFault'
  BY DEF Unlock, TypeOK, LockInv, Holding, LineInv, InSession, KeyedOnlyByFault, Silent
<1>5. AirInv'
  BY DEF Unlock, TypeOK, LockInv, Holding, AirInv, AirAt, Silent
<1>. QED  BY <1>1, <1>2, <1>3, <1>4, <1>5

(* A call of socket_gpio_config() preserves the invariant.                   *)
LEMMA Step_socket_gpio_config ==
  ASSUME IInv, NEW t \in Threads, socket_gpio_config(t)
  PROVE  IInv'
<1>. USE ConstantsAssumption DEF IInv, SafeInv, libVars, boardVars, callVars, lineVars, histVars
<1>1. TypeOK'
  BY DEF socket_gpio_config, TypeOK, PCs, Owners
<1>2. LockInv'
  BY DEF socket_gpio_config, TypeOK, LockInv, Holding
<1>3. LineInv'
  BY DEF socket_gpio_config, TypeOK, LockInv, Holding, LineInv, InSession, parse_config
<1>4. KeyedOnlyByFault'
  BY DEF socket_gpio_config, TypeOK, LockInv, Holding, LineInv, InSession, KeyedOnlyByFault
<1>5. AirInv'
  BY DEF socket_gpio_config, TypeOK, LockInv, Holding, AirInv, AirAt
<1>. QED  BY <1>1, <1>2, <1>3, <1>4, <1>5

(* The stored config changes only while no session is open.                  *)
LEMMA Step_StoreConfig ==
  ASSUME IInv, NEW t \in Threads, StoreConfig(t)
  PROVE  IInv'
<1>. USE ConstantsAssumption DEF IInv, SafeInv, libVars, boardVars, callVars, lineVars, histVars
<1>1. TypeOK'
  BY DEF StoreConfig, TypeOK, PCs, Owners
<1>2. LockInv'
  BY DEF StoreConfig, TypeOK, LockInv, Holding
<1>3. LineInv'
  BY DEF StoreConfig, TypeOK, LockInv, Holding, LineInv, InSession, parse_config
<1>4. KeyedOnlyByFault'
  BY DEF StoreConfig, TypeOK, LockInv, Holding, LineInv, InSession, KeyedOnlyByFault
<1>5. AirInv'
  BY DEF StoreConfig, TypeOK, LockInv, Holding, AirInv, AirAt
<1>. QED  BY <1>1, <1>2, <1>3, <1>4, <1>5

(* A restart of the process preserves it.                                    *)
LEMMA Step_Restart ==
  ASSUME IInv, Restart
  PROVE  IInv'
<1>. USE ConstantsAssumption DEF IInv, SafeInv, libVars, boardVars, callVars, lineVars, histVars
<1>1. TypeOK'
  BY DEF Restart, TypeOK, PCs, Owners, Silent
<1>2. LockInv' /\ AirInv'
  BY DEF Restart, LockInv, Holding, AirInv, AirAt
<1>3. LineInv'
  BY DEF Restart, TypeOK, LineInv, InSession
<1>4. KeyedOnlyByFault'
  BY DEF Restart, TypeOK, KeyedOnlyByFault
<1>. QED  BY <1>1, <1>2, <1>3, <1>4

(* Another process that takes or leaves a line preserves the invariant.      *)
LEMMA Step_Other ==
  ASSUME IInv, NEW l \in Lines, OtherTakes(l) \/ OtherLeaves(l)
  PROVE  IInv'
<1>. USE ConstantsAssumption DEF IInv, SafeInv, libVars, boardVars, callVars, lineVars, histVars
<1>1. TypeOK'
  <2>1. CASE OtherTakes(l)
    BY <2>1 DEF OtherTakes, TypeOK, Owners
  <2>2. CASE OtherLeaves(l)
    BY <2>2 DEF OtherLeaves, TypeOK, Owners
  <2>. QED  BY <2>1, <2>2
<1>2. LockInv' /\ AirInv'
  <2>1. UNCHANGED <<send_lock, pc, word, rep, pulse, ret, aired>>
    BY DEF OtherTakes, OtherLeaves
  <2>. QED  BY <2>1 DEF LockInv, Holding, AirInv, AirAt
<1>3. LineInv'
  <2>1. UNCHANGED <<chip, line_high, pc, ret, gpio_config>>
    BY DEF OtherTakes, OtherLeaves
  <2>2. l # chip
    BY DEF OtherTakes, OtherLeaves, TypeOK, LineInv
  <2>3. \A m \in Lines : owner'[m] = "us" <=> owner[m] = "us"
    BY DEF OtherTakes, OtherLeaves, TypeOK
  <2>4. chip \in Lines => level'[chip] = level[chip]
    BY <2>2 DEF OtherTakes, OtherLeaves, TypeOK
  <2>. QED  BY <2>1, <2>3, <2>4 DEF LineInv, InSession, parse_config
<1>4. KeyedOnlyByFault'
  BY DEF OtherTakes, OtherLeaves, TypeOK, KeyedOnlyByFault
<1>. QED  BY <1>1, <1>2, <1>3, <1>4

(* IInv is inductive.                                                        *)
LEMMA NextIInv == IInv /\ [Next]_vars => IInv'
<1>. SUFFICES ASSUME IInv, [Next]_vars PROVE IInv'
  OBVIOUS
<1>1. ASSUME NEW t \in Threads, Call(t) \/ Lock(t) \/ LockFails(t) \/ StoreConfig(t)
      PROVE  IInv'
  BY <1>1, Step_socket_send, Step_socket_send_codeword, Step_socket_gpio_config,
     Step_Lock, Step_LockFails, Step_StoreConfig DEF Call
<1>2. ASSUME NEW t \in Threads, HolderStep(t)
      PROVE  IInv'
  BY <1>2, Step_BoardInit, Step_BoardInitFails, Step_TransmitHigh,
     Step_TransmitLow, Step_TransmitLowFails, Step_BoardExit, Step_Unlock
     DEF HolderStep
<1>3. CASE Restart
  BY <1>3, Step_Restart
<1>4. ASSUME NEW l \in Lines, OtherTakes(l) \/ OtherLeaves(l)
      PROVE  IInv'
  BY <1>4, Step_Other
<1>5. CASE UNCHANGED vars
  BY <1>5 DEF vars, libVars, boardVars, callVars, lineVars, histVars, IInv,
     SafeInv, TypeOK, LockInv, Holding, LineInv, InSession, KeyedOnlyByFault,
     AirInv, AirAt
<1>. QED  BY <1>1, <1>2, <1>3, <1>4, <1>5 DEF Next

(* IInv is an invariant of the specification.                                *)
LEMMA SpecIInv == Spec => []IInv
BY InitIInv, NextIInv, PTL DEF Spec

-----------------------------------------------------------------------------
(* Type correctness of the send sessions: among others, every repetition     *)
(* that is put on the air consists of pulses that transmit() is called with, *)
(* and no send makes more than NTIMES repetitions.                           *)
THEOREM TypeCorrect == Spec => []TypeOK
<1>1. IInv => TypeOK
  BY DEF IInv, SafeInv
<1>. QED  BY <1>1, SpecIInv, PTL

(* The sessions of all threads are serialized, for any number of threads.    *)
THEOREM Serialization == Spec => []SessionsSerialized
<1>1. IInv => SessionsSerialized
  BY DEF IInv, SafeInv, LockInv, Holding, SessionsSerialized, InSession
<1>. QED  BY <1>1, SpecIInv, PTL

(* No sequence of failing writes leaves a released line high unless the low  *)
(* write of board_exit() itself failed or a process was killed.              *)
THEOREM NotKeyed == Spec => []KeyedOnlyByFault
<1>1. IInv => KeyedOnlyByFault
  BY DEF IInv, SafeInv
<1>. QED  BY <1>1, SpecIInv, PTL

(* A send that returns 0 has put NTIMES whole repetitions of its codeword on *)
(* the air and nothing else, for any codeword and any NTIMES.                *)
THEOREM SuccessfulSend == Spec => []SuccessIsAWholeTransmission
<1>1. IInv => SuccessIsAWholeTransmission
  BY DEF IInv, AirInv, AirAt, Whole, SuccessIsAWholeTransmission
<1>. QED  BY <1>1, SpecIInv, PTL

(* Whatever is written between board_init() and board_exit() goes to the     *)
(* line that was configured when the session began.                          *)
THEOREM LineDiscipline == Spec => []SessionDrivesTheConfiguredLine
<1>1. IInv => SessionDrivesTheConfiguredLine
  BY ConstantsAssumption
     DEF IInv, SafeInv, TypeOK, LineInv, InSession, SessionDrivesTheConfiguredLine
<1>. QED  BY <1>1, SpecIInv, PTL

(* The process holds no line outside a session: every path out of a send,    *)
(* and out of a failed board_init(), has released it.                        *)
THEOREM LineReleased == Spec => []LineHeldOnlyInSession
<1>1. IInv => LineHeldOnlyInSession
  BY ConstantsAssumption
     DEF IInv, SafeInv, TypeOK, LineInv, InSession, LineHeldOnlyInSession
<1>. QED  BY <1>1, SpecIInv, PTL
=============================================================================
