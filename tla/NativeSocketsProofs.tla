------------------------- MODULE NativeSocketsProofs -------------------------
(***************************************************************************)
(* Theorems about NativeSockets, for every set of descriptors, every size  *)
(* of the buffer and every number of datagrams.                            *)
(***************************************************************************)
EXTENDS NativeSockets, SequenceTheorems, FiniteSetTheorems, NaturalsInduction,
        WellFoundedInduction, TLAPS

Failure == {"nosocket, -1", "port", "nosocket, 0", "bind"}

Typed ==
    /\ server_socket \in Int
    /\ thread \in BOOLEAN
    /\ open \subseteq Fd /\ IsFiniteSet(open)
    /\ sender.fd = -1 \/ sender.fd \in open
    /\ failed \in Seq(Failure)

\* The starts that left a descriptor open
Leaked == {i \in DOMAIN failed : failed[i] \in {"port", "bind"}}

SocketInv == Typed /\ OneServer /\ FdsAccounted

\* A byte of the buffer holds the number of the last datagram that reached it,
\* or NUL if that one had a NUL there or if there is none.
BufferInv ==
    /\ received \in Seq(Datagram)
    /\ \A i \in 1 .. SERVER_BUFFER_SIZE : LastToReach(i) \in 0 .. Len(received)
    /\ server_buffer = [i \in 1 .. SERVER_BUFFER_SIZE |-> IF IsText(i) THEN LastToReach(i) ELSE NUL]
    /\ received # <<>> => printed = Printed(server_buffer)

----------------------------------------------------------------------------
(* Descriptors *)

LEMMA LeakedFinite ==
    ASSUME failed \in Seq(Failure)
    PROVE  /\ DOMAIN failed = 1 .. Len(failed) /\ Len(failed) \in Nat
           /\ IsFiniteSet(Leaked) /\ Cardinality(Leaked) \in Nat
<1>1. DOMAIN failed = 1 .. Len(failed) /\ Len(failed) \in Nat
  BY LenProperties
<1>2. IsFiniteSet(1 .. Len(failed))
  BY <1>1, FS_Interval
<1>3. Leaked \in SUBSET (1 .. Len(failed))
  BY <1>1 DEF Leaked
<1>4. IsFiniteSet(Leaked)
  BY <1>2, <1>3, FS_Subset
<1> QED
  BY <1>1, <1>4, FS_CardinalityType

\* One more failed start.
LEMMA OneMoreFailed ==
    ASSUME failed \in Seq(Failure), NEW f \in Failure, failed' = Append(failed, f)
    PROVE  /\ failed' \in Seq(Failure)
           /\ Cardinality(Leaked') = Cardinality(Leaked) + (IF f \in {"port", "bind"} THEN 1 ELSE 0)
           /\ \E i \in DOMAIN failed' : failed'[i] = f
<1>1. PICK n : n = Len(failed)
  OBVIOUS
<1>2. n \in Nat /\ DOMAIN failed = 1 .. n /\ IsFiniteSet(Leaked) /\ Cardinality(Leaked) \in Nat
  BY <1>1, LeakedFinite
<1>3. /\ failed' \in Seq(Failure) /\ DOMAIN failed' = 1 .. n + 1
      /\ \A k \in 1 .. n : failed'[k] = failed[k]
      /\ failed'[n + 1] = f
  BY <1>1, AppendProperties, LenProperties
<1>4. /\ \A k \in 1 .. n + 1 : k \in 1 .. n \/ k = n + 1
      /\ \A k \in 1 .. n : k \in 1 .. n + 1
      /\ n + 1 \in 1 .. n + 1 /\ n + 1 \notin 1 .. n
  BY <1>2
<1>5. CASE f \in {"port", "bind"}
  <2>1. Leaked' = Leaked \cup {n + 1}
    BY <1>2, <1>3, <1>4, <1>5 DEF Leaked
  <2>2. n + 1 \notin Leaked
    BY <1>2, <1>4 DEF Leaked
  <2>3. Cardinality(Leaked') = Cardinality(Leaked) + 1
    BY <1>2, <2>1, <2>2, FS_AddElement
  <2> QED
    BY <1>3, <1>4, <1>5, <2>3
<1>6. CASE f \notin {"port", "bind"}
  <2>1. Leaked' = Leaked
    BY <1>2, <1>3, <1>4, <1>6 DEF Leaked
  <2> QED
    BY <1>2, <1>3, <1>4, <1>6, <2>1
<1> QED
  BY <1>5, <1>6

\* Opening and closing a descriptor.
LEMMA OpenClose ==
    ASSUME IsFiniteSet(open), NEW s
    PROVE  /\ Cardinality(open) \in Nat
           /\ IsFiniteSet(open \cup {s}) /\ IsFiniteSet(open \ {s})
           /\ s \notin open => Cardinality(open \cup {s}) = Cardinality(open) + 1
           /\ s \in open => Cardinality(open \ {s}) = Cardinality(open) - 1
  BY FS_CardinalityType, FS_AddElement, FS_RemoveElement

\* SocketInv is inductive.
LEMMA SocketStep ==
    ASSUME SocketInv, [Next]_vars
    PROVE  SocketInv'
<1> USE NativeAssumption DEF SocketInv
<1> DEFINE held == (IF thread THEN 1 ELSE 0) + (IF ShellRuns THEN 0 ELSE 1)
<1>0. /\ Typed /\ OneServer /\ Cardinality(open) = held + Cardinality(Leaked)
      /\ Cardinality(Leaked) \in Nat /\ Cardinality(open) \in Nat /\ held \in Nat
  BY LeakedFinite, FS_CardinalityType DEF FdsAccounted, Leaked, Typed
<1>1. \A s \in Fd : s \in Nat /\ s >= 3 /\ s # -1
  OBVIOUS
<1>2. CASE udp_start_server
  <2>1. PICK s \in socket : _server_thread(s)
    BY <1>2 DEF udp_start_server
  <2>2. /\ ~thread /\ sender.fd = -1 /\ ShellRuns
        /\ ~clobbered' /\ sender' = sender /\ ShellRuns'
    <3>1. server_socket < 0 /\ clobbered' = thread /\ sender' = sender /\ sender.fd = -1
      BY <1>2 DEF udp_start_server, ShellRuns
    <3>2. ~thread
      <4>1. ASSUME thread PROVE server_socket \in Fd
        BY <1>0, <4>1 DEF OneServer, Typed
      <4>2. server_socket \notin Fd
        <5>1. \A n : n \in Nat => ~(n < 0)
          OBVIOUS
        <5>2. server_socket < 0 /\ (server_socket \in Fd => server_socket \in Nat)
          BY <1>1, <3>1, Zenon
        <5> QED
          BY <5>1, <5>2, Zenon
      <4> QED
        BY <4>1, <4>2, Zenon
    <3>3. ~clobbered'
      BY <3>1, <3>2, Zenon
    <3> QED
      BY <3>1, <3>2, <3>3 DEF ShellRuns
  <2>3. (s = -1 \/ s \in Fd \ open)
    BY DEF socket
  <2>4. open' = open \cup ({s} \ {-1})
    BY <2>1 DEF _server_thread
  <2>5. s = -1 => open' = open
    BY <2>4
  <2>6. s # -1 => /\ s \in Fd /\ s \notin open /\ open' = open \cup {s} /\ s >= 0
                  /\ s \in Int
    <3> SUFFICES ASSUME s # -1 PROVE /\ s \in Fd /\ s \notin open /\ open' = open \cup {s}
                                     /\ s >= 0 /\ s \in Int
      OBVIOUS
    <3>1. s \in Fd /\ s \notin open /\ {s} \ {-1} = {s}
      BY <2>3
    <3>2. s \in Nat
      BY <1>1, <3>1
    <3> QED
      BY <2>4, <3>1, <3>2
  <2>7. /\ IsFiniteSet(open') /\ open' \subseteq Fd
        /\ s = -1 => Cardinality(open') = Cardinality(open)
        /\ s # -1 => Cardinality(open') = Cardinality(open) + 1
    BY <1>0, <2>5, <2>6, OpenClose DEF Typed
  <2>8. CASE s # -1 /\ server_socket' = s /\ thread' = TRUE /\ UNCHANGED failed
    <3>1. Leaked' = Leaked
      BY <2>8 DEF Leaked
    <3>2. Typed'
      BY <1>0, <2>2, <2>6, <2>7, <2>8 DEF Typed
    <3>3. OneServer'
      BY <2>2, <2>6, <2>8 DEF OneServer
    <3>4. FdsAccounted'
      BY <1>0, <2>2, <2>7, <2>8, <3>1 DEF FdsAccounted, Leaked
    <3> QED
      BY <3>2, <3>3, <3>4
  <2>9. ASSUME NEW f \in Failure, failed' = Append(failed, f), UNCHANGED thread,
               server_socket' \in Int, server_socket' >= 0 => f \in {"port", "nosocket, 0"},
               s = -1 <=> f \notin {"port", "bind"}
        PROVE  SocketInv'
    <3>1. /\ failed' \in Seq(Failure)
          /\ Cardinality(Leaked') = Cardinality(Leaked) + (IF f \in {"port", "bind"} THEN 1 ELSE 0)
          /\ \E i \in DOMAIN failed' : failed'[i] = f
      BY <1>0, <2>9, OneMoreFailed DEF Typed
    <3>2. Typed'
      BY <1>0, <2>2, <2>7, <2>9, <3>1 DEF Typed
    <3>3. OneServer'
      BY <2>2, <2>9, <3>1 DEF OneServer
    <3>4. Cardinality(open') = Cardinality(Leaked')
      <4>1. Cardinality(open) = Cardinality(Leaked)
        BY <1>0, <2>2
      <4>2. CASE s = -1
        <5>1. Cardinality(open') = Cardinality(open) /\ f \notin {"port", "bind"}
          BY <2>7, <2>9, <4>2, Zenon
        <5> QED
          BY <1>0, <3>1, <4>1, <5>1
      <4>3. CASE s # -1
        BY <1>0, <2>7, <2>9, <3>1, <4>1, <4>3
      <4> QED
        BY <4>2, <4>3
    <3>5. FdsAccounted'
      <4>1. ~thread' /\ ShellRuns' /\ Cardinality(Leaked') \in Nat
        BY <1>0, <2>2, <2>7, <2>9, <3>4, FS_CardinalityType
      <4> QED
        BY <3>4, <4>1 DEF FdsAccounted, Leaked
    <3> QED
      BY <3>2, <3>3, <3>5
  <2>10. CASE server_socket' = s /\ UNCHANGED thread
              /\ failed' = Append(failed, IF s = -1 THEN "nosocket, -1" ELSE "port")
    <3>1. CASE s = -1
      <4>1. server_socket' = -1 /\ server_socket' \in Int /\ ~(server_socket' >= 0)
        <5>1. -1 \in Int /\ ~(-1 >= 0)
          OBVIOUS
        <5>2. server_socket' = -1
          BY <2>10, <3>1, Zenon
        <5> QED
          BY <5>1, <5>2, Zenon
      <4>2. failed' = Append(failed, "nosocket, -1") /\ "nosocket, -1" \in Failure
        BY <2>10, <3>1 DEF Failure
      <4> QED
        BY <2>9, <2>10, <3>1, <4>1, <4>2
    <3>2. CASE s # -1
      BY <2>6, <2>9, <2>10, <3>2 DEF Failure
    <3> QED
      BY <3>1, <3>2
  <2>11. CASE s = -1 /\ server_socket' = 0 /\ failed' = Append(failed, "nosocket, 0")
              /\ UNCHANGED thread
    <3>1. server_socket' \in Int /\ "nosocket, 0" \in Failure
      <4>1. 0 \in Int /\ "nosocket, 0" \in Failure
        BY DEF Failure
      <4> QED
        BY <2>11, <4>1, Zenon
    <3> QED
      BY <2>9, <2>11, <3>1
  <2>12. CASE s # -1 /\ server_socket' = -1 /\ failed' = Append(failed, "bind") /\ UNCHANGED thread
    BY <2>9, <2>12 DEF Failure
  <2> QED
    BY <2>1, <2>8, <2>10, <2>11, <2>12 DEF _server_thread
<1>3. CASE SendStart
  <2>1. PICK s \in socket \ {-1}, num \in 0 .. MaxNum :
            sender' = [fd |-> s, left |-> num] /\ open' = open \cup {s}
    BY <1>3 DEF SendStart
  <2>2. s \in Fd /\ s \notin open /\ sender'.fd = s /\ s # -1
    BY <1>1, <2>1 DEF socket
  <2>3. /\ ShellRuns /\ ~ShellRuns'
        /\ UNCHANGED <<server_socket, thread, clobbered, failed>>
    BY <1>3, <2>2 DEF SendStart, ShellRuns
  <2>4. IsFiniteSet(open') /\ Cardinality(open') = Cardinality(open) + 1
    BY <1>0, <2>1, <2>2, OpenClose DEF Typed
  <2>5. Typed'
    BY <1>0, <2>1, <2>2, <2>3, <2>4 DEF Typed
  <2>6. OneServer'
    BY <1>0, <2>1, <2>2, <2>3 DEF OneServer
  <2>7. Leaked' = Leaked
    BY <2>3 DEF Leaked
  <2>8. FdsAccounted'
    BY <1>0, <2>3, <2>4, <2>7 DEF FdsAccounted, Leaked, Typed
  <2> QED
    BY <2>5, <2>6, <2>8
<1>4. CASE SendEnd
  <2>1. /\ ~ShellRuns /\ ShellRuns' /\ sender'.fd = -1 /\ open' = open \ {sender.fd}
        /\ UNCHANGED <<server_socket, thread, clobbered, failed>>
    BY <1>4 DEF SendEnd, ShellRuns
  <2>2. sender.fd \in open
    BY <1>0, <2>1 DEF Typed, ShellRuns
  <2>3. IsFiniteSet(open') /\ Cardinality(open') = Cardinality(open) - 1
    BY <1>0, <2>1, <2>2, OpenClose DEF Typed
  <2>4. Typed'
    BY <1>0, <2>1, <2>3 DEF Typed
  <2>5. OneServer'
    BY <1>0, <1>1, <2>1 DEF OneServer, Typed
  <2>6. Leaked' = Leaked
    BY <2>1 DEF Leaked
  <2>7. FdsAccounted'
    BY <1>0, <2>1, <2>3, <2>6 DEF FdsAccounted, Leaked, Typed
  <2> QED
    BY <2>4, <2>5, <2>7
<1>5. ASSUME UNCHANGED <<server_socket, thread, clobbered, open, failed>>, sender'.fd = sender.fd
      PROVE  SocketInv'
  <2>1. Typed' /\ OneServer'
    BY <1>0, <1>5 DEF Typed, OneServer
  <2>2. FdsAccounted'
    BY <1>5 DEF FdsAccounted, ShellRuns
  <2> QED
    BY <2>1, <2>2
<1>6. CASE SendRound
  BY <1>5, <1>6 DEF SendRound
<1>7. ASSUME NEW d \in Datagram, Receive(d) PROVE SocketInv'
  BY <1>5, <1>7 DEF Receive
<1>8. CASE UNCHANGED vars
  BY <1>5, <1>8 DEF vars
<1> QED
  BY <1>2, <1>3, <1>4, <1>6, <1>7, <1>8 DEF Next, udp_cmd, udp_send

LEMMA SocketHolds == Spec => []SocketInv
<1>1. Init => SocketInv
  <2> SUFFICES ASSUME Init PROVE SocketInv
    OBVIOUS
  <2>1. /\ server_socket = -1 /\ thread = FALSE /\ clobbered = FALSE /\ open = {}
        /\ sender.fd = -1 /\ failed = <<>>
    BY DEF Init
  <2>2. DOMAIN failed = {} /\ failed \in Seq(Failure) /\ Leaked = {}
    BY <2>1 DEF Leaked
  <2>3. IsFiniteSet({}) /\ Cardinality({}) = 0
    BY FS_EmptySet
  <2>4. Typed
    <3>1. server_socket \in Int
      BY <2>1
    <3>2. open \subseteq Fd /\ IsFiniteSet(open) /\ thread \in BOOLEAN
      BY <2>1, <2>3
    <3> QED
      BY <2>1, <2>2, <3>1, <3>2 DEF Typed
  <2>5. OneServer
    BY <2>1 DEF OneServer
  <2>6. FdsAccounted
    BY <2>1, <2>2, <2>3 DEF FdsAccounted, ShellRuns, Leaked
  <2> QED
    BY <2>4, <2>5, <2>6 DEF SocketInv
<1>2. SocketInv /\ [Next]_vars => SocketInv'
  BY SocketStep
<1> QED
  BY <1>1, <1>2, PTL DEF Spec

\* No second thread is put on the server's stack, whatever starts fail before
\* or sends come between, because server_socket is its socket while it runs.
THEOREM OneServerHolds == Spec => []OneServer
<1>1. SocketInv => OneServer
  BY DEF SocketInv
<1> QED
  BY <1>1, SocketHolds, PTL

\* Every descriptor in use is the server's, the sender's or was left open by a
\* start that failed on its port or on bind().
THEOREM FdsAccountedHolds == Spec => []FdsAccounted
<1>1. SocketInv => FdsAccounted
  BY DEF SocketInv
<1> QED
  BY <1>1, SocketHolds, PTL

----------------------------------------------------------------------------
(* The buffer *)

LessThan == {p \in Nat \X Nat : p[1] < p[2]}

LEMMA MaxIs ==
    ASSUME NEW S \in SUBSET Int, NEW m \in S, \A x \in S : x <= m
    PROVE  Max(S) = m
<1>1. m \in Int /\ \A x \in S : m >= x
  OBVIOUS
<1>2. PICK y : y = Max(S)
  OBVIOUS
<1>3. y \in S /\ \A x \in S : y >= x
  BY <1>1, <1>2 DEF Max
<1>4. y \in Int /\ y >= m /\ m >= y
  BY <1>1, <1>3
<1> QED
  BY <1>1, <1>2, <1>4

LEMMA MinIs ==
    ASSUME NEW S \in SUBSET Int, NEW m \in S, \A x \in S : m <= x
    PROVE  Min(S) = m
<1>1. m \in Int
  OBVIOUS
<1>2. PICK y : y = Min(S)
  OBVIOUS
<1>3. y \in S /\ \A x \in S : y <= x
  BY <1>2 DEF Min
<1>4. y \in Int /\ y <= m /\ m <= y
  BY <1>1, <1>3
<1> QED
  BY <1>1, <1>2, <1>4

LEMMA Least ==
    ASSUME NEW S, S \subseteq Nat, S # {}
    PROVE  \E n \in S : \A m \in S : n <= m
<1>1. IsWellFoundedOn(LessThan, Nat)
  BY NatLessThanWellFounded DEF OpToRel, LessThan
<1>2. PICK n \in S : \A m \in S : <<m, n>> \notin LessThan
  BY <1>1, WFMin
<1>3. \A m \in S : ~(m < n)
  BY <1>2 DEF LessThan
<1> QED
  BY <1>3

\* BufferInv is inductive: a datagram is the last to reach the bytes it fills.
LEMMA BufferStep ==
    ASSUME BufferInv, [Next]_vars
    PROVE  BufferInv'
<1> USE NativeAssumption
<1>1. ASSUME NEW d \in Datagram, Receive(d) PROVE BufferInv'
  <2>1. PICK n : n = Len(received) + 1
    OBVIOUS
  <2>2. /\ server_buffer' = Stored(d, n, server_buffer)
        /\ received' = Append(received, d)
        /\ printed' = Printed(server_buffer')
    BY <1>1, <2>1 DEF Receive
  <2>3. /\ received \in Seq(Datagram) /\ n \in Nat /\ n >= 1
        /\ Len(received) = n - 1 /\ DOMAIN received = 1 .. n - 1
    BY <2>1, LenProperties DEF BufferInv
  <2>4. /\ received' \in Seq(Datagram) /\ DOMAIN received' = 1 .. n /\ Len(received') = n
        /\ \A k \in 1 .. n - 1 : received'[k] = received[k]
        /\ received'[n] = d
    BY <2>1, <2>2, <2>3, AppendProperties, LenProperties
  <2>5. /\ \A k \in 1 .. n : k \in 1 .. n - 1 \/ k = n
        /\ \A k \in 1 .. n - 1 : k \in 1 .. n
        /\ \A k \in 0 .. n - 1 : k \in 0 .. n /\ (k # 0 => k \in 1 .. n - 1)
        /\ n \in 1 .. n /\ n \in 0 .. n /\ n # 0
    BY <2>3
  <2>6. d.len \in 1 .. SERVER_BUFFER_SIZE /\ d.zeros \subseteq 1 .. d.len
    BY DEF Datagram
  <2>7. ASSUME NEW i \in 1 .. SERVER_BUFFER_SIZE
        PROVE  /\ LastToReach(i)' \in 0 .. n
               /\ Stored(d, n, server_buffer)[i] = IF IsText(i)' THEN LastToReach(i)' ELSE NUL
    <3>1. CASE i <= d.len
      <4>1. LastToReach(i)' = n
        <5> DEFINE S == {0} \cup {k \in 1 .. n : received'[k].len >= i}
        <5>1. S \in SUBSET Int /\ \A x \in S : x <= n
          BY <2>3
        <5>2. d.len >= i
          BY <2>6, <3>1
        <5>3. n \in S
          BY <2>4, <2>5, <5>2
        <5>4. LastToReach(i)' = Max(S)
          BY <2>4 DEF LastToReach
        <5> QED
          BY <5>1, <5>3, <5>4, MaxIs
      <4>2. IsText(i)' <=> i \notin d.zeros
        BY <2>4, <2>5, <4>1 DEF IsText
      <4>3. Stored(d, n, server_buffer)[i] = IF i \in d.zeros THEN NUL ELSE n
        BY <3>1 DEF Stored
      <4> QED
        BY <2>5, <4>1, <4>2, <4>3
    <3>2. CASE ~(i <= d.len)
      <4>1. ~(d.len >= i) /\ i \notin d.zeros
        BY <2>6, <3>2
      <4>2. {k \in 1 .. n : received'[k].len >= i} = {k \in 1 .. n - 1 : received[k].len >= i}
        BY <2>4, <2>5, <4>1
      <4>3. LastToReach(i)' = LastToReach(i)
        BY <2>3, <2>4, <4>2 DEF LastToReach
      <4>4. LastToReach(i) \in 0 .. n - 1
        BY <2>3 DEF BufferInv
      <4>5. IsText(i)' = IsText(i)
        BY <2>4, <2>5, <4>3, <4>4 DEF IsText
      <4>6. Stored(d, n, server_buffer)[i] = server_buffer[i]
        BY <3>2, <4>1 DEF Stored
      <4>7. server_buffer[i] = IF IsText(i) THEN LastToReach(i) ELSE NUL
        BY DEF BufferInv
      <4> QED
        BY <2>5, <4>3, <4>4, <4>5, <4>6, <4>7
    <3> QED
      BY <3>1, <3>2
  <2>8. server_buffer' = [i \in 1 .. SERVER_BUFFER_SIZE |-> IF IsText(i) THEN LastToReach(i) ELSE NUL]'
    <3>1. server_buffer' = [i \in 1 .. SERVER_BUFFER_SIZE |-> Stored(d, n, server_buffer)[i]]
      BY <2>2 DEF Stored
    <3> QED
      BY <2>7, <3>1
  <2> QED
    BY <2>2, <2>4, <2>7, <2>8 DEF BufferInv
<1>2. ASSUME UNCHANGED <<received, server_buffer, printed>> PROVE BufferInv'
  <2>1. \A i : LastToReach(i)' = LastToReach(i)
    BY <1>2 DEF LastToReach
  <2>2. \A i : IsText(i)' = IsText(i)
    BY <1>2, <2>1 DEF IsText
  <2> QED
    BY <1>2, <2>1, <2>2 DEF BufferInv
<1>3. CASE udp_cmd \/ UNCHANGED vars
  BY <1>2, <1>3 DEF udp_cmd, udp_start_server, udp_send, SendStart, SendRound, SendEnd, vars
<1> QED
  BY <1>1, <1>3 DEF Next

\* puts() prints the characters that the last datagrams to reach each byte left,
\* up to the first byte without one; it reads past the buffer exactly if every
\* byte has one.
THEOREM PrintedTailHolds == Spec => []PrintedTail
<1> USE NativeAssumption
<1>1. Init => BufferInv
  <2> SUFFICES ASSUME Init PROVE BufferInv
    OBVIOUS
  <2>1. received = <<>> /\ server_buffer = [i \in 1 .. SERVER_BUFFER_SIZE |-> NUL]
    BY DEF Init
  <2>2. DOMAIN received = {} /\ received \in Seq(Datagram) /\ Len(received) = 0
    BY <2>1
  <2>3. ASSUME NEW i PROVE LastToReach(i) = 0
    <3>1. {0} \cup {n \in DOMAIN received : received[n].len >= i} = {0}
      BY <2>2
    <3>2. Max({0}) = 0
      BY MaxIs
    <3> QED
      BY <3>1, <3>2 DEF LastToReach
  <2>4. \A i : ~IsText(i)
    BY <2>3 DEF IsText
  <2> QED
    BY <2>1, <2>2, <2>3, <2>4 DEF BufferInv
<1>2. BufferInv /\ [Next]_vars => BufferInv'
  BY BufferStep
<1>3. BufferInv => PrintedTail
  <2> SUFFICES ASSUME BufferInv, received # <<>>
               PROVE  /\ \A i \in DOMAIN printed.bytes :
                             IsText(i) /\ printed.bytes[i] = LastToReach(i)
                      /\ IF printed.past
                         THEN Len(printed.bytes) = SERVER_BUFFER_SIZE
                         ELSE /\ Len(printed.bytes) < SERVER_BUFFER_SIZE
                              /\ ~IsText(Len(printed.bytes) + 1)
    BY DEF PrintedTail
  <2> DEFINE b == server_buffer
             nul == {i \in DOMAIN b : b[i] = NUL}
             size == SERVER_BUFFER_SIZE
  <2>1. /\ \A i \in 1 .. size : b[i] = IF IsText(i) THEN LastToReach(i) ELSE NUL
        /\ DOMAIN b = 1 .. size /\ size \in Nat
        /\ Len(received) \in Nat
        /\ \A i \in 1 .. size : LastToReach(i) \in Nat
    BY LenProperties DEF BufferInv
  <2>2. \A i \in 1 .. size : IsText(i) <=> b[i] # NUL
    BY <2>1 DEF IsText, NUL
  <2>3. b \in Seq(Nat) /\ Len(b) = size
    <3>1. \A i \in 1 .. size : b[i] \in Nat
      BY <2>1 DEF NUL
    <3>2. b \in [1 .. size -> Nat]
      BY <3>1 DEF BufferInv
    <3> QED
      BY <2>1, <3>2, LenProperties
  <2>4. CASE nul = {}
    <3>1. printed.bytes = b /\ printed.past = TRUE
      BY <2>4 DEF BufferInv, Printed
    <3>2. \A i \in 1 .. size : IsText(i) /\ b[i] = LastToReach(i)
      BY <2>1, <2>2, <2>4
    <3> QED
      BY <2>1, <2>3, <3>1, <3>2
  <2>5. CASE nul # {}
    <3>1. PICK k \in Nat : k = Min(nul) /\ k \in nul /\ \A x \in nul : k <= x
      <4>1. PICK k \in nul : \A x \in nul : k <= x
        <5>1. nul \subseteq Nat
          BY <2>1
        <5> QED
          BY <2>5, <5>1, Least
      <4>2. nul \in SUBSET Int /\ k \in Nat
        BY <2>1
      <4>3. Min(nul) = k
        <5> HIDE DEF nul
        <5> QED
          BY <4>1, <4>2, MinIs
      <4> QED
        BY <4>1, <4>2, <4>3, Zenon
    <3>2. printed.bytes = SubSeq(b, 1, k - 1) /\ printed.past = FALSE
      <4>1. printed = [bytes |-> SubSeq(b, 1, Min(nul) - 1), past |-> FALSE]
        <5>1. printed = Printed(b)
          BY DEF BufferInv
        <5>2. Printed(b) = [bytes |-> SubSeq(b, 1, Min(nul) - 1), past |-> FALSE]
          BY <2>5, Zenon DEF Printed
        <5> QED
          BY <5>1, <5>2, Zenon
      <4>2. Min(nul) = k
        BY <3>1, Zenon
      <4>3. printed = [bytes |-> SubSeq(b, 1, k - 1), past |-> FALSE]
        BY <4>1, <4>2, Zenon
      <4> HIDE DEF nul
      <4> QED
        BY <4>3
    <3>3. k \in 1 .. size /\ b[k] = NUL
      BY <2>1, <3>1
    <3>4. \A i \in 1 .. k - 1 : i \in 1 .. size /\ b[i] # NUL
      <4>1. SUFFICES ASSUME NEW i \in 1 .. k - 1 PROVE i \in 1 .. size /\ b[i] # NUL
        OBVIOUS
      <4>2. i \in 1 .. size /\ ~(k <= i)
        BY <2>1, <3>3
      <4>3. i \notin nul
        BY <3>1, <4>2, Zenon
      <4> QED
        BY <2>1, <4>2, <4>3
    <3>5. /\ Len(printed.bytes) = k - 1 /\ DOMAIN printed.bytes = 1 .. k - 1
          /\ \A i \in 1 .. k - 1 : printed.bytes[i] = b[i]
      BY <2>3, <3>2, <3>3, SubSeqProperties
    <3>6. (k - 1) + 1 = k /\ k - 1 < size
      BY <2>1, <3>3
    <3>7. ~IsText(k)
      BY <2>2, <3>3
    <3> QED
      BY <2>1, <2>2, <3>2, <3>4, <3>5, <3>6, <3>7
  <2> QED
    BY <2>4, <2>5
<1> QED
  BY <1>1, <1>2, <1>3, PTL DEF Spec
=============================================================================
