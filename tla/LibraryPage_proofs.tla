------------------------- MODULE LibraryPage_proofs -------------------------
(***************************************************************************)
(* What is proved of the library page and of what is over and around it,   *)
(* for any books, lists, devices, ways of sending, formats, texts and      *)
(* users, any size of a page, any number of workers and of requests: a     *)
(* delivery asks for what was offered, an action asks for each book once,  *)
(* a fetch is told the outcome it had, a book's dialog shows that book,    *)
(* the list at rest is the server's and is cut into whole pages, and a     *)
(* cover, a search and the palette show what is asked for.                 *)
(***************************************************************************)
EXTENDS MC_WebLibrary, BulkActions, JobPolling, BookDetail, FiniteSetTheorems, SequenceTheorems,
        WellFoundedInduction, TLAPS

(***************************************************************************)
(* The dialog of a delivery sends what was offered.  Nothing about the     *)
(* POST alone is inductive: a method is sent from the dialog's state,      *)
(* which an answer fills.  So the invariant follows a method back to the   *)
(* answer it came from: the method that is chosen and those the field      *)
(* lists were answered for the device that is chosen, and a request that   *)
(* is still attended was sent for it.                                      *)
(***************************************************************************)

\* The method chosen was answered for the device chosen.
MethodIsKnown ==
  sendMethod # NoMethod => sendDevice \in SendDevices /\ sendMethod \in sendEver[sendDevice]

\* So were the methods the field lists.
FieldIsKnown ==
  sendField.methods # {} => sendDevice \in SendDevices /\ sendField.methods \subseteq sendEver[sendDevice]

\* The requests that are not cancelled are for the device chosen.
AsksAreForDevice == \A a \in sendAsks : a.live => a.device = sendDevice

SendInv ==
  /\ SendTypeOK /\ MethodIsKnown /\ FieldIsKnown /\ AsksAreForDevice /\ SentWasOffered

-----------------------------------------------------------------------------
(***************************************************************************)
(* pickDeliverFormat never leaves the formats of the device, and a         *)
(* Kindle's are among those of any device.                                 *)
(***************************************************************************)
LEMMA SendFormatFits ==
  /\ SendFormat \in formatsForDevice(sendDevice)
  /\ SendFormat \in ALL_FORMATS
BY DEF SendFormat, pickDeliverFormat, formatsForDevice, KINDLE_FORMATS, ALL_FORMATS

(***************************************************************************)
(* A list of one method has one to choose.                                 *)
(***************************************************************************)
LEMMA OnlyMethod ==
  ASSUME NEW S, Cardinality(S) = 1
  PROVE  (CHOOSE m \in S : TRUE) \in S
<1>1. S # {}
  BY FS_EmptySet
<1> QED
  BY <1>1

(***************************************************************************)
(* Mounting the field cancels what was asked before and asks for its       *)
(* device only.                                                            *)
(***************************************************************************)
LEMMA MountedField ==
  ASSUME SendTypeOK, NEW d \in SendDevices \cup {NoSendDevice}, MountField(d)
  PROVE  /\ sendField' = NoField
         /\ sendAsks' \subseteq [device : SendDevices, live : BOOLEAN]
         /\ \A a \in sendAsks' : a.live => a.device = d
<1>1. Cancelled(sendAsks) \subseteq [device : SendDevices, live : BOOLEAN]
  BY DEF SendTypeOK, Cancelled
<1>2. \A a \in Cancelled(sendAsks) : ~a.live
  BY DEF SendTypeOK, Cancelled
<1>3. CASE d = NoSendDevice
  BY <1>1, <1>2, <1>3 DEF MountField
<1>4. CASE d # NoSendDevice
  <2>1. sendAsks' = Cancelled(sendAsks) \cup {[device |-> d, live |-> TRUE]} /\ d \in SendDevices
    BY <1>4 DEF MountField
  <2>2. sendField' = NoField
    BY DEF MountField
  <2>3. sendAsks' \subseteq [device : SendDevices, live : BOOLEAN]
    <3>1. [device |-> d, live |-> TRUE] \in [device : SendDevices, live : BOOLEAN]
      BY <2>1
    <3> QED
      BY <1>1, <2>1, <3>1
  <2>4. ASSUME NEW a \in sendAsks', a.live PROVE a.device = d
    BY <1>2, <2>1, <2>4
  <2> QED
    BY <2>2, <2>3, <2>4
<1> QED
  BY <1>3, <1>4

-----------------------------------------------------------------------------
LEMMA SendInitInv == SendInit => SendInv
BY SendAssumption
DEF SendInit, SendInv, SendTypeOK, MethodIsKnown, FieldIsKnown, AsksAreForDevice, SentWasOffered,
    NoField, NoPost, ALL_FORMATS

(***************************************************************************)
(* Every step keeps the invariant.  The steps that mount the field empty   *)
(* it; an answer that is attended adds to what was answered for the device *)
(* chosen exactly what it puts in the field.                               *)
(***************************************************************************)
LEMMA SendStepInv == SendInv /\ [SendNext]_sendVars => SendInv'
<1> SUFFICES ASSUME SendInv, [SendNext]_sendVars PROVE SendInv'
  OBVIOUS
<1> USE SendAssumption DEF SendInv
<1>1. ASSUME NEW d \in SendDevices, handleDeviceChange(d) PROVE SendInv'
  <2>1. MountField(d)
    BY <1>1 DEF handleDeviceChange
  <2>2. SendTypeOK'
    BY <1>1, <2>1, MountedField DEF handleDeviceChange, SendTypeOK, NoField
  <2>3. MethodIsKnown' /\ FieldIsKnown' /\ AsksAreForDevice'
    BY <1>1, <2>1, MountedField
    DEF handleDeviceChange, MethodIsKnown, FieldIsKnown, AsksAreForDevice, NoField
  <2>4. SentWasOffered'
    BY <1>1 DEF handleDeviceChange, SentWasOffered
  <2> QED
    BY <2>2, <2>3, <2>4
<1>2. ASSUME NEW b \in SendBooks, OpenSend(b) PROVE SendInv'
  <2>1. MountField(sendDevice) /\ sendDevice \in SendDevices \cup {NoSendDevice}
    BY <1>2 DEF OpenSend, SendTypeOK
  <2>2. SendTypeOK'
    BY <1>2, <2>1, MountedField DEF OpenSend, SendTypeOK, NoField
  <2>3. MethodIsKnown' /\ FieldIsKnown' /\ AsksAreForDevice'
    BY <1>2, <2>1, MountedField
    DEF OpenSend, MethodIsKnown, FieldIsKnown, AsksAreForDevice, NoField
  <2>4. SentWasOffered'
    BY <1>2 DEF OpenSend, SentWasOffered
  <2> QED
    BY <2>2, <2>3, <2>4
<1>3. ASSUME CloseSend \/ Delivered PROVE SendInv'
  <2>1. /\ MountField(NoSendDevice)
        /\ sendItem' = NoSendBook /\ (sendPost' = sendPost \/ sendPost' = NoPost)
        /\ UNCHANGED <<sendDevice, sendMethod, sendChoice, sendDefault, sendEver>>
    BY <1>3 DEF CloseSend, Delivered
  <2>2. SendTypeOK'
    BY <2>1, MountedField DEF SendTypeOK, NoField
  <2>3. MethodIsKnown' /\ FieldIsKnown'
    BY <2>1, MountedField DEF MethodIsKnown, FieldIsKnown, NoField
  <2>4. AsksAreForDevice'
    BY <2>1, <2>2, MountedField DEF SendTypeOK, AsksAreForDevice
  <2>5. SentWasOffered'
    BY <2>1 DEF SentWasOffered
  <2> QED
    BY <2>2, <2>3, <2>4, <2>5
<1>4. ASSUME NEW f \in SendFormats, SetDefaultFormat(f) \/ ChooseFormat(f) PROVE SendInv'
  <2>1. SendTypeOK'
    BY <1>4 DEF SetDefaultFormat, ChooseFormat, SendTypeOK, ALL_FORMATS
  <2> QED
    BY <1>4, <2>1
    DEF SetDefaultFormat, ChooseFormat, MethodIsKnown, FieldIsKnown, AsksAreForDevice, SentWasOffered
<1>5. ASSUME NEW a \in sendAsks, NEW S \in SUBSET SendMethods, MethodsAnswered(a, S) PROVE SendInv'
  <2>1. CASE a.live
    <3>1. a.device = sendDevice /\ sendDevice \in SendDevices
      BY <2>1 DEF SendTypeOK, AsksAreForDevice
    <3>2. /\ sendAsks' = sendAsks \ {a} /\ sendField' = [state |-> "listed", methods |-> S]
          /\ sendMethod' = IF Cardinality(S) = 1 THEN CHOOSE m \in S : TRUE ELSE sendMethod
          /\ sendEver' = [sendEver EXCEPT ![sendDevice] = @ \cup S]
          /\ UNCHANGED <<sendItem, sendDevice, sendChoice, sendDefault, sendPost>>
      BY <1>5, <2>1, <3>1 DEF MethodsAnswered
    <3>3. sendMethod' \in S \/ sendMethod' = sendMethod
      BY <3>2, OnlyMethod
    <3>4. /\ sendEver'[sendDevice] = sendEver[sendDevice] \cup S
          /\ sendEver' \in [SendDevices -> SUBSET SendMethods]
          /\ \A d \in SendDevices : sendEver[d] \subseteq sendEver'[d]
      BY <3>1, <3>2 DEF SendTypeOK
    <3>5. SendTypeOK'
      BY <3>2, <3>3, <3>4 DEF SendTypeOK, NoPost
    <3>6. MethodIsKnown' /\ FieldIsKnown' /\ AsksAreForDevice'
      BY <3>1, <3>2, <3>3, <3>4 DEF MethodIsKnown, FieldIsKnown, AsksAreForDevice
    <3>7. SentWasOffered'
      BY <3>2, <3>4 DEF SentWasOffered, SendTypeOK
    <3> QED
      BY <3>5, <3>6, <3>7
  <2>2. CASE ~a.live
    <3>1. sendAsks' = sendAsks \ {a} /\ UNCHANGED <<sendForm, sendField, sendPost, sendEver>>
      BY <1>5, <2>2 DEF MethodsAnswered, sendForm
    <3> QED
      BY <3>1 DEF sendForm, SendTypeOK, NoPost, MethodIsKnown, FieldIsKnown, AsksAreForDevice, SentWasOffered
  <2> QED
    BY <2>1, <2>2
<1>6. ASSUME NEW a \in sendAsks, MethodsFail(a) PROVE SendInv'
  <2>1. /\ sendAsks' = sendAsks \ {a} /\ UNCHANGED <<sendForm, sendPost, sendEver>>
        /\ sendField' = [state |-> "failed", methods |-> {}] \/ sendField' = sendField
    BY <1>6 DEF MethodsFail
  <2>2. SendTypeOK'
    BY <2>1 DEF sendForm, SendTypeOK, NoPost
  <2> QED
    BY <2>1, <2>2 DEF sendForm, MethodIsKnown, FieldIsKnown, AsksAreForDevice, SentWasOffered
<1>7. ASSUME NEW m \in SendMethods, ChooseMethod(m) PROVE SendInv'
  <2>1. m \in sendField.methods
    BY <1>7 DEF ChooseMethod, Choosable
  <2>2. SendTypeOK'
    BY <1>7 DEF ChooseMethod, SendTypeOK, NoPost
  <2> QED
    BY <1>7, <2>1, <2>2
    DEF ChooseMethod, MethodIsKnown, FieldIsKnown, AsksAreForDevice, SentWasOffered
<1>8. ASSUME submit PROVE SendInv'
  <2>1. /\ sendDevice \in SendDevices /\ sendMethod \in SendMethods
        /\ sendMethod \in sendEver[sendDevice]
    BY <1>8 DEF submit, SendTypeOK, MethodIsKnown
  <2>2. sendPost' = [device |-> sendDevice, method |-> sendMethod, format |-> SendFormat]
    BY <1>8 DEF submit
  <2>3. SendTypeOK'
    BY <1>8, <2>1, <2>2, SendFormatFits DEF submit, sendForm, SendTypeOK
  <2>4. SentWasOffered'
    BY <1>8, <2>1, <2>2, SendFormatFits DEF submit, SentWasOffered
  <2> QED
    BY <1>8, <2>3, <2>4 DEF submit, sendForm, MethodIsKnown, FieldIsKnown, AsksAreForDevice
<1>9. ASSUME SendFails PROVE SendInv'
  BY <1>9
  DEF SendFails, sendForm, SendTypeOK, NoPost, MethodIsKnown, FieldIsKnown, AsksAreForDevice, SentWasOffered
<1>10. ASSUME UNCHANGED sendVars PROVE SendInv'
  BY <1>10
  DEF sendVars, sendForm, SendTypeOK, NoPost, MethodIsKnown, FieldIsKnown, AsksAreForDevice, SentWasOffered
<1> QED
  BY <1>1, <1>2, <1>3, <1>4, <1>5, <1>6, <1>7, <1>8, <1>9, <1>10 DEF SendNext

-----------------------------------------------------------------------------
(***************************************************************************)
(* The state of the dialog has its type, and its method, its field and its *)
(* requests are those of the device chosen.                                *)
(***************************************************************************)
THEOREM SendInvariance == SendSpec => []SendInv
<1>1. SendInit => SendInv
  BY SendInitInv
<1>2. SendInv /\ [SendNext]_sendVars => SendInv'
  BY SendStepInv
<1> QED
  BY <1>1, <1>2, PTL DEF SendSpec

(***************************************************************************)
(* A delivery is asked for by a method that an answer about its device     *)
(* offered, in a format its device takes.                                  *)
(***************************************************************************)
THEOREM OnlyOfferedIsSent == SendSpec => []SentWasOffered
<1>1. SendInv => SentWasOffered
  BY DEF SendInv
<1> QED
  BY <1>1, SendInvariance, PTL

-----------------------------------------------------------------------------
(***************************************************************************)
(* An action on the selected books asks for each once.  The workers share  *)
(* a cursor, and the property speaks of the requests only: the invariant   *)
(* says that the cursor parts the books asked from the others, and that    *)
(* what is below it is carried by one worker or has settled.               *)
(***************************************************************************)

\* The run has one cell per book of its snapshot; the cursor is in it, or after.
RunShape ==
  \E n \in Nat :
    /\ batchRun \in [1..n -> BatchBooks]
    /\ batchOutcome \in [1..n -> {"none", "ok", "failed"}] /\ batchAsks \in [1..n -> Nat]
    /\ batchCarries \in [Workers -> 0..n] /\ batchCursor \in 1..(n + 1)

\* The books below the cursor were asked, once, and no other was.
AskedBelowCursor ==
  \A i \in Indices : batchAsks[i] = IF i < batchCursor THEN 1 ELSE 0

\* What a worker carries was taken from under the cursor, by it alone.
CarriedApart ==
  \A w \in Workers : batchCarries[w] # Free =>
    /\ batchCarries[w] < batchCursor
    /\ \A v \in Workers : batchCarries[v] = batchCarries[w] => v = w

\* What was taken is carried still, or has settled.
TakenOrSettled ==
  \A i \in Indices : i < batchCursor =>
    batchOutcome[i] # "none" \/ \E w \in Workers : batchCarries[w] = i

\* A worker is without a book only when none is left to take, and the result is
\* shown when all are.
FreeAtTheEnd ==
  /\ \A w \in Workers : batchCarries[w] = Free => batchCursor \notin Indices
  /\ batchPhase = "result" => Ended

BatchInv ==
  /\ batchListed \subseteq BatchBooks
  /\ RunShape /\ AskedBelowCursor /\ CarriedApart /\ TakenOrSettled /\ FreeAtTheEnd

-----------------------------------------------------------------------------
LEMMA BatchInitInv == BatchInit => BatchInv
<1> SUFFICES ASSUME BatchInit PROVE BatchInv
  OBVIOUS
<1>1. /\ batchListed = BatchBooks /\ batchPhase = "idle"
      /\ batchRun = <<>> /\ batchOutcome = <<>> /\ batchAsks = <<>> /\ batchCursor = 1
      /\ batchCarries = [w \in Workers |-> Free]
  BY DEF BatchInit
<1>2. RunShape
  <2>1. \A S : <<>> \in [1..0 -> S]
    OBVIOUS
  <2>2. batchCarries \in [Workers -> 0..0] /\ batchCursor \in 1..(0 + 1)
    BY <1>1 DEF Free
  <2> QED
    BY <1>1, <2>1, <2>2 DEF RunShape
<1>3. Indices = {}
  BY <1>1 DEF Indices
<1> QED
  BY <1>1, <1>2, <1>3
  DEF BatchInv, AskedBelowCursor, CarriedApart, TakenOrSettled, FreeAtTheEnd, Free

(***************************************************************************)
(* The snapshot has as many cells as there are books selected.             *)
(***************************************************************************)
LEMMA SnapshotIsNumbered ==
  ASSUME NEW S, IsFiniteSet(S)
  PROVE  Cardinality(S) \in Nat /\ InOrder(S) \in [1..Cardinality(S) -> S]
<1>1. Cardinality(S) \in Nat /\ ExistsBijection(1..Cardinality(S), S)
  BY FS_CardinalityType
<1>2. PICK f \in Bijection(1..Cardinality(S), S) : TRUE
  BY <1>1 DEF ExistsBijection
<1>3. /\ f \in [1..Cardinality(S) -> S]
      /\ \A i, j \in DOMAIN f : f[i] = f[j] => i = j
  BY <1>2 DEF Bijection, Injection, IsInjective
<1> QED
  BY <1>1, <1>3 DEF InOrder

(***************************************************************************)
(* A run starts with its first workers on the first books, the cursor      *)
(* after them.                                                             *)
(***************************************************************************)
LEMMA StartInv ==
  ASSUME BatchInv, NEW a \in Actions, execute(a)
  PROVE  BatchInv'
<1> DEFINE n == Cardinality(SelectedBooks)
           started == IF n < Parallel THEN n ELSE Parallel
<1>1. n \in Nat /\ InOrder(SelectedBooks) \in [1..n -> SelectedBooks]
  <2>1. SelectedBooks \subseteq BatchBooks
    BY DEF BatchInv, SelectedBooks
  <2>2. IsFiniteSet(SelectedBooks)
    BY <2>1, BatchAssumption, FS_Subset
  <2> QED
    BY <2>2, SnapshotIsNumbered
<1>2. InOrder(SelectedBooks) \in [1..n -> BatchBooks]
  BY <1>1 DEF BatchInv, SelectedBooks
<1>3. started \in Nat /\ started <= n /\ started <= Parallel /\ (started < Parallel => started = n)
  BY <1>1, BatchAssumption
<1> HIDE DEF n, started
<1>4. /\ batchRun' = InOrder(SelectedBooks) /\ batchCursor' = started + 1
      /\ batchCarries' = [w \in Workers |-> IF w <= started THEN w ELSE Free]
      /\ batchOutcome' = [i \in 1..n |-> "none"]
      /\ batchAsks' = [i \in 1..n |-> IF i <= started THEN 1 ELSE 0]
      /\ batchPhase' = "running" /\ batchListed' = batchListed
  BY DEF execute, n, started
<1>5. Indices' = 1..n
  BY <1>2, <1>4 DEF Indices
<1>6. RunShape'
  <2>1. batchCarries' \in [Workers -> 0..n]
    BY <1>1, <1>3, <1>4, BatchAssumption DEF Workers, Free
  <2>2. batchOutcome' \in [1..n -> {"none", "ok", "failed"}] /\ batchAsks' \in [1..n -> Nat]
    BY <1>4
  <2>3. batchCursor' \in 1..(n + 1)
    BY <1>1, <1>3, <1>4
  <2> QED
    BY <1>1, <1>2, <1>4, <2>1, <2>2, <2>3 DEF RunShape
<1>7. AskedBelowCursor'
  BY <1>1, <1>3, <1>4, <1>5 DEF AskedBelowCursor
<1>8. CarriedApart'
  BY <1>3, <1>4, BatchAssumption DEF CarriedApart, Workers, Free
<1>9. TakenOrSettled'
  <2> SUFFICES ASSUME NEW i \in 1..n, i < started + 1 PROVE \E w \in Workers : batchCarries'[w] = i
    BY <1>4, <1>5 DEF TakenOrSettled
  <2>1. i \in Workers /\ i <= started
    BY <1>1, <1>3, BatchAssumption DEF Workers
  <2> QED
    BY <1>4, <2>1
<1>10. FreeAtTheEnd'
  <2>1. ASSUME NEW w \in Workers, batchCarries'[w] = Free PROVE started = n
    BY <1>1, <1>3, <1>4, <2>1, BatchAssumption DEF Workers, Free
  <2> QED
    BY <1>1, <1>4, <1>5, <2>1 DEF FreeAtTheEnd
<1> QED
  BY <1>4, <1>6, <1>7, <1>8, <1>9, <1>10 DEF BatchInv

(***************************************************************************)
(* A book settles: its worker takes the one under the cursor, which no     *)
(* worker has and which was not asked, or is free as none is left.         *)
(***************************************************************************)
LEMMA SettleInv ==
  ASSUME BatchInv, NEW w \in Workers, NEW o \in Settled, ItemSettles(w, o)
  PROVE  BatchInv'
<1> USE DEF BatchInv
<1>1. PICK n \in Nat :
        /\ batchRun \in [1..n -> BatchBooks]
        /\ batchOutcome \in [1..n -> {"none", "ok", "failed"}] /\ batchAsks \in [1..n -> Nat]
        /\ batchCarries \in [Workers -> 0..n] /\ batchCursor \in 1..(n + 1)
  BY DEF RunShape
<1> DEFINE i == batchCarries[w]
<1>2. /\ i \in 1..n /\ i < batchCursor /\ batchPhase = "running"
      /\ batchOutcome' = [batchOutcome EXCEPT ![i] = o]
      /\ TakeNext(w, i)
      /\ UNCHANGED <<batchListed, batchPhase, batchRun>>
  BY <1>1 DEF ItemSettles, CarriedApart, Free
<1>3. \A v \in Workers : batchCarries[v] = i => v = w
  BY <1>2 DEF CarriedApart, Free
<1> HIDE DEF i
<1>4. Indices = 1..n /\ Indices' = 1..n
  BY <1>1, <1>2 DEF Indices
<1>5. /\ batchOutcome' \in [1..n -> {"none", "ok", "failed"}] /\ batchOutcome'[i] # "none"
      /\ \A k \in 1..n : batchOutcome[k] # "none" => batchOutcome'[k] # "none"
  BY <1>1, <1>2 DEF Settled
<1>6. CASE batchCursor \in Indices
  <2>1. /\ batchCarries' = [batchCarries EXCEPT ![w] = batchCursor]
        /\ batchCursor' = batchCursor + 1 /\ batchCursor \in 1..n
        /\ batchAsks' = [batchAsks EXCEPT ![batchCursor] = @ + 1]
    BY <1>2, <1>4, <1>6 DEF TakeNext
  <2>2. /\ batchCarries'[w] = batchCursor
        /\ \A v \in Workers \ {w} : batchCarries'[v] = batchCarries[v]
    BY <1>1, <2>1
  <2>3. RunShape'
    <3>1. batchAsks' \in [1..n -> Nat] /\ batchCarries' \in [Workers -> 0..n] /\ batchCursor' \in 1..(n + 1)
      BY <1>1, <2>1
    <3> QED
      BY <1>1, <1>2, <1>5, <3>1 DEF RunShape
  <2>4. AskedBelowCursor'
    BY <1>1, <1>4, <2>1 DEF AskedBelowCursor
  <2>5. CarriedApart'
    <3> SUFFICES ASSUME NEW u \in Workers, batchCarries'[u] # Free
                 PROVE  /\ batchCarries'[u] < batchCursor'
                        /\ \A v \in Workers : batchCarries'[v] = batchCarries'[u] => v = u
      BY DEF CarriedApart
    <3>1. \A v \in Workers \ {w} : batchCarries'[v] < batchCursor
      BY <1>1, <2>1, <2>2 DEF CarriedApart, Free
    <3>2. CASE u = w
      BY <1>1, <2>1, <2>2, <3>1, <3>2
    <3>3. CASE u # w
      BY <1>1, <2>1, <2>2, <3>1, <3>3 DEF CarriedApart, Free
    <3> QED
      BY <3>2, <3>3
  <2>6. TakenOrSettled'
    <3> SUFFICES ASSUME NEW k \in 1..n, k < batchCursor + 1, batchOutcome'[k] = "none"
                 PROVE  \E v \in Workers : batchCarries'[v] = k
      BY <1>4, <2>1 DEF TakenOrSettled
    <3>1. CASE k = batchCursor
      BY <2>2, <3>1
    <3>2. CASE k # batchCursor
      <4>1. k < batchCursor /\ k # i /\ batchOutcome[k] = "none"
        BY <1>1, <1>5, <3>2
      <4>2. PICK v \in Workers : batchCarries[v] = k
        BY <1>4, <4>1 DEF TakenOrSettled
      <4> QED
        BY <2>2, <4>1, <4>2 DEF i
    <3> QED
      BY <3>1, <3>2
  <2>7. FreeAtTheEnd'
    <3>1. \A v \in Workers : batchCarries'[v] # Free
      BY <1>6, <2>1, <2>2 DEF FreeAtTheEnd, Free
    <3> QED
      BY <1>2, <3>1 DEF FreeAtTheEnd
  <2> QED
    BY <1>2, <2>3, <2>4, <2>5, <2>6, <2>7
<1>7. CASE batchCursor \notin Indices
  <2>1. /\ batchCarries' = [batchCarries EXCEPT ![w] = Free]
        /\ batchCursor' = batchCursor /\ batchAsks' = batchAsks
    BY <1>2, <1>7 DEF TakeNext
  <2>2. /\ batchCarries'[w] = Free
        /\ \A v \in Workers \ {w} : batchCarries'[v] = batchCarries[v]
    BY <1>1, <2>1
  <2>3. RunShape'
    <3>1. batchCarries' \in [Workers -> 0..n]
      BY <1>1, <2>1 DEF Free
    <3> QED
      BY <1>1, <1>2, <1>5, <2>1, <3>1 DEF RunShape
  <2>4. AskedBelowCursor'
    BY <1>4, <2>1 DEF AskedBelowCursor
  <2>5. CarriedApart'
    BY <2>1, <2>2 DEF CarriedApart
  <2>6. TakenOrSettled'
    <3> SUFFICES ASSUME NEW k \in 1..n, k < batchCursor, batchOutcome'[k] = "none"
                 PROVE  \E v \in Workers : batchCarries'[v] = k
      BY <1>4, <2>1 DEF TakenOrSettled
    <3>1. k # i /\ batchOutcome[k] = "none"
      BY <1>1, <1>5
    <3>2. PICK v \in Workers : batchCarries[v] = k
      BY <1>4, <3>1 DEF TakenOrSettled
    <3> QED
      BY <2>2, <3>1, <3>2 DEF i
  <2>7. FreeAtTheEnd'
    BY <1>2, <1>4, <1>7, <2>1 DEF FreeAtTheEnd
  <2> QED
    BY <1>2, <2>3, <2>4, <2>5, <2>6, <2>7
<1> QED
  BY <1>6, <1>7

LEMMA BatchStepInv == BatchInv /\ [BatchNext]_batchVars => BatchInv'
<1> SUFFICES ASSUME BatchInv, [BatchNext]_batchVars PROVE BatchInv'
  OBVIOUS
<1>1. ASSUME NEW a \in Actions, execute(a) PROVE BatchInv'
  BY <1>1, StartInv
<1>2. ASSUME NEW w \in Workers, NEW o \in Settled, ItemSettles(w, o) PROVE BatchInv'
  BY <1>2, SettleInv
<1>3. ASSUME RunEnds PROVE BatchInv'
  <2>1. /\ Ended /\ batchListed' \subseteq batchListed
        /\ UNCHANGED batchRunVars
    BY <1>3 DEF RunEnds
  <2> QED
    BY <2>1
    DEF batchRunVars, BatchInv, RunShape, AskedBelowCursor, CarriedApart, TakenOrSettled, FreeAtTheEnd,
        Indices, Ended
<1>4. ASSUME \/ \E b \in BatchBooks : toggleSelection(b) \/ DeleteAlone(b)
             \/ \E page \in BatchPages : SelectPage(page \cap batchListed)
             \/ \E a \in Actions : OpenDialog(a)
             \/ CloseDialog \/ UNCHANGED batchVars
      PROVE  BatchInv'
  <2>1. /\ batchListed' \subseteq batchListed
        /\ UNCHANGED <<batchPhase, batchRunVars>>
    BY <1>4 DEF toggleSelection, DeleteAlone, SelectPage, SetSelection, OpenDialog, CloseDialog, batchVars
  <2> QED
    BY <2>1
    DEF batchRunVars, BatchInv, RunShape, AskedBelowCursor, CarriedApart, TakenOrSettled, FreeAtTheEnd,
        Indices, Ended
<1> QED
  BY <1>1, <1>2, <1>3, <1>4 DEF BatchNext

LEMMA BatchInvAsksOnce == BatchInv => EachBookAskedOnce
<1> SUFFICES ASSUME BatchInv PROVE EachBookAskedOnce
  OBVIOUS
<1>1. \A i \in Indices : batchAsks[i] <= 1
  BY DEF BatchInv, AskedBelowCursor
<1>2. \A v, w \in Workers : batchCarries[v] = batchCarries[w] => v = w \/ batchCarries[v] = Free
  BY DEF BatchInv, CarriedApart
<1>3. ASSUME batchPhase = "result", NEW i \in Indices
      PROVE  batchAsks[i] = 1 /\ batchOutcome[i] # "none"
  <2>1. PICK n \in Nat : batchRun \in [1..n -> BatchBooks] /\ batchCursor \in 1..(n + 1)
    BY DEF BatchInv, RunShape
  <2>2. \A w \in Workers : batchCarries[w] = Free
    BY <1>3 DEF BatchInv, FreeAtTheEnd, Ended
  <2>3. 1 \in Workers
    BY BatchAssumption DEF Workers
  <2>4. Indices = 1..n /\ batchCursor = n + 1
    BY <2>1, <2>2, <2>3 DEF BatchInv, FreeAtTheEnd, Indices
  <2>5. i < batchCursor /\ i # Free
    BY <2>4 DEF Free
  <2> QED
    BY <2>2, <2>5 DEF BatchInv, AskedBelowCursor, TakenOrSettled
<1> QED
  BY <1>1, <1>2, <1>3 DEF EachBookAskedOnce

-----------------------------------------------------------------------------
(***************************************************************************)
(* The run's cells, its cursor and its workers stand to one another as the *)
(* parts of BatchInv say, for any number of books and of workers.          *)
(***************************************************************************)
THEOREM BatchInvariance == BatchSpec => []BatchInv
<1>1. BatchInit => BatchInv
  BY BatchInitInv
<1>2. BatchInv /\ [BatchNext]_batchVars => BatchInv'
  BY BatchStepInv
<1> QED
  BY <1>1, <1>2, PTL DEF BatchSpec

(***************************************************************************)
(* Each book of an action is asked once, by one worker, and has settled    *)
(* when the result is shown.                                               *)
(***************************************************************************)
THEOREM BooksAreAskedOnce == BatchSpec => []EachBookAskedOnce
BY BatchInvariance, BatchInvAsksOnce, PTL

-----------------------------------------------------------------------------
(***************************************************************************)
(* A book asked from a gateway: what is told comes from the server or from *)
(* the clock.  The invariant follows a status from the row to the request  *)
(* that carries it, to the snapshot and to the page.                       *)
(***************************************************************************)

\* A status that is on its way to the page, or shown by it, is one the row has had.
StatusesWereHad ==
  /\ fetchBeen \subseteq JobStatus /\ fetchJob \in fetchBeen \cup {"gone"}
  /\ fetchReq \in [Polls -> fetchBeen \cup {"unsent", "sent", "ended"}]
  /\ fetchView \in fetchBeen \cup {"none", "timeout"}
  /\ fetchView = "timeout" => fetchLate

\* One outcome at most was told, and it was the row's, or the clock's.
ToldOnce ==
  fetchTold # <<>> => \E o \in Outcomes :
    /\ fetchTold = <<o>>
    /\ o = "timeout" => fetchLate
    /\ o # "timeout" => o \in fetchBeen

FetchInv == StatusesWereHad /\ ToldOnce /\ fetchLate \in BOOLEAN

LEMMA FetchInitInv == FetchInit => FetchInv
BY DEF FetchInit, FetchInv, StatusesWereHad, ToldOnce, JobStatus, JobSettled

LEMMA FetchStepInv == FetchInv /\ [FetchNext]_fetchVars => FetchInv'
<1> SUFFICES ASSUME FetchInv, [FetchNext]_fetchVars PROVE FetchInv'
  OBVIOUS
<1> USE DEF FetchInv
<1>1. ASSUME NEW s \in JobStatus \cup {"gone"}, FetchJobMoves(s) PROVE FetchInv'
  <2>1. /\ fetchBeen' = fetchBeen \cup ({s} \ {"gone"}) /\ fetchJob' = s
        /\ UNCHANGED <<fetchReq, fetchView, fetchLate, fetchTold>>
    BY <1>1 DEF FetchJobMoves, fetchHook
  <2>2. StatusesWereHad'
    BY <2>1 DEF StatusesWereHad
  <2>3. ToldOnce'
    BY <2>1 DEF ToldOnce
  <2> QED
    BY <2>1, <2>2, <2>3
<1>2. ASSUME TwentyMinutesPass PROVE FetchInv'
  BY <1>2 DEF TwentyMinutesPass, fetchServer, fetchHook, StatusesWereHad, ToldOnce
<1>3. ASSUME NEW i \in Polls, NEW s \in fetchBeen \cup {"sent", "ended"}, EndRequest(i, s) PROVE FetchInv'
  BY <1>3 DEF EndRequest, fetchServer, StatusesWereHad, ToldOnce
<1>4. ASSUME NEW i \in Polls, FetchAnswered(i) \/ FetchLost(i) \/ Tick(i) \/ DropAnswer(i) PROVE FetchInv'
  <2>1. FetchAnswered(i) => EndRequest(i, "ended") \/ \E s \in fetchBeen : EndRequest(i, s)
    BY DEF FetchAnswered, StatusesWereHad
  <2> QED
    BY <1>3, <1>4, <2>1 DEF FetchLost, Tick, DropAnswer
<1>5. ASSUME NEW i \in Polls, ApplyAnswer(i) PROVE FetchInv'
  <2>1. /\ fetchView' = fetchReq[i] /\ fetchReq' = [fetchReq EXCEPT ![i] = "ended"]
        /\ fetchReq[i] \in fetchBeen
        /\ UNCHANGED <<fetchJob, fetchBeen, fetchLate, fetchTold>>
    BY <1>5 DEF ApplyAnswer, ShowSnapshot, fetchServer, StatusesWereHad, JobStatus, JobSettled
  <2>2. fetchReq[i] # "timeout"
    BY <2>1 DEF StatusesWereHad, JobStatus, JobSettled
  <2> QED
    BY <2>1, <2>2 DEF StatusesWereHad, ToldOnce
<1>6. ASSUME TickLate PROVE FetchInv'
  BY <1>6 DEF TickLate, ShowSnapshot, fetchServer, StatusesWereHad, ToldOnce
<1>7. ASSUME Tell PROVE FetchInv'
  <2>1. /\ fetchView \in Outcomes /\ fetchTold' = <<fetchView>>
        /\ UNCHANGED <<fetchJob, fetchBeen, fetchLate, fetchReq, fetchView>>
    BY <1>7 DEF Tell, fetchServer, fetchHook
  <2>2. fetchView # "timeout" => fetchView \in fetchBeen
    BY <2>1 DEF StatusesWereHad, Outcomes, JobSettled
  <2>3. fetchView = "timeout" => fetchLate
    BY DEF StatusesWereHad
  <2>4. ToldOnce'
    BY <2>1, <2>2, <2>3 DEF ToldOnce
  <2> QED
    BY <2>1, <2>4 DEF StatusesWereHad
<1>8. ASSUME Untrack \/ UNCHANGED fetchVars PROVE FetchInv'
  BY <1>8 DEF Untrack, fetchVars, fetchServer, fetchHook, StatusesWereHad, ToldOnce
<1> QED
  BY <1>1, <1>2, <1>4, <1>5, <1>6, <1>7, <1>8 DEF FetchNext

LEMMA FetchInvTells == FetchInv => OutcomeToldOnce
<1> SUFFICES ASSUME FetchInv PROVE OutcomeToldOnce
  OBVIOUS
<1>1. CASE fetchTold = <<>>
  BY <1>1 DEF OutcomeToldOnce
<1>2. CASE fetchTold # <<>>
  <2>1. PICK o : /\ fetchTold = <<o>>
                 /\ o = "timeout" => fetchLate
                 /\ o # "timeout" => o \in fetchBeen
    BY <1>2 DEF FetchInv, ToldOnce
  <2>2. Len(fetchTold) = 1 /\ fetchTold[1] = o
    BY <2>1
  <2>3. \A k \in 1..Len(fetchTold) : k = 1
    BY <2>2
  <2> QED
    BY <2>1, <2>2, <2>3 DEF OutcomeToldOnce
<1> QED
  BY <1>1, <1>2

(***************************************************************************)
(* What the page shows, and what it told, the row has had or the clock has *)
(* said, for any number of requests and whatever order their answers take. *)
(***************************************************************************)
THEOREM FetchInvariance == FetchSpec => []FetchInv
BY FetchInitInv, FetchStepInv, PTL DEF FetchSpec

(***************************************************************************)
(* The page tells one outcome at most: one the row has had, or the time    *)
(* that is up.                                                             *)
(***************************************************************************)
THEOREM OutcomesAreToldOnce == FetchSpec => []OutcomeToldOnce
BY FetchInvariance, FetchInvTells, PTL

-----------------------------------------------------------------------------
(***************************************************************************)
(* The dialog of a book.  Every answer comes with the book it was asked    *)
(* for, and some are written whatever the dialog shows.  The invariant     *)
(* follows the deliveries from the server to the answer of a POST and to   *)
(* what was loaded, says that the only requests still attended are for the *)
(* book that is shown, and that a form holds something only while it is    *)
(* open on the book it was typed for.                                      *)
(***************************************************************************)

\* What was loaded, and what an answer brings, is of its book as long as the
\* book is there.
LoadedIsServers ==
  detHistory.book \in detRows => detHistory.jobs \subseteq detJobsOf[detHistory.book]
PostedIsServers ==
  detPost.book \in detRows => detPost.jobs \subseteq detJobsOf[detPost.book]

\* The requests for deliveries that are not cancelled are for the book shown.
LiveAsksAreForItem == \A a \in detAsks : a.live => a.book = detItem

\* The deliveries of the book shown were loaded or failed to, or they come, or
\* were dropped by the answer of another book's delivery.
HistoryIsComing ==
  detItem # NoDetBook =>
    \/ detItem \in {detHistory.book, detFailed} \/ detCrossed
    \/ [book |-> detItem, live |-> TRUE] \in detAsks

\* What is typed belongs to an open form, of the book shown.
FormIsOfItem == detForm # NoDetBook => detDialog = "edit" /\ detForm = detItem

DetInv ==
  /\ DetTypeOK /\ LoadedIsServers /\ PostedIsServers /\ LiveAsksAreForItem
  /\ HistoryIsComing /\ FormIsOfItem /\ GoneIsClosed

-----------------------------------------------------------------------------
(***************************************************************************)
(* Showing a book, or none, cancels the requests of the one before, and    *)
(* asks for its deliveries if it was not shown already.                    *)
(***************************************************************************)
LEMMA ShownIsAsked ==
  ASSUME DetTypeOK, LiveAsksAreForItem, NEW b \in BookOrNone, ShowBook(b)
  PROVE  /\ detItem' = b /\ detAsks' \subseteq AsksType
         /\ \A a \in detAsks' : a.live => a.book = b
         /\ b # NoDetBook =>
              \/ b = detItem /\ detAsks' = detAsks
              \/ [book |-> b, live |-> TRUE] \in detAsks'
<1>1. Stale(detAsks) \subseteq AsksType /\ \A a \in Stale(detAsks) : ~a.live
  <2>1. \A a \in detAsks : a \in AsksType
    BY DEF DetTypeOK
  <2>2. ASSUME NEW a \in AsksType
        PROVE  [a EXCEPT !.live = FALSE] \in AsksType /\ ~[a EXCEPT !.live = FALSE].live
    BY DEF AsksType
  <2> QED
    BY <2>1, <2>2 DEF Stale
<1>2. CASE b = detItem
  BY <1>2 DEF ShowBook, DetTypeOK, LiveAsksAreForItem
<1>3. CASE b # detItem /\ b = NoDetBook
  BY <1>1, <1>3 DEF ShowBook, AskFor
<1>4. CASE b # detItem /\ b # NoDetBook
  <2>1. detAsks' = Stale(detAsks) \cup {[book |-> b, live |-> TRUE]} /\ detItem' = b
    BY <1>4 DEF ShowBook, AskFor
  <2>2. [book |-> b, live |-> TRUE] \in AsksType
    BY <1>4 DEF BookOrNone, AsksType
  <2>3. ASSUME NEW a \in detAsks', a.live PROVE a.book = b
    BY <1>1, <2>1, <2>3
  <2> QED
    BY <1>1, <2>1, <2>2, <2>3
<1> QED
  BY <1>2, <1>3, <1>4

(***************************************************************************)
(* A form whose key stays keeps what was typed for the book shown; another *)
(* is empty.                                                               *)
(***************************************************************************)
LEMMA RekeyedForm ==
  ASSUME DetTypeOK, FormIsOfItem, Rekeyed
  PROVE  FormIsOfItem' /\ detForm' \in BookOrNone
<1>1. CASE detDialog = "edit" /\ detDialog' = "edit" /\ detItem' = detItem
  BY <1>1 DEF DetTypeOK, FormIsOfItem, Rekeyed, FormKey
<1>2. CASE detDialog = "edit" /\ ~(detDialog' = "edit" /\ detItem' = detItem)
  <2>1. FormKey' # FormKey
    BY <1>2 DEF FormKey
  <2> QED
    BY <2>1 DEF FormIsOfItem, Rekeyed, BookOrNone
<1>3. CASE detDialog # "edit"
  BY <1>3 DEF FormIsOfItem, Rekeyed, BookOrNone
<1> QED
  BY <1>1, <1>2, <1>3

-----------------------------------------------------------------------------
LEMMA DetInitInv == DetInit => DetInv
<1> SUFFICES ASSUME DetInit PROVE DetInv
  OBVIOUS
<1>1. DetTypeOK
  BY DEF DetInit, DetTypeOK, NoJobs, NoPatch, NoDelete, BookOrNone
<1> QED
  BY <1>1
  DEF DetInit, DetInv, LoadedIsServers, PostedIsServers, LiveAsksAreForItem, HistoryIsComing,
      FormIsOfItem, GoneIsClosed, NoJobs

(***************************************************************************)
(* What opens and closes the dialogs.                                      *)
(***************************************************************************)
LEMMA DetDialogsInv ==
  ASSUME DetInv,
         \/ \E b \in DetBooks : OpenDetail(b)
         \/ \E d \in {"none", "deliver", "edit", "confirm"} : OpenOver(d)
         \/ CloseDetail \/ TypeEdit
  PROVE  DetInv'
<1> USE DEF DetInv
<1>1. ASSUME NEW b \in BookOrNone, ShowBook(b), Rekeyed, b \in detItems \cup {NoDetBook},
             UNCHANGED <<detServer, detItems, detDialog, detHistory, detFailed, detCalls, detSeen>>,
             b # NoDetBook => detItem = NoDetBook
      PROVE  DetInv'
  <2>1. DetTypeOK'
    BY <1>1, ShownIsAsked, RekeyedForm DEF DetTypeOK, detServer, detCalls, detSeen
  <2>2. LoadedIsServers' /\ PostedIsServers' /\ LiveAsksAreForItem' /\ FormIsOfItem'
    BY <1>1, ShownIsAsked, RekeyedForm
    DEF LoadedIsServers, PostedIsServers, LiveAsksAreForItem, detServer, detCalls
  <2>3. HistoryIsComing' /\ GoneIsClosed'
    BY <1>1, ShownIsAsked DEF HistoryIsComing, GoneIsClosed, detSeen
  <2> QED
    BY <2>1, <2>2, <2>3
<1>2. ASSUME NEW b \in DetBooks, OpenDetail(b) PROVE DetInv'
  BY <1>1, <1>2 DEF OpenDetail, BookOrNone
<1>3. ASSUME CloseDetail PROVE DetInv'
  BY <1>1, <1>3 DEF CloseDetail, BookOrNone
<1>4. ASSUME NEW d \in {"none", "deliver", "edit", "confirm"}, OpenOver(d) PROVE DetInv'
  <2>1. Rekeyed /\ detDialog' = d
        /\ UNCHANGED <<detServer, detItems, detItem, detDeliveries, detCalls, detSeen>>
    BY <1>4 DEF OpenOver
  <2> QED
    BY <2>1, RekeyedForm
    DEF detServer, detDeliveries, detCalls, detSeen, DetTypeOK, LoadedIsServers, PostedIsServers,
        LiveAsksAreForItem, HistoryIsComing, GoneIsClosed
<1>5. ASSUME TypeEdit PROVE DetInv'
  BY <1>5
  DEF TypeEdit, detServer, detShown, detDeliveries, detCalls, detSeen, DetTypeOK, LoadedIsServers,
      PostedIsServers, LiveAsksAreForItem, HistoryIsComing, FormIsOfItem, GoneIsClosed, BookOrNone
<1> QED
  BY <1>2, <1>3, <1>4, <1>5

(***************************************************************************)
(* Loading the deliveries: an answer that is attended is of the book       *)
(* shown.                                                                  *)
(***************************************************************************)
LEMMA DetHistoryInv ==
  ASSUME DetInv, NEW a \in detAsks, HistoryAnswered(a) \/ HistoryFails(a)
  PROVE  DetInv'
<1> USE DEF DetInv
<1>1. /\ detAsks' = detAsks \ {a} /\ a \in AsksType
      /\ UNCHANGED <<detServer, detShown, detForm, detCalls, detSeen>>
  BY DEF HistoryAnswered, HistoryFails, DetTypeOK
<1>2. \/ ~a.live /\ UNCHANGED <<detHistory, detFailed>>
      \/ /\ a.live /\ a.book = detItem /\ UNCHANGED detFailed
         /\ detHistory' = [book |-> a.book, jobs |-> detJobsOf[a.book]]
      \/ a.live /\ a.book = detItem /\ detFailed' = a.book /\ UNCHANGED detHistory
  BY DEF HistoryAnswered, HistoryFails, LiveAsksAreForItem
<1>3. DetTypeOK'
  BY <1>1, <1>2 DEF DetTypeOK, AsksType, BookOrNone, detServer, detShown, detCalls, detSeen
<1>4. LoadedIsServers'
  BY <1>1, <1>2 DEF LoadedIsServers, detServer
<1>5. HistoryIsComing'
  BY <1>1, <1>2 DEF HistoryIsComing, detShown, detSeen
<1> QED
  BY <1>1, <1>3, <1>4, <1>5
  DEF PostedIsServers, LiveAsksAreForItem, FormIsOfItem, GoneIsClosed, detServer, detShown, detCalls, detSeen

(***************************************************************************)
(* A delivery, from its POST to onDelivered: what it brings is of the book *)
(* it was sent for, and what another book's brings is marked.              *)
(***************************************************************************)
LEMMA DetDeliveryInv ==
  ASSUME DetInv, PostDelivery \/ PostFails \/ onDelivered \/ \E j \in DetJobs : CreateJob(j)
  PROVE  DetInv'
<1> USE DEF DetInv
<1>1. ASSUME PostDelivery \/ PostFails PROVE DetInv'
  <2>1. /\ detPost' = [book |-> detItem, jobs |-> {}] \/ detPost' = NoJobs
        /\ UNCHANGED <<detServer, detShown, detForm, detDeliveries, detPatch, detDelete, detSeen>>
    BY <1>1 DEF PostDelivery, PostFails
  <2>2. DetTypeOK' /\ PostedIsServers'
    BY <2>1 DEF DetTypeOK, PostedIsServers, NoJobs, BookOrNone, detServer, detShown, detDeliveries, detSeen
  <2> QED
    BY <2>1, <2>2
    DEF LoadedIsServers, LiveAsksAreForItem, HistoryIsComing, FormIsOfItem, GoneIsClosed,
        detServer, detShown, detDeliveries, detSeen
<1>2. ASSUME NEW j \in DetJobs, CreateJob(j) PROVE DetInv'
  <2>1. /\ detPost.book \in detRows /\ detPost.book \in DetBooks
        /\ detJobsOf' = [detJobsOf EXCEPT ![detPost.book] = @ \cup {j}]
        /\ detPost' = [detPost EXCEPT !.jobs = {j}]
        /\ UNCHANGED <<detRows, detShown, detForm, detDeliveries, detPatch, detDelete, detSeen>>
    BY <1>2 DEF CreateJob, DetTypeOK
  <2>2. DetTypeOK'
    BY <2>1 DEF DetTypeOK, detShown, detDeliveries, detSeen
  <2>3. \A b \in DetBooks : detJobsOf[b] \subseteq detJobsOf'[b]
    BY <2>1 DEF DetTypeOK
  <2>4. detPost'.book = detPost.book /\ detPost'.jobs = {j} /\ j \in detJobsOf'[detPost.book]
    BY <2>1 DEF DetTypeOK
  <2>5. LoadedIsServers' /\ PostedIsServers'
    BY <2>1, <2>3, <2>4 DEF LoadedIsServers, PostedIsServers, DetTypeOK, detDeliveries
  <2> QED
    BY <2>1, <2>2, <2>5
    DEF LiveAsksAreForItem, HistoryIsComing, FormIsOfItem, GoneIsClosed, detShown, detDeliveries, detSeen
<1>3. ASSUME onDelivered PROVE DetInv'
  <2> DEFINE b == detPost.book
  <2>1. /\ detFailed' = IF detFailed = b THEN NoDetBook ELSE detFailed
        /\ detHistory' = [book |-> b, jobs |-> detPost.jobs \cup
                            (IF detHistory.book = b THEN detHistory.jobs ELSE {})]
        /\ detCrossed' = (detCrossed \/ detItem # b)
        /\ detPost' = NoJobs /\ Rekeyed
        /\ detDialog' = IF detDialog = "deliver" THEN "none" ELSE detDialog
        /\ UNCHANGED <<detServer, detItems, detItem, detAsks, detPatch, detDelete, detLate>>
    BY <1>3 DEF onDelivered
  <2>2. DetTypeOK'
    BY <2>1, RekeyedForm DEF DetTypeOK, NoJobs, BookOrNone, detServer
  <2>3. LoadedIsServers' /\ PostedIsServers'
    BY <2>1 DEF LoadedIsServers, PostedIsServers, NoJobs, detServer
  <2>4. HistoryIsComing' /\ LiveAsksAreForItem' /\ GoneIsClosed'
    BY <2>1 DEF HistoryIsComing, LiveAsksAreForItem, GoneIsClosed
  <2> QED
    BY <2>1, <2>2, <2>3, <2>4, RekeyedForm
<1> QED
  BY <1>1, <1>2, <1>3

(***************************************************************************)
(* An edit, whose answer shows its book, and a deletion, whose answer      *)
(* closes whatever is shown.                                               *)
(***************************************************************************)
LEMMA DetEditInv ==
  ASSUME DetInv, \/ PatchBook \/ PatchServed \/ PatchFails \/ onUpdated
                 \/ handleDelete \/ DeleteServed \/ DetDeleteFails \/ onDeleted
  PROVE  DetInv'
<1> USE DEF DetInv
<1>1. ASSUME PatchBook \/ PatchServed \/ PatchFails \/ handleDelete \/ DetDeleteFails PROVE DetInv'
  <2>1. UNCHANGED <<detServer, detShown, detForm, detDeliveries, detPost, detSeen>>
    BY <1>1 DEF PatchBook, PatchServed, PatchFails, handleDelete, DetDeleteFails
  <2>2. detPatch' \in [book : BookOrNone, served : BOOLEAN]
    <3>1. detPatch \in [book : BookOrNone, served : BOOLEAN] /\ detItem \in BookOrNone
      BY DEF DetTypeOK
    <3>2. CASE PatchBook
      BY <3>1, <3>2 DEF PatchBook
    <3>3. CASE PatchServed
      BY <3>1, <3>3 DEF PatchServed
    <3>4. CASE PatchFails
      BY <3>4 DEF PatchFails, NoPatch, BookOrNone
    <3> QED
      BY <1>1, <3>1, <3>2, <3>3, <3>4 DEF handleDelete, DetDeleteFails
  <2>3. detDelete' \in [book : BookOrNone, gone : BOOLEAN]
    <3>1. detDelete \in [book : BookOrNone, gone : BOOLEAN] /\ detItem \in BookOrNone
      BY DEF DetTypeOK
    <3>2. CASE handleDelete
      BY <3>1, <3>2 DEF handleDelete
    <3>3. CASE DetDeleteFails
      BY <3>3 DEF DetDeleteFails, NoDelete, BookOrNone
    <3> QED
      BY <1>1, <3>1, <3>2, <3>3 DEF PatchBook, PatchServed, PatchFails
  <2> QED
    BY <2>1, <2>2, <2>3
    DEF DetTypeOK, LoadedIsServers, PostedIsServers, LiveAsksAreForItem, HistoryIsComing, FormIsOfItem,
        GoneIsClosed, detServer, detShown, detDeliveries, detSeen
<1>2. ASSUME onUpdated PROVE DetInv'
  <2>1. /\ ShowBook(detPatch.book) /\ detPatch.book \in BookOrNone /\ Rekeyed /\ detPatch' = NoPatch
        /\ detDialog' = IF detDialog = "edit" THEN "none" ELSE detDialog
        /\ detLate' = (detLate \/ detPatch.book \notin detItems)
        /\ UNCHANGED <<detServer, detItems, detHistory, detFailed, detPost, detDelete, detCrossed>>
    BY <1>2 DEF onUpdated, DetTypeOK
  <2>2. DetTypeOK'
    BY <2>1, ShownIsAsked, RekeyedForm DEF DetTypeOK, NoPatch, BookOrNone, detServer
  <2>3. LoadedIsServers' /\ PostedIsServers' /\ LiveAsksAreForItem' /\ FormIsOfItem'
    BY <2>1, ShownIsAsked, RekeyedForm DEF LoadedIsServers, PostedIsServers, LiveAsksAreForItem, detServer
  <2>4. HistoryIsComing'
    <3>1. /\ detItem' = detPatch.book
          /\ detPatch.book # NoDetBook =>
               \/ detPatch.book = detItem /\ detAsks' = detAsks
               \/ [book |-> detPatch.book, live |-> TRUE] \in detAsks'
      BY <2>1, ShownIsAsked
    <3>2. UNCHANGED <<detHistory, detFailed, detCrossed>>
      BY <2>1
    <3> QED
      BY <3>1, <3>2 DEF HistoryIsComing
  <2>5. GoneIsClosed'
    BY <2>1, ShownIsAsked DEF GoneIsClosed
  <2> QED
    BY <2>2, <2>3, <2>4, <2>5
<1>3. ASSUME DeleteServed PROVE DetInv'
  <2>1. /\ detDelete.book \in DetBooks /\ detRows' = detRows \ {detDelete.book}
        /\ detJobsOf' = [detJobsOf EXCEPT ![detDelete.book] = {}]
        /\ detDelete' = [detDelete EXCEPT !.gone = TRUE]
        /\ UNCHANGED <<detShown, detForm, detDeliveries, detPost, detPatch, detSeen>>
    BY <1>3 DEF DeleteServed, DetTypeOK
  <2>2. DetTypeOK'
    BY <2>1 DEF DetTypeOK, detShown, detDeliveries, detSeen
  <2>3. \A b \in detRows' : b \in detRows /\ detJobsOf'[b] = detJobsOf[b]
    BY <2>1 DEF DetTypeOK
  <2>4. LoadedIsServers' /\ PostedIsServers'
    BY <2>1, <2>3 DEF LoadedIsServers, PostedIsServers, detDeliveries
  <2> QED
    BY <2>1, <2>2, <2>4
    DEF LiveAsksAreForItem, HistoryIsComing, FormIsOfItem, GoneIsClosed, detShown, detDeliveries, detSeen
<1>4. ASSUME onDeleted PROVE DetInv'
  <2>1. /\ ShowBook(NoDetBook) /\ NoDetBook \in BookOrNone /\ Rekeyed /\ detDelete' = NoDelete
        /\ detDialog' = IF detDialog = "confirm" THEN "none" ELSE detDialog
        /\ detItems' = detItems \ {detDelete.book}
        /\ UNCHANGED <<detServer, detHistory, detFailed, detPost, detPatch, detSeen>>
    BY <1>4 DEF onDeleted, BookOrNone
  <2>2. DetTypeOK'
    BY <2>1, ShownIsAsked, RekeyedForm DEF DetTypeOK, NoDelete, BookOrNone, detServer, detSeen
  <2>3. LoadedIsServers' /\ PostedIsServers' /\ LiveAsksAreForItem' /\ FormIsOfItem'
    BY <2>1, ShownIsAsked, RekeyedForm DEF LoadedIsServers, PostedIsServers, LiveAsksAreForItem, detServer
  <2>4. HistoryIsComing' /\ GoneIsClosed'
    BY <2>1, ShownIsAsked DEF HistoryIsComing, GoneIsClosed
  <2> QED
    BY <2>2, <2>3, <2>4
<1> QED
  BY <1>1, <1>2, <1>3, <1>4

LEMMA DetStepInv == DetInv /\ [DetNext]_detVars => DetInv'
<1> SUFFICES ASSUME DetInv, [DetNext]_detVars PROVE DetInv'
  OBVIOUS
<1>1. CASE UNCHANGED detVars
  BY <1>1
  DEF DetInv, DetTypeOK, LoadedIsServers, PostedIsServers, LiveAsksAreForItem, HistoryIsComing,
      FormIsOfItem, GoneIsClosed, detVars, detServer, detShown, detDeliveries, detCalls, detSeen
<1> QED
  BY <1>1, DetDialogsInv, DetHistoryInv, DetDeliveryInv, DetEditInv DEF DetNext

-----------------------------------------------------------------------------
(***************************************************************************)
(* The state of the dialog has its type, its requests and its form are of  *)
(* the book shown, and what it loaded is of the book it was loaded for.    *)
(***************************************************************************)
THEOREM DetInvariance == DetSpec => []DetInv
BY DetInitInv, DetStepInv, PTL DEF DetSpec

(***************************************************************************)
(* The dialog shows the deliveries and the form of its own book, loads     *)
(* what it says it loads, and is not open on a book that has left the      *)
(* list, but for the two answers that the properties name.                 *)
(***************************************************************************)
THEOREM DialogShowsItsBook == DetSpec => []BookIsTheOneShown
<1>1. DetInv => BookIsTheOneShown
  BY DEF DetInv, BookIsTheOneShown, DetailIsOfItsBook, DeliveriesShown, loadingDeliveries,
         LoadedIsServers, HistoryIsComing, FormIsOfItem
<1> QED
  BY <1>1, DetInvariance, PTL

-----------------------------------------------------------------------------
(***************************************************************************)
(* The cover of a book.  An object URL is made by the request of the       *)
(* running effect alone, and is the only one alive until the effect is     *)
(* cleaned up.                                                             *)
(***************************************************************************)
CoverInv ==
  /\ CoverTypeOK
  /\ coverLive => coverKey \in CoverBooks /\ coverUrl = NoCover
  /\ coverUrl \in {NoCover, coverKey} /\ coverAlive = {coverUrl} \ {NoCover}
  /\ coverSrc \in {NoCover, coverUrl}

LEMMA CoverInitInv == CoverInit => CoverInv
  BY DEF CoverInit, CoverInv, CoverTypeOK

LEMMA CoverStepInv == CoverInv /\ [CoverNext]_coverVars => CoverInv'
<1> SUFFICES ASSUME CoverInv, [CoverNext]_coverVars PROVE CoverInv'
  OBVIOUS
<1> USE DEF CoverInv, CoverTypeOK
<1>1. CASE UNCHANGED coverVars
  BY <1>1 DEF coverVars
<1>2. ASSUME NEW k \in CoverBooks \cup {NoCover}, SetKey(k) PROVE CoverInv'
  BY <1>2 DEF SetKey, CleanUp
<1>3. ASSUME NEW k \in CoverBooks, OldAnswered(k) PROVE CoverInv'
  BY <1>3 DEF OldAnswered
<1>4. CASE CoverAnswered
  <2>1. coverKey' = coverKey /\ coverUrl' = coverKey /\ coverSrc' = coverKey
    BY <1>4 DEF CoverAnswered
  <2>2. coverKey # NoCover /\ coverAlive' = {coverKey} \ {NoCover}
    BY <1>4, CoverAssumption DEF CoverAnswered
  <2>3. coverLive' = FALSE /\ coverFailed' = FALSE /\ coverOld' = coverOld
    BY <1>4 DEF CoverAnswered
  <2> QED
    BY <2>1, <2>2, <2>3
<1>5. CASE CoverFails
  BY <1>5 DEF CoverFails
<1>6. CASE ImageError
  BY <1>6 DEF ImageError
<1> QED
  BY <1>1, <1>2, <1>3, <1>4, <1>5, <1>6 DEF CoverNext

\* The picture shown is the book's own and the only one kept, for any books and
\* any crossing of their requests (cover-image.tsx).
THEOREM CoversAreOfTheirBooks == CoverSpec => [](CoverTypeOK /\ CoverIsOfItsBook)
<1>1. CoverInv => CoverTypeOK /\ CoverIsOfItsBook
  BY DEF CoverInv, CoverIsOfItsBook
<1> QED
  BY <1>1, CoverInitInv, CoverStepInv, PTL DEF CoverSpec

-----------------------------------------------------------------------------
(***************************************************************************)
(* The search of the sources.  What is left in the flags when the owner    *)
(* leaves the sources is nobody's; what is asked for is asked from there.  *)
(***************************************************************************)
SearchInv ==
  /\ SearchTypeOK /\ SearchIsCurrent
  /\ srchMode = "mine" => srchLive = Nothing
  /\ srchMode = "sources" => srchResults \in {Nothing, srchCrit}

LEMMA CriteriaAreSomething ==
  /\ Nothing \notin Criteria
  /\ \A q \in Queries \cup {Blank} : First(q) \in Criteria
  /\ \A c \in Criteria : c.query \in Queries \cup {Blank}
  BY SearchAssumption DEF Nothing, Criteria, First

LEMMA SearchInitInv == SearchInit => SearchInv
<1> SUFFICES ASSUME SearchInit PROVE SearchInv
  OBVIOUS
<1>1. First(Blank) \in Criteria
  BY CriteriaAreSomething
<1>2. SearchTypeOK
  BY <1>1 DEF SearchInit, SearchTypeOK
<1> QED
  BY <1>2 DEF SearchInit, SearchInv, SearchIsCurrent

\* What the effect leaves of the flags, when it runs for an address.
LEMMA SearchForKeeps ==
  ASSUME SearchTypeOK, NEW mode \in {"mine", "sources"}, NEW crit \in Criteria,
         SearchFor(mode, crit), srchMode' = mode, srchCrit' = crit
  PROVE  /\ srchLive' \in Criteria \cup {Nothing} /\ srchAborted' \subseteq Criteria
         /\ searching' \in BOOLEAN /\ searchError' \in BOOLEAN
         /\ srchResults' \in Criteria \cup {Nothing}
         /\ SearchIsCurrent'
         /\ srchMode' = "mine" => srchLive' = Nothing
         /\ srchMode' = "sources" => srchResults' \in {Nothing, srchCrit'}
<1>1. srchAborted' \subseteq Criteria
  BY DEF SearchFor, Abort, SearchTypeOK
<1>2. CASE mode = "mine"
  BY <1>1, <1>2 DEF SearchFor, SearchTypeOK, SearchIsCurrent
<1>3. CASE mode = "sources" /\ crit.query = Blank
  BY <1>1, <1>3 DEF SearchFor, SearchTypeOK, SearchIsCurrent, SearchShows
<1>4. CASE mode = "sources" /\ crit.query # Blank
  BY <1>1, <1>4, CriteriaAreSomething DEF SearchFor, SearchTypeOK, SearchIsCurrent, SearchShows
<1> QED
  BY <1>2, <1>3, <1>4

LEMMA AddressKeeps ==
  ASSUME SearchInv, NEW mode \in {"mine", "sources"}, NEW crit \in Criteria,
         Address(mode, crit), srchTab' \in {"search", "import"}
  PROVE  SearchInv'
<1>1. srchMode' = mode /\ srchCrit' = crit /\ srchMore' = srchMore
  BY DEF Address
<1>2. srchDraft' \in Queries \cup {Blank}
  BY CriteriaAreSomething DEF Address, SearchInv, SearchTypeOK
<1>3. CASE <<mode, crit>> = srchAddress
  <2>1. UNCHANGED <<srchMode, srchCrit, srchLive, srchAborted, searching, searchError, srchResults>>
    BY <1>1, <1>3 DEF Address, srchAddress, srchRequests
  <2> QED
    BY <1>1, <1>2, <2>1 DEF SearchInv, SearchTypeOK, SearchIsCurrent, SearchShows
<1>4. CASE <<mode, crit>> # srchAddress
  <2>1. SearchFor(mode, crit)
    BY <1>4 DEF Address
  <2> QED
    BY <1>1, <1>2, <2>1, SearchForKeeps DEF SearchInv, SearchTypeOK
<1> QED
  BY <1>3, <1>4

LEMMA SearchStepInv == SearchInv /\ [SearchNext]_srchVars => SearchInv'
<1> SUFFICES ASSUME SearchInv, [SearchNext]_srchVars PROVE SearchInv'
  OBVIOUS
<1>1. CASE UNCHANGED srchVars
  BY <1>1 DEF srchVars, srchAddress, srchFlags, srchRequests, SearchInv, SearchTypeOK,
         SearchIsCurrent, SearchShows
<1>2. ASSUME NEW mode \in {"mine", "sources"}, NEW c \in Criteria, Popstate(mode, c)
      PROVE  SearchInv'
  BY <1>2, AddressKeeps DEF Popstate, SearchInv, SearchTypeOK
<1>3. ASSUME NEW q \in Queries \cup {Blank}, Type(q) PROVE SearchInv'
  <2>1. CASE srchMode = "mine"
    BY <1>3, <2>1, AddressKeeps, CriteriaAreSomething DEF Type, SearchInv, SearchTypeOK
  <2>2. CASE srchMode # "mine"
    BY <1>3, <2>2 DEF Type, srchAddress, srchFlags, srchRequests, SearchInv, SearchTypeOK,
           SearchIsCurrent, SearchShows
  <2> QED
    BY <2>1, <2>2
<1>4. ASSUME NEW q \in Queries \cup {Blank}, changeFilters(q) PROVE SearchInv'
  BY <1>4, AddressKeeps, CriteriaAreSomething DEF changeFilters, SearchInv, SearchTypeOK
<1>5. ASSUME NEW tab \in {"search", "import"}, setAddTab(tab) PROVE SearchInv'
  BY <1>5 DEF setAddTab, srchAddress, srchFlags, srchRequests, SearchInv, SearchTypeOK,
         SearchIsCurrent, SearchShows
<1>6. ASSUME NEW p \in 1..MaxPage, TurnPage(p) PROVE SearchInv'
  <2>1. [srchCrit EXCEPT !.page = p] \in Criteria
    BY DEF SearchInv, SearchTypeOK, Criteria
  <2> QED
    BY <1>6, <2>1, AddressKeeps DEF TurnPage, SearchInv, SearchTypeOK
<1>7. ASSUME NEW more \in BOOLEAN, SearchAnswered(more) PROVE SearchInv'
  BY <1>7 DEF SearchAnswered, srchAddress, SearchInv, SearchTypeOK, SearchIsCurrent, SearchShows
<1>8. ASSUME NEW c \in srchAborted, AbortedEnds(c) PROVE SearchInv'
  BY <1>8 DEF AbortedEnds, srchAddress, srchFlags, SearchInv, SearchTypeOK, SearchIsCurrent,
         SearchShows
<1>9. CASE SwitchMode
  BY <1>9, AddressKeeps, CriteriaAreSomething DEF SwitchMode, SearchInv, SearchTypeOK
<1>10. CASE runSearch
  BY <1>10, SearchForKeeps, CriteriaAreSomething DEF runSearch, SearchInv, SearchTypeOK
<1>11. CASE SearchFails
  BY <1>11 DEF SearchFails, srchAddress, SearchInv, SearchTypeOK, SearchIsCurrent, SearchShows
<1> QED
  BY <1>1, <1>2, <1>3, <1>4, <1>5, <1>6, <1>7, <1>8, <1>9, <1>10, <1>11 DEF SearchNext

\* The results are those of the criteria in the address and the spinner is that
\* of their request, for any queries and pages and any order of the answers of
\* requests that were aborted (library-view.tsx, its search effect).
THEOREM SearchesAreCurrent == SearchSpec => [](SearchTypeOK /\ SearchIsCurrent)
<1>1. SearchInv => SearchTypeOK /\ SearchIsCurrent
  BY DEF SearchInv
<1> QED
  BY <1>1, SearchInitInv, SearchStepInv, PTL DEF SearchSpec

-----------------------------------------------------------------------------
(***************************************************************************)
(* The palette.  A text is waited for by its timer or by its request,      *)
(* never by both nor after it has books or has failed; and the entry that  *)
(* is active is one of those there are, so that books which come after     *)
(* the commands move none that the user has seen.                          *)
(***************************************************************************)
PaletteInv ==
  /\ PaletteTypeOK /\ PaletteIsCurrent
  /\ ~(palTimer /\ palAsked)
  /\ palTimer \/ palAsked => palQuery # NoText /\ palBooks = NoText /\ ~palFailed
  /\ palFailed => palBooks = NoText /\ palQuery # NoText
  /\ palActive < entries \/ palActive = 0

\* An entry is of a kind, and what is counted of a text is a number.
LEMMA EntriesAre ==
  ASSUME NEW q \in PalTexts \cup {NoText}, NEW books \in PalTexts \cup {NoText},
         NEW active \in Nat
  PROVE  /\ PalSize(q, books) \in Nat /\ PalCommands[q] \in Nat
         /\ PalCommands[q] <= PalSize(q, books)
         /\ PalEntry(q, books, active) \in {"command", "book", "nothing"} \X Nat
         /\ PalEntry(q, books, active)[1] = "nothing" <=> PalSize(q, books) = 0
<1>1. PalCommands[q] \in Nat /\ (books # NoText => PalFound[books] \in Nat)
  BY PaletteAssumption
<1>2. PalSize(q, books) \in Nat /\ PalCommands[q] <= PalSize(q, books)
  BY <1>1 DEF PalSize
<1>3. PalIndex(q, books, active) \in Nat
  BY <1>2 DEF PalIndex, PalLeast
<1>4. PalSize(q, books) # 0 => PalIndex(q, books, active) < PalSize(q, books)
  BY <1>2 DEF PalIndex, PalLeast
<1>5. PalSize(q, books) = 0 => PalIndex(q, books, active) = 0
  BY DEF PalIndex, PalLeast
<1> QED
  BY <1>1, <1>2, <1>3, <1>4, <1>5 DEF PalEntry

\* Books that come after the entries there were leave those where they are.
LEMMA BooksComeAfter ==
  ASSUME NEW q \in PalTexts, NEW active \in Nat,
         active < PalSize(q, NoText) \/ active = 0, PalSize(q, NoText) # 0
  PROVE  PalEntry(q, q, active) = PalEntry(q, NoText, active)
<1>1. PalCommands[q] \in Nat /\ PalFound[q] \in Nat /\ q # NoText
  BY PaletteAssumption
<1>2. PalSize(q, NoText) = PalCommands[q] /\ PalSize(q, q) = PalCommands[q] + PalFound[q]
  BY <1>1 DEF PalSize
<1>3. PalIndex(q, q, active) = active /\ PalIndex(q, NoText, active) = active
  BY <1>1, <1>2 DEF PalIndex, PalLeast
<1> QED
  BY <1>1, <1>2, <1>3 DEF PalEntry

LEMMA PaletteFresh ==
  ASSUME PaletteInv, PalAbort, PalFresh, palOpen' \in BOOLEAN
  PROVE  PaletteInv'
<1>1. PalEntry(NoText, NoText, 0) \in {"command", "book", "nothing"} \X Nat
  BY EntriesAre
<1>2. palLate' \subseteq PalTexts
  BY DEF PalAbort, PaletteInv, PaletteTypeOK
<1>3. PaletteTypeOK'
  BY <1>1, <1>2 DEF PalFresh, PaletteTypeOK
<1> QED
  BY <1>3 DEF PalFresh, PaletteInv, PaletteIsCurrent, Highlighted

LEMMA PaletteInitInv == PaletteInit => PaletteInv
<1> SUFFICES ASSUME PaletteInit PROVE PaletteInv
  OBVIOUS
<1>1. PalEntry(NoText, NoText, 0) \in {"command", "book", "nothing"} \X Nat
  BY EntriesAre
<1>2. PaletteTypeOK
  BY <1>1 DEF PaletteInit, PaletteTypeOK
<1> QED
  BY <1>2 DEF PaletteInit, PaletteInv, PaletteIsCurrent, Highlighted

LEMMA PaletteStepInv == PaletteInv /\ [PaletteNext]_palVars => PaletteInv'
<1> SUFFICES ASSUME PaletteInv, [PaletteNext]_palVars PROVE PaletteInv'
  OBVIOUS
<1>1. CASE UNCHANGED palVars
  BY <1>1 DEF palVars, palKeys, palAsking, PaletteInv, PaletteTypeOK, PaletteIsCurrent,
         Highlighted, entries
<1>2. CASE TogglePalette \/ ChooseEntry
  BY <1>2, PaletteFresh DEF TogglePalette, ChooseEntry, PaletteInv, PaletteTypeOK
<1>3. ASSUME NEW q \in PalTexts \cup {NoText}, TypeText(q) PROVE PaletteInv'
  <2>1. PalEntry(q, NoText, 0) \in {"command", "book", "nothing"} \X Nat
    BY EntriesAre
  <2>2. palLate' \subseteq PalTexts
    BY <1>3 DEF TypeText, PalAbort, PaletteInv, PaletteTypeOK
  <2>3. PaletteTypeOK'
    BY <1>3, <2>1, <2>2 DEF TypeText, PaletteInv, PaletteTypeOK
  <2> QED
    BY <1>3, <2>3 DEF TypeText, PaletteInv, PaletteIsCurrent, Highlighted
<1>4. CASE PalTimerFires
  BY <1>4 DEF PalTimerFires, palKeys, PaletteInv, PaletteTypeOK, PaletteIsCurrent,
         Highlighted, entries
<1>5. CASE PalAnswered
  <2>1. palQuery \in PalTexts /\ palBooks = NoText /\ palActive \in Nat /\ ~palTimer
    BY <1>5 DEF PalAnswered, PaletteInv, PaletteTypeOK
  <2>2. /\ PalSize(palQuery, NoText) \in Nat /\ PalSize(palQuery, palQuery) \in Nat
        /\ PalSize(palQuery, NoText) <= PalSize(palQuery, palQuery)
        /\ PalEntry(palQuery, palQuery, palActive) \in {"command", "book", "nothing"} \X Nat
    BY <2>1, EntriesAre DEF PalSize
  <2>3. palMark = PalEntry(palQuery, NoText, palActive)
    BY <2>1 DEF PaletteInv, PaletteIsCurrent, Highlighted
  <2>4. palMark' = PalEntry(palQuery, palQuery, palActive)
    <3>1. CASE palMark[1] = "nothing"
      BY <1>5, <3>1 DEF PalAnswered
    <3>2. CASE palMark[1] # "nothing"
      <4>1. PalSize(palQuery, NoText) # 0
        BY <2>1, <2>3, <3>2, EntriesAre
      <4> QED
        BY <1>5, <2>1, <2>3, <3>2, <4>1, BooksComeAfter DEF PalAnswered, PaletteInv, entries
    <3> QED
      BY <3>1, <3>2
  <2>5. palActive' < entries' \/ palActive' = 0
    BY <1>5, <2>1, <2>2 DEF PalAnswered, PaletteInv, entries
  <2>6. PaletteTypeOK'
    BY <1>5, <2>2, <2>4 DEF PalAnswered, PaletteInv, PaletteTypeOK
  <2> QED
    BY <1>5, <2>1, <2>4, <2>5, <2>6 DEF PalAnswered, PaletteInv, PaletteIsCurrent, Highlighted
<1>6. CASE PalFails
  BY <1>6 DEF PalFails, palKeys, PaletteInv, PaletteTypeOK, PaletteIsCurrent,
         Highlighted, entries
<1>7. CASE LateDropped
  BY <1>7 DEF LateDropped, palKeys, PaletteInv, PaletteTypeOK, PaletteIsCurrent,
         Highlighted, entries
<1>8. CASE RetrySearch
  BY <1>8 DEF RetrySearch, palKeys, PaletteInv, PaletteTypeOK, PaletteIsCurrent,
         Highlighted, entries
<1>9. ASSUME NEW i \in 0..entries, Highlight(i) PROVE PaletteInv'
  <2>1. /\ palQuery \in PalTexts \cup {NoText} /\ palBooks \in PalTexts \cup {NoText}
        /\ palActive \in Nat
    BY DEF PaletteInv, PaletteTypeOK
  <2>2. entries \in Nat
    BY <2>1, EntriesAre DEF entries
  <2>3. i \in Nat
    BY <2>2
  <2>4. PalEntry(palQuery, palBooks, i) \in {"command", "book", "nothing"} \X Nat
    BY <2>1, <2>3, EntriesAre
  <2>5. PaletteTypeOK'
    BY <1>9, <2>3, <2>4 DEF Highlight, palAsking, PaletteInv, PaletteTypeOK
  <2> QED
    BY <1>9, <2>5 DEF Highlight, palAsking, PaletteInv, PaletteIsCurrent, Highlighted, entries
<1> QED
  BY <1>1, <1>2, <1>3, <1>4, <1>5, <1>6, <1>7, <1>8, <1>9 DEF PaletteNext

\* The books offered are those of the text, and none that come late move what
\* Enter opens, for any texts and any numbers of commands and of books
\* (command-palette.tsx).
THEOREM PalettesAreCurrent == PaletteSpec => [](PaletteTypeOK /\ PaletteIsCurrent)
<1>1. PaletteInv => PaletteTypeOK /\ PaletteIsCurrent
  BY DEF PaletteInv
<1> QED
  BY <1>1, PaletteInitInv, PaletteStepInv, PTL DEF PaletteSpec

-----------------------------------------------------------------------------
(***************************************************************************)
(* What is around the pages: the property is inductive with the types.     *)
(***************************************************************************)
ShellInv == ShellTypeOK /\ NavigationIsThere

\* Whatever the window shows, one navigation or the way to it is there.
LEMMA WindowHasNavigation ==
  ASSUME ShellTypeOK
  PROVE  /\ ~(SidebarShown /\ BarShown)
         /\ InApp => SidebarShown \/ BarShown \/ (IF shPhone THEN shKeyboard ELSE TriggerShown)
  BY DEF ShellTypeOK, SidebarShown, BarShown, TriggerShown, InApp

LEMMA ShellInitInv == ShellInit => ShellInv
<1> SUFFICES ASSUME ShellInit PROVE ShellInv
  OBVIOUS
<1>1. ShellTypeOK
  BY DEF ShellInit, ShellTypeOK
<1> QED
  BY <1>1, WindowHasNavigation, ShellAssumption
     DEF ShellInit, ShellInv, NavigationIsThere, dismissed

\* The window and the pages leave the first steps alone.
LEMMA WindowKeeps ==
  ASSUME ShellInv, UNCHANGED obVars, shPath' \in AppPages \cup {"home", "docs"},
         {shPhone', shKeyboard', shOpen', shMobile', shMore'} \subseteq BOOLEAN
  PROVE  ShellInv'
<1>1. ShellTypeOK'
  BY DEF ShellInv, ShellTypeOK, obVars
<1>2. /\ ~(SidebarShown' /\ BarShown')
      /\ InApp' => SidebarShown' \/ BarShown' \/ (IF shPhone' THEN shKeyboard' ELSE TriggerShown')
  BY <1>1 DEF ShellTypeOK, SidebarShown, BarShown, TriggerShown, InApp
<1> QED
  BY <1>1, <1>2 DEF ShellInv, NavigationIsThere, dismissed, obVars

\* So do the first steps the window.
LEMMA FirstStepsKeep ==
  ASSUME ShellInv, ShellTypeOK', UNCHANGED <<shPath, shWindow>>,
         {u \in ShellUsers : dismissed(u)'} \subseteq obMay',
         obSaw' = FirstSteps => obUser' \in obMay'
  PROVE  ShellInv'
<1>1. /\ ~(SidebarShown' /\ BarShown')
      /\ InApp' => SidebarShown' \/ BarShown' \/ (IF shPhone' THEN shKeyboard' ELSE TriggerShown')
  BY DEF ShellTypeOK, SidebarShown, BarShown, TriggerShown, InApp
<1> QED
  BY <1>1 DEF ShellInv, NavigationIsThere, dismissed

LEMMA ShellStepInv == ShellInv /\ [ShellNext]_shVars => ShellInv'
<1> SUFFICES ASSUME ShellInv, [ShellNext]_shVars PROVE ShellInv'
  OBVIOUS
<1>1. CASE UNCHANGED shVars
  BY <1>1, WindowKeeps DEF shVars, shWindow, ShellInv, ShellTypeOK
<1>2. CASE toggleSidebar \/ setMoreOpen \/ useKeyboardOpen \/ useIsMobile
  <2>1. shPath' = shPath /\ UNCHANGED obVars
    BY <1>2 DEF toggleSidebar, setMoreOpen, useKeyboardOpen, useIsMobile
  <2>2. {shPhone', shKeyboard', shOpen', shMobile', shMore'} \subseteq BOOLEAN
    BY <1>2 DEF toggleSidebar, setMoreOpen, useKeyboardOpen, useIsMobile, ShellInv, ShellTypeOK
  <2> QED
    BY <2>1, <2>2, WindowKeeps DEF ShellInv, ShellTypeOK
<1>3. ASSUME NEW p \in AppPages \cup {"home", "docs"},
             FollowSidebar(p) \/ FollowBar(p) \/ FollowSheet(p) \/ FollowCard(p) \/ GoBack(p)
      PROVE  ShellInv'
  <2>1. shPath' = p /\ UNCHANGED obVars
    BY <1>3 DEF FollowSidebar, FollowBar, FollowSheet, FollowCard, GoBack, Goes
  <2>2. {shPhone', shKeyboard', shOpen', shMobile', shMore'} \subseteq BOOLEAN
    BY <1>3 DEF FollowSidebar, FollowBar, FollowSheet, FollowCard, GoBack, Goes, LayoutMounted,
           ShellInv, ShellTypeOK
  <2> QED
    BY <2>1, <2>2, WindowKeeps
<1>4. CASE selectLocale
  BY <1>4, WindowKeeps DEF selectLocale, LayoutMounted, ShellInv, ShellTypeOK
<1>5. CASE AppIndex
  <2>1. PICK told \in SUBSET FirstSteps :
          /\ obSaw' = StatusOf(told)
          /\ obMay' = IF obHas[obUser] = FirstSteps THEN obMay \cup {obUser} ELSE obMay
          /\ IF obSaw' = FirstSteps THEN remember ELSE UNCHANGED obDone
    BY <1>5 DEF AppIndex
  <2>2. UNCHANGED <<shPath, shWindow, obUser, obKept, obHas>>
    BY <1>5 DEF AppIndex
  <2>3. obSaw' \subseteq FirstSteps /\ obHas[obUser] \subseteq FirstSteps
    BY <2>1 DEF StatusOf, ShellInv, ShellTypeOK
  <2>4. obSaw' = FirstSteps => obUser' \in obMay'
    BY <2>1, <2>2, <2>3 DEF StatusOf
  <2>5. obMay \subseteq obMay' /\ obMay' \subseteq ShellUsers
    BY <2>1 DEF ShellInv, ShellTypeOK
  <2>6. obDone' \in [ShellUsers -> BOOLEAN]
    BY <2>1 DEF remember, ShellInv, ShellTypeOK
  <2>7. {u \in ShellUsers : dismissed(u)'} \subseteq obMay'
    BY <2>1, <2>2, <2>4, <2>5
       DEF remember, dismissed, ShellInv, ShellTypeOK, NavigationIsThere
  <2>8. ShellTypeOK'
    BY <2>2, <2>3, <2>5, <2>6 DEF shWindow, ShellInv, ShellTypeOK
  <2> QED
    BY <2>2, <2>4, <2>7, <2>8, FirstStepsKeep
<1>6. CASE Dismiss
  <2>1. ShellTypeOK'
    BY <1>6 DEF Dismiss, remember, shWindow, ShellInv, ShellTypeOK
  <2>2. {u \in ShellUsers : dismissed(u)'} \subseteq obMay'
    BY <1>6 DEF Dismiss, remember, dismissed, ShellInv, ShellTypeOK, NavigationIsThere
  <2> QED
    BY <1>6, <2>1, <2>2, FirstStepsKeep DEF Dismiss, ShellInv, NavigationIsThere
<1>7. ASSUME NEW s \in FirstSteps, StepChanges(s) PROVE ShellInv'
  <2>1. obHas' \in [ShellUsers -> SUBSET FirstSteps]
    BY <1>7 DEF StepChanges, ShellInv, ShellTypeOK
  <2>2. ShellTypeOK'
    BY <1>7, <2>1 DEF StepChanges, shWindow, ShellInv, ShellTypeOK
  <2> QED
    BY <1>7, <2>2, FirstStepsKeep DEF StepChanges, dismissed, ShellInv, NavigationIsThere
<1>8. ASSUME NEW u \in ShellUsers, SignIn(u) PROVE ShellInv'
  <2>1. ShellTypeOK'
    BY <1>8 DEF SignIn, LayoutMounted, ShellInv, ShellTypeOK
  <2>2. /\ ~(SidebarShown' /\ BarShown')
        /\ InApp' => SidebarShown' \/ BarShown' \/ (IF shPhone' THEN shKeyboard' ELSE TriggerShown')
    BY <2>1 DEF ShellTypeOK, SidebarShown, BarShown, TriggerShown, InApp
  <2> QED
    BY <1>8, <2>1, <2>2, ShellAssumption
       DEF SignIn, dismissed, ShellInv, NavigationIsThere
<1> QED
  BY <1>1, <1>2, <1>3, <1>4, <1>5, <1>6, <1>7, <1>8 DEF ShellNext

\* One navigation is there or the way back to it, and the first steps are kept
\* from a user only by what that user did, for any pages, users and steps
\* (sidebar.tsx, app-mobile-nav.tsx, onboarding.tsx).
THEOREM NavigationStays == ShellSpec => [](ShellTypeOK /\ NavigationIsThere)
<1>1. ShellInv => ShellTypeOK /\ NavigationIsThere
  BY DEF ShellInv
<1> QED
  BY <1>1, ShellInitInv, ShellStepInv, PTL DEF ShellSpec

-----------------------------------------------------------------------------
(***************************************************************************)
(* Induction over the naturals for a set of them, from the order being     *)
(* well-founded.                                                           *)
(***************************************************************************)
LEMMA LeastNat ==
  ASSUME NEW T \in SUBSET Nat, T # {}
  PROVE  \E n \in T : \A m \in T : n <= m
<1>1. PICK n \in T : \A m \in T : ~ (<<m, n>> \in OpToRel(<, Nat))
  BY NatLessThanWellFounded, WFMin
<1>2. \A m \in T : ~(m < n)
  BY <1>1 DEF OpToRel
<1> QED
  BY <1>2

LEMMA Induct ==
  ASSUME NEW S \in SUBSET Nat, 0 \in S, \A n \in S : n + 1 \in S
  PROVE  Nat \subseteq S
<1> DEFINE T == Nat \ S
<1> SUFFICES ASSUME T # {} PROVE FALSE
  OBVIOUS
<1>1. PICK n \in T : \A m \in T : n <= m
  BY LeastNat
<1>2. n # 0 /\ n - 1 \in Nat /\ n - 1 \notin T
  BY <1>1
<1>3. (n - 1) + 1 \in S
  BY <1>2
<1> QED
  BY <1>1, <1>2, <1>3

-----------------------------------------------------------------------------
(***************************************************************************)
(* The function by which Left is defined exists: what is left of the first *)
(* n entries, for every n.                                                 *)
(***************************************************************************)
LEMMA LeftExists ==
  ASSUME NEW T, NEW s \in Seq(T), NEW S
  PROVE  \E g : g = [n \in 0..Len(s) |->
                       IF n = 0 THEN <<>>
                       ELSE IF s[n] \in S THEN Append(g[n - 1], s[n]) ELSE g[n - 1]]
<1> DEFINE Fits(g, m) ==
      g = [n \in 0..m |-> IF n = 0 THEN <<>>
                          ELSE IF s[n] \in S THEN Append(g[n - 1], s[n]) ELSE g[n - 1]]
<1> DEFINE Ms == {m \in Nat : \E g : Fits(g, m)}
<1>1. 0 \in Ms
  <2>1. Fits([n \in 0..0 |-> <<>>], 0)
    OBVIOUS
  <2> QED
    BY <2>1
<1>2. ASSUME NEW m \in Ms PROVE m + 1 \in Ms
  <2>1. PICK g : Fits(g, m)
    OBVIOUS
  <2> DEFINE last == IF s[m + 1] \in S THEN Append(g[m], s[m + 1]) ELSE g[m]
  <2> DEFINE h == [n \in 0..m + 1 |-> IF n = m + 1 THEN last ELSE g[n]]
  <2>2. ASSUME NEW n \in 0..m + 1
        PROVE  h[n] = (IF n = 0 THEN <<>>
                       ELSE IF s[n] \in S THEN Append(h[n - 1], s[n]) ELSE h[n - 1])
    <3> HIDE DEF last
    <3>1. CASE n = m + 1
      <4>1. h[n] = last /\ h[n - 1] = g[m] /\ n # 0
        BY <3>1
      <4> QED
        BY <3>1, <4>1 DEF last
    <3>2. CASE n # m + 1
      <4>1. n \in 0..m /\ (n # 0 => n - 1 \in 0..m /\ n - 1 # m + 1)
        BY <3>2
      <4>2. h[n] = g[n] /\ (n # 0 => h[n - 1] = g[n - 1])
        BY <4>1
      <4>3. g[n] = (IF n = 0 THEN <<>>
                    ELSE IF s[n] \in S THEN Append(g[n - 1], s[n]) ELSE g[n - 1])
        BY <2>1, <4>1
      <4> QED
        BY <4>1, <4>2, <4>3
    <3> QED
      BY <3>1, <3>2
  <2>3. Fits(h, m + 1)
    BY <2>2
  <2>4. \E r : Fits(r, m + 1)
    BY <2>3
  <2>5. m + 1 \in Nat
    OBVIOUS
  <2> HIDE DEF Fits
  <2> QED
    BY <2>4, <2>5
<1>3. Len(s) \in Ms
  <2>1. Ms \in SUBSET Nat /\ \A m \in Ms : m + 1 \in Ms
    BY <1>2
  <2> HIDE DEF Ms
  <2> QED
    BY <1>1, <2>1, Induct
<1> QED
  BY <1>3

\* A book is at one place only of the first n entries of a list.
OnceIn(s, b, n) == \E i \in 1..n : s[i] = b /\ \A j \in 1..n : s[j] = b => j = i

(***************************************************************************)
(* What is left of a list: the books of the set that are in the list, each *)
(* once if it is in the list once.                                         *)
(***************************************************************************)
LEMMA LeftIs ==
  ASSUME NEW T, NEW s \in Seq(T), NEW S
  PROVE  /\ Left(s, S) \in Seq(T)
         /\ ToSet(Left(s, S)) = ToSet(s) \cap S
         /\ \A b \in S : Once(Left(s, S), b) <=> Once(s, b)
<1> DEFINE Kept(g) ==
      g = [n \in 0..Len(s) |-> IF n = 0 THEN <<>>
                               ELSE IF s[n] \in S THEN Append(g[n - 1], s[n]) ELSE g[n - 1]]
<1> DEFINE kept == CHOOSE g : Kept(g)
<1>1. Kept(kept)
  <2>1. \E g : Kept(g)
    BY LeftExists
  <2> HIDE DEF Kept
  <2> QED
    BY <2>1
<1>2. Left(s, S) = kept[Len(s)]
  BY DEF Left
<1>3. kept[0] = <<>>
  <2> HIDE DEF kept
  <2> QED
    BY <1>1
<1>4. \A n \in 1..Len(s) : kept[n] = IF s[n] \in S THEN Append(kept[n - 1], s[n]) ELSE kept[n - 1]
  <2> TAKE n \in 1..Len(s)
  <2>1. n \in 0..Len(s) /\ n # 0
    OBVIOUS
  <2> HIDE DEF kept
  <2> QED
    BY <1>1, <2>1
<1> HIDE DEF kept, Kept
<1> DEFINE Good(n) ==
      /\ kept[n] \in Seq(T)
      /\ \A b : (\E i \in 1..Len(kept[n]) : kept[n][i] = b) <=> b \in S /\ (\E i \in 1..n : s[i] = b)
      /\ \A b \in S : OnceIn(kept[n], b, Len(kept[n])) <=> OnceIn(s, b, n)
<1> DEFINE Ns == {n \in Nat : n <= Len(s) => Good(n)}
<1>5. 0 \in Ns
  <2>1. kept[0] \in Seq(T) /\ Len(kept[0]) = 0 /\ 1..0 = {}
    BY <1>3
  <2>2. Good(0)
    BY <2>1 DEF OnceIn
  <2> QED
    BY <2>2
<1>6. ASSUME NEW n \in Ns PROVE n + 1 \in Ns
  <2> SUFFICES ASSUME n + 1 <= Len(s) PROVE Good(n + 1)
    OBVIOUS
  <2>1. Good(n) /\ n \in Nat
    OBVIOUS
  <2>2. n + 1 \in 1..Len(s) /\ (n + 1) - 1 = n
    BY <2>1
  <2> DEFINE k == kept[n]
  <2> DEFINE x == s[n + 1]
  <2>3. x \in T /\ \A i \in 1..n : i \in 1..n + 1 /\ i # n + 1
    BY <2>1, <2>2
  <2>4. CASE x \notin S
    <3>1. kept[n + 1] = k
      BY <1>4, <2>2, <2>4
    <3>2. \A b \in S : OnceIn(s, b, n) <=> OnceIn(s, b, n + 1)
      BY <2>1, <2>4 DEF OnceIn
    <3>3. \A b \in S : (\E i \in 1..n : s[i] = b) <=> (\E i \in 1..n + 1 : s[i] = b)
      BY <2>1, <2>4
    <3> QED
      BY <2>1, <3>1, <3>2, <3>3
  <2>5. CASE x \in S
    <3>1. kept[n + 1] = Append(k, x)
      BY <1>4, <2>2, <2>5
    <3>2. /\ Append(k, x) \in Seq(T) /\ Len(Append(k, x)) = Len(k) + 1 /\ Len(k) \in Nat
          /\ Append(k, x)[Len(k) + 1] = x
          /\ \A i \in 1..Len(k) : Append(k, x)[i] = k[i]
      BY <2>1, <2>3
    <3>3. \A b : (\E i \in 1..Len(k) + 1 : Append(k, x)[i] = b) <=> (\E i \in 1..Len(k) : k[i] = b) \/ b = x
      BY <3>2
    <3>4. \A b : (\E i \in 1..n + 1 : s[i] = b) <=> (\E i \in 1..n : s[i] = b) \/ b = x
      BY <2>1
    <3>5. \A b : (\E i \in 1..Len(k) : k[i] = b) <=> b \in S /\ (\E i \in 1..n : s[i] = b)
      BY <2>1
    <3>6. ASSUME NEW b \in S PROVE OnceIn(Append(k, x), b, Len(k) + 1) <=> OnceIn(s, b, n + 1)
      <4>1. CASE b # x
        <5>1. OnceIn(Append(k, x), b, Len(k) + 1) <=> OnceIn(k, b, Len(k))
          <6>1. \A i \in 1..Len(k) + 1 : i \in 1..Len(k) \/ i = Len(k) + 1
            BY <3>2
          <6>2. 1..Len(k) \subseteq 1..Len(k) + 1
            BY <3>2
          <6> HIDE DEF k, x
          <6> QED
            BY <3>2, <4>1, <6>1, <6>2 DEF OnceIn
        <5>2. OnceIn(s, b, n + 1) <=> OnceIn(s, b, n)
          BY <2>1, <4>1 DEF OnceIn
        <5> QED
          BY <2>1, <5>1, <5>2
      <4>2. CASE b = x
        <5>1. OnceIn(Append(k, x), b, Len(k) + 1) <=> ~ \E i \in 1..Len(k) : k[i] = b
          BY <3>2, <4>2 DEF OnceIn
        <5>2. OnceIn(s, b, n + 1) <=> ~ \E i \in 1..n : s[i] = b
          BY <2>1, <4>2 DEF OnceIn
        <5> QED
          BY <3>5, <5>1, <5>2
      <4> QED
        BY <4>1, <4>2
    <3> HIDE DEF k, x
    <3>7. \A b : (\E i \in 1..Len(k) + 1 : Append(k, x)[i] = b) <=> b \in S /\ (\E i \in 1..n + 1 : s[i] = b)
      BY <2>5, <3>3, <3>4, <3>5
    <3> QED
      BY <3>1, <3>2, <3>6, <3>7
  <2> QED
    BY <2>4, <2>5
<1>7. Good(Len(s))
  <2>1. Ns \in SUBSET Nat /\ \A n \in Ns : n + 1 \in Ns
    BY <1>6
  <2>2. Len(s) \in Ns
    <3> HIDE DEF Ns
    <3> QED
      BY <1>5, <2>1, Induct
  <2> QED
    BY <2>2
<1>8. \A r \in Seq(T) : \A b : Once(r, b) <=> OnceIn(r, b, Len(r))
  BY DEF Once, OnceIn
<1>9. ASSUME NEW r \in Seq(T), NEW b PROVE b \in ToSet(r) <=> \E i \in 1..Len(r) : r[i] = b
  BY DEF ToSet
<1>10. Left(s, S) \in Seq(T)
  BY <1>2, <1>7
<1>11. \A b : b \in ToSet(Left(s, S)) <=> b \in ToSet(s) \cap S
  <2> TAKE b
  <2>1. b \in ToSet(Left(s, S)) <=> \E i \in 1..Len(kept[Len(s)]) : kept[Len(s)][i] = b
    BY <1>2, <1>9, <1>10
  <2>2. b \in ToSet(s) <=> \E i \in 1..Len(s) : s[i] = b
    BY <1>9
  <2>3. (\E i \in 1..Len(kept[Len(s)]) : kept[Len(s)][i] = b) <=> b \in S /\ \E i \in 1..Len(s) : s[i] = b
    BY <1>7
  <2> HIDE DEF Good
  <2> QED
    BY <2>1, <2>2, <2>3
<1>12. \A b \in S : Once(Left(s, S), b) <=> Once(s, b)
  BY <1>2, <1>7, <1>8
<1> QED
  BY <1>10, <1>11, <1>12

-----------------------------------------------------------------------------
(***************************************************************************)
(* A book put in front of a list.                                          *)
(***************************************************************************)
LEMMA InFront ==
  ASSUME NEW T, NEW s \in Seq(T), NEW b \in T
  PROVE  /\ <<b>> \o s \in Seq(T)
         /\ ToSet(<<b>> \o s) = ToSet(s) \cup {b}
         /\ Once(<<b>> \o s, b) <=> b \notin ToSet(s)
         /\ \A c : c # b => (Once(<<b>> \o s, c) <=> Once(s, c))
<1> DEFINE r == <<b>> \o s
<1>1. /\ r \in Seq(T) /\ Len(r) = Len(s) + 1 /\ Len(s) \in Nat
      /\ DOMAIN r = 1..Len(s) + 1 /\ DOMAIN s = 1..Len(s)
      /\ r[1] = b /\ \A i \in 1..Len(s) : r[i + 1] = s[i]
  OBVIOUS
<1> HIDE DEF r
<1>2. \A i \in 1..Len(s) + 1 : i = 1 \/ (i - 1 \in 1..Len(s) /\ r[i] = s[i - 1])
  <2> TAKE i \in 1..Len(s) + 1
  <2>1. CASE i # 1
    <3>1. i - 1 \in 1..Len(s) /\ (i - 1) + 1 = i
      BY <1>1, <2>1
    <3> QED
      BY <1>1, <3>1
  <2> QED
    BY <2>1
<1>3. \A i \in 1..Len(s) : i + 1 \in 1..Len(s) + 1 /\ i + 1 # 1
  BY <1>1
<1>4. 1 \in 1..Len(s) + 1
  BY <1>1
<1>5. ToSet(r) = ToSet(s) \cup {b}
  <2>1. ASSUME NEW x \in ToSet(r) PROVE x \in ToSet(s) \cup {b}
    <3>1. PICK i \in 1..Len(s) + 1 : r[i] = x
      BY <1>1, <2>1 DEF ToSet
    <3>2. CASE i = 1
      BY <1>1, <3>1, <3>2
    <3>3. CASE i # 1
      <4>1. i - 1 \in 1..Len(s) /\ s[i - 1] = x
        BY <1>2, <3>1, <3>3
      <4> QED
        BY <1>1, <4>1 DEF ToSet
    <3> QED
      BY <3>2, <3>3
  <2>2. b \in ToSet(r)
    BY <1>1, <1>4 DEF ToSet
  <2>3. ASSUME NEW x \in ToSet(s) PROVE x \in ToSet(r)
    <3>1. PICK i \in 1..Len(s) : s[i] = x
      BY <1>1, <2>3 DEF ToSet
    <3>2. i + 1 \in 1..Len(s) + 1 /\ r[i + 1] = x
      BY <1>1, <1>3, <3>1
    <3> QED
      BY <1>1, <3>2 DEF ToSet
  <2> QED
    BY <2>1, <2>2, <2>3
<1>6. Once(r, b) <=> b \notin ToSet(s)
  <2>1. ASSUME b \notin ToSet(s) PROVE Once(r, b)
    <3>1. \A j \in 1..Len(s) + 1 : r[j] = b => j = 1
      BY <1>1, <1>2, <2>1 DEF ToSet
    <3> QED
      BY <1>1, <1>4, <3>1 DEF Once
  <2>2. ASSUME b \in ToSet(s), Once(r, b) PROVE FALSE
    <3>1. PICK i \in 1..Len(s) : s[i] = b
      BY <1>1, <2>2 DEF ToSet
    <3>2. r[i + 1] = b /\ i + 1 \in 1..Len(s) + 1 /\ i + 1 # 1
      BY <1>1, <1>3, <3>1
    <3> QED
      BY <1>1, <1>4, <2>2, <3>2 DEF Once
  <2> QED
    BY <2>1, <2>2
<1>7. ASSUME NEW c, c # b PROVE Once(r, c) <=> Once(s, c)
  <2>1. ASSUME Once(r, c) PROVE Once(s, c)
    <3>1. PICK i \in 1..Len(s) + 1 : r[i] = c /\ \A j \in 1..Len(s) + 1 : r[j] = c => j = i
      BY <1>1, <2>1 DEF Once
    <3>2. i - 1 \in 1..Len(s) /\ s[i - 1] = c
      BY <1>1, <1>2, <1>7, <3>1
    <3>3. ASSUME NEW j \in 1..Len(s), s[j] = c PROVE j = i - 1
      <4>1. r[j + 1] = c /\ j + 1 \in 1..Len(s) + 1
        BY <1>1, <1>3, <3>3
      <4>2. j + 1 = i
        BY <3>1, <4>1
      <4> QED
        BY <1>1, <4>2
    <3> QED
      BY <1>1, <3>2, <3>3 DEF Once
  <2>2. ASSUME Once(s, c) PROVE Once(r, c)
    <3>1. PICK i \in 1..Len(s) : s[i] = c /\ \A j \in 1..Len(s) : s[j] = c => j = i
      BY <1>1, <2>2 DEF Once
    <3>2. i + 1 \in 1..Len(s) + 1 /\ r[i + 1] = c
      BY <1>1, <1>3, <3>1
    <3>3. ASSUME NEW j \in 1..Len(s) + 1, r[j] = c PROVE j = i + 1
      <4>1. j - 1 \in 1..Len(s) /\ s[j - 1] = c
        BY <1>1, <1>2, <1>7, <3>3
      <4>2. j - 1 = i
        BY <3>1, <4>1
      <4> QED
        BY <1>1, <4>2
    <3> QED
      BY <1>1, <3>2, <3>3 DEF Once
  <2> QED
    BY <2>1, <2>2
<1> QED
  BY <1>1, <1>5, <1>6, <1>7 DEF r

(***************************************************************************)
(* The pages of the server's list cover it, and those read so far are a    *)
(* part from its beginning.                                                *)
(***************************************************************************)
LEMMA PagesCover ==
  ASSUME NEW T, NEW s \in Seq(T)
  PROVE  /\ PageCount(s) \in Nat \ {0}
         /\ \A k \in Nat : k >= PageCount(s) => k * LibPageLimit >= Len(s)
<1> DEFINE L == LibPageLimit
<1> DEFINE n == Len(s)
<1>1. L \in Nat \ {0} /\ n \in Nat
  BY LibAssumption
<1>2. CASE s = <<>>
  <2>1. PageCount(s) = 1 /\ n = 0
    BY <1>2 DEF PageCount
  <2>2. \A k \in Nat : k * L >= 0
    BY <1>1
  <2> QED
    BY <2>1, <2>2
<1>3. CASE s # <<>>
  <2>1. n # 0
    BY <1>3
  <2> DEFINE p == (n + L - 1) \div L
  <2>2. PageCount(s) = p
    BY <1>3 DEF PageCount
  <2>3. n + L - 1 \in Nat
    BY <1>1
  <2>4. p \in Nat /\ n + L - 1 < (p + 1) * L
    <3> HIDE DEF n, L
    <3> QED
      BY <1>1, <2>3
  <2> HIDE DEF n, L, p
  <2>5. (p + 1) * L = p * L + L
    BY <1>1, <2>4
  <2>6. n <= p * L
    BY <1>1, <2>4, <2>5
  <2>7. p # 0
    BY <1>1, <2>1, <2>6
  <2>8. ASSUME NEW k \in Nat, k >= p PROVE k * L >= n
    <3>1. k * L >= p * L
      BY <1>1, <2>4, <2>8
    <3>2. k * L \in Nat /\ p * L \in Nat
      BY <1>1, <2>4
    <3> QED
      BY <1>1, <2>6, <3>1, <3>2
  <2> QED
    BY <2>2, <2>4, <2>7, <2>8 DEF n, L
<1> QED
  BY <1>2, <1>3

LEMMA UpToIs ==
  ASSUME NEW T, NEW s \in Seq(T), NEW n \in Nat
  PROVE  /\ UpTo(s, n) \in Seq(T) /\ Len(UpTo(s, n)) = (IF n < Len(s) THEN n ELSE Len(s))
         /\ \A i \in 1..Len(UpTo(s, n)) : UpTo(s, n)[i] = s[i]
         /\ n >= Len(s) => UpTo(s, n) = s
<1> DEFINE k == IF n < Len(s) THEN n ELSE Len(s)
<1>1. k \in Nat /\ k <= Len(s) /\ Len(s) \in Nat /\ (n >= Len(s) => k = Len(s))
  OBVIOUS
<1>2. UpTo(s, n) = SubSeq(s, 1, k)
  BY DEF UpTo
<1> HIDE DEF k
<1>3. \A i \in 1..k : s[i] \in T
  BY <1>1
<1>4. /\ SubSeq(s, 1, k) \in Seq(T)
      /\ Len(SubSeq(s, 1, k)) = IF 1 <= k THEN k - 1 + 1 ELSE 0
      /\ \A i \in 1..(k - 1 + 1) : SubSeq(s, 1, k)[i] = s[1 + i - 1]
  BY <1>1, <1>3, SubSeqProperties
<1>5. Len(SubSeq(s, 1, k)) = k
  BY <1>1, <1>4
<1>6. \A i \in 1..k : SubSeq(s, 1, k)[i] = s[i]
  <2> TAKE i \in 1..k
  <2>1. i \in 1..(k - 1 + 1) /\ 1 + i - 1 = i
    BY <1>1
  <2> QED
    BY <1>4, <2>1
<1>7. n >= Len(s) => SubSeq(s, 1, k) = s
  BY <1>1, SubSeqFull
<1> QED
  BY <1>2, <1>4, <1>5, <1>6, <1>7 DEF k

LEMMA NextPage ==
  ASSUME NEW T, NEW s \in Seq(T), NEW p \in Nat \ {0}
  PROVE  /\ PageOf(s, p) \in Seq(T)
         /\ UpTo(s, (p - 1) * LibPageLimit) \o PageOf(s, p) = UpTo(s, p * LibPageLimit)
         /\ p = 1 => PageOf(s, p) = UpTo(s, p * LibPageLimit)
<1> DEFINE L == LibPageLimit
<1> DEFINE m == (p - 1) * L
<1> DEFINE n == p * L
<1>1. L \in Nat \ {0} /\ p - 1 \in Nat
  BY LibAssumption
<1>2. m \in Nat /\ n \in Nat
  BY <1>1
<1>3. n = m + L
  BY <1>1
<1>4. PageOf(s, p) = SubSeq(UpTo(s, n), m + 1, Len(UpTo(s, n)))
  BY DEF PageOf
<1>5. p = 1 => m = 0
  BY <1>1
<1> HIDE DEF m, n, L
<1> DEFINE u == UpTo(s, n)
<1> DEFINE v == UpTo(s, m)
<1> DEFINE page == SubSeq(u, m + 1, Len(u))
<1>6. /\ u \in Seq(T) /\ Len(u) = (IF n < Len(s) THEN n ELSE Len(s))
      /\ \A i \in 1..Len(u) : u[i] = s[i]
  BY <1>2, UpToIs
<1>7. /\ v \in Seq(T) /\ Len(v) = (IF m < Len(s) THEN m ELSE Len(s))
      /\ \A i \in 1..Len(v) : v[i] = s[i]
  BY <1>2, UpToIs
<1>8. Len(s) \in Nat /\ Len(u) \in Nat /\ Len(v) \in Nat /\ Len(v) <= Len(u) /\ m < n
  BY <1>1, <1>2, <1>3, <1>6, <1>7
<1> HIDE DEF u, v
<1>9. /\ page \in Seq(T) /\ Len(page) = (IF m + 1 <= Len(u) THEN Len(u) - (m + 1) + 1 ELSE 0)
      /\ \A i \in 1..(Len(u) - (m + 1) + 1) : page[i] = u[m + 1 + i - 1]
  <2>1. \A i \in m + 1..Len(u) : u[i] \in T
    BY <1>2, <1>6
  <2>2. m + 1 \in Int /\ Len(u) \in Int
    BY <1>2, <1>8
  <2> QED
    BY <2>1, <2>2, SubSeqProperties
<1> HIDE DEF page
<1>10. Len(v) + Len(page) = Len(u) /\ Len(page) \in Nat
  <2> DEFINE lu == Len(u)
  <2> DEFINE lv == Len(v)
  <2> DEFINE ls == Len(s)
  <2>1. /\ ls \in Nat /\ lu \in Nat /\ lv \in Nat /\ m < n /\ m \in Nat /\ n \in Nat
        /\ lu = (IF n < ls THEN n ELSE ls) /\ lv = (IF m < ls THEN m ELSE ls)
    BY <1>2, <1>6, <1>7, <1>8
  <2>2. Len(page) = IF m + 1 <= lu THEN lu - (m + 1) + 1 ELSE 0
    BY <1>9
  <2> HIDE DEF lu, lv, ls
  <2>3. CASE m < ls
    BY <2>1, <2>2, <2>3 DEF lu, lv
  <2>4. CASE ~(m < ls)
    BY <2>1, <2>2, <2>4 DEF lu, lv
  <2> QED
    BY <2>3, <2>4
<1>11. /\ v \o page \in Seq(T) /\ Len(v \o page) = Len(u)
       /\ \A i \in 1..Len(u) : (v \o page)[i] = IF i <= Len(v) THEN v[i] ELSE page[i - Len(v)]
  <2>1. /\ v \o page \in Seq(T) /\ Len(v \o page) = Len(v) + Len(page)
        /\ \A i \in 1..Len(v) + Len(page) :
             (v \o page)[i] = IF i <= Len(v) THEN v[i] ELSE page[i - Len(v)]
    BY <1>7, <1>9, ConcatProperties
  <2> QED
    BY <1>10, <2>1
<1>12. ASSUME NEW i \in 1..Len(u) PROVE (v \o page)[i] = u[i]
  <2>1. CASE i <= Len(v)
    BY <1>6, <1>7, <1>8, <1>11, <2>1
  <2>2. CASE ~(i <= Len(v))
    <3>1. Len(v) = m /\ i - m \in 1..(Len(u) - (m + 1) + 1) /\ m + 1 + (i - m) - 1 = i
      BY <1>2, <1>6, <1>7, <1>8, <2>2
    <3>2. page[i - m] = u[i]
      BY <1>9, <3>1
    <3> QED
      BY <1>11, <2>2, <3>1, <3>2
  <2> QED
    BY <2>1, <2>2
<1>13. v \o page = u
  BY <1>6, <1>11, <1>12, SeqEqual
<1>14. m = 0 => page = u
  <2> HAVE m = 0
  <2>1. page = SubSeq(u, 1, Len(u))
    BY DEF page
  <2> QED
    BY <1>6, <2>1, SubSeqFull
<1> QED
  BY <1>4, <1>5, <1>9, <1>13, <1>14 DEF m, n, L, u, v, page

-----------------------------------------------------------------------------
(***************************************************************************)
(* The list of the library page.  A list that is being read shows, when it *)
(* is applied, the rows the server has then, but for those that moved      *)
(* since its first page was read; so does a load of the page.  The way a   *)
(* book is coming by says whether the server can have it.                  *)
(***************************************************************************)

\* A list shows the server's books, once each, leaving aside those that moved.
SameBut(s, moved) ==
  \A b \in LibBooks \ moved : IF Stored(b) THEN Once(s, b) ELSE b \notin ToSet(s)

\* The server has a row once.
RowsDiffer == \A b \in ToSet(libServer) : Once(libServer, b)

Ways == {"out", "asked", "looked", "found", "added", "fetching", "arrived", "givenup", "here"}

\* The books the server has were stored, and were not before; a fetch, and an
\* answer with a book that was there, are of a result; an answered deletion has
\* no row.
WaysFit ==
  \A b \in LibBooks :
    /\ Stored(b) \/ libDelete[b] = "gone" => libWay[b] \in {"added", "arrived", "here"}
    /\ libDelete[b] = "gone" => ~Stored(b)
    /\ libWay[b] = "out" => libOf[b] = NoResult
    /\ libWay[b] \in {"found", "fetching", "arrived"} => libOf[b] # NoResult

RefreshFits(f) ==
  /\ f.page = 1 => f.acc = <<>> /\ f.pages = 0
  /\ f.page > 1 /\ ~f.cut =>
       /\ f.pages # 0
       /\ f.pages = 1 => f.page = 2 /\ SameBut(f.acc, f.moved)
       /\ f.moved = {} => /\ f.pages = PageCount(libServer) /\ f.page <= f.pages + 1
                          /\ f.acc = UpTo(libServer, (f.page - 1) * LibPageLimit)
RefreshesFit == \A k \in LibBooks : RefreshFits(libRefresh[k])

LoadFits == libLoad.notice = "fine" => SameBut(libLoad.items, libLoad.moved)

\* Until results overlap, one is asked for at a time, and remembered.
AskedFor(b) == libWay[b] \in Waiting /\ libOf[b] # NoResult
OneIsAsked ==
  ~libRaced => /\ \A b \in LibBooks : AskedFor(b) => libAdding = libOf[b]
               /\ \A b, c \in LibBooks : AskedFor(b) /\ AskedFor(c) => b = c

\* What the page shows of a book: see ListIsServers.
ShownRight(b) ==
  IF Stored(b) THEN Listed(b) /\ (b \notin libDouble => Once(libItems, b)) ELSE ~Listed(b)

LibInv ==
  /\ LibTypeOK /\ RowsDiffer /\ WaysFit /\ RefreshesFit /\ LoadFits /\ ListIsServers /\ OneIsAsked

-----------------------------------------------------------------------------
LEMMA LibInitInv == LibInit => LibInv
<1> SUFFICES ASSUME LibInit PROVE LibInv
  OBVIOUS
<1> USE LibAssumption
<1>1. libServer \in Seq(LibBooks) /\ IsInjective(libServer)
  BY DEF LibInit
<1>2. LibTypeOK
  <2>1. <<>> \in Seq(LibBooks)
    OBVIOUS
  <2> QED
    BY <1>1, <2>1 DEF LibInit, LibTypeOK, NoRefresh, NoLoad
<1>3. RowsDiffer
  BY <1>1 DEF RowsDiffer, IsInjective, Once, ToSet
<1>4. WaysFit
  BY DEF LibInit, WaysFit, Stored
<1>5. RefreshesFit /\ LoadFits
  BY DEF LibInit, RefreshesFit, RefreshFits, LoadFits, NoRefresh, NoLoad
<1>6. ListIsServers /\ OneIsAsked
  BY DEF LibInit, ListIsServers, Loaded, OneIsAsked, AskedFor
<1> QED
  BY <1>2, <1>3, <1>4, <1>5, <1>6 DEF LibInv

(***************************************************************************)
(* What a step leaves alone keeps its part of the invariant.               *)
(***************************************************************************)
LEMMA ReadsKept ==
  ASSUME RowsDiffer, RefreshesFit, LoadFits, UNCHANGED <<libServer, libReads>>
  PROVE  RowsDiffer' /\ RefreshesFit' /\ LoadFits'
<1>1. UNCHANGED <<libServer, libRefresh, libLoad>>
  BY DEF libReads
<1> QED
  BY <1>1
  DEF RowsDiffer, RefreshesFit, LoadFits, RefreshFits, SameBut, Stored, Once, PageCount, UpTo

LEMMA ListKept ==
  ASSUME ListIsServers, UNCHANGED <<libServer, libItems, libDouble>>, Loaded' => Loaded,
         \A b \in LibBooks \ libDoubt' : AtRest(b)' => b \notin libDoubt /\ AtRest(b)
  PROVE  ListIsServers'
BY DEF ListIsServers, Stored, Listed, Once

LEMMA ShownIs == ListIsServers <=>
                 (Loaded => \A b \in LibBooks \ libDoubt : AtRest(b) => ShownRight(b))
BY DEF ListIsServers, ShownRight

LEMMA AskedKept ==
  ASSUME OneIsAsked, UNCHANGED <<libRaced, libAdding>>,
         \A b \in LibBooks : AskedFor(b)' => AskedFor(b) /\ libOf'[b] = libOf[b]
  PROVE  OneIsAsked'
BY DEF OneIsAsked

\* An answer that comes for a result was the one awaited, if results did not overlap.
LEMMA AnswerKept ==
  ASSUME OneIsAsked, libRaced' = libRaced, NEW b \in LibBooks, DoneAdding(b),
         libWay[b] \in Waiting, libWay'[b] \notin Waiting,
         \A c \in LibBooks : c # b => libWay'[c] = libWay[c] /\ libOf'[c] = libOf[c]
  PROVE  OneIsAsked'
<1>1. \A c \in LibBooks : AskedFor(c)' => AskedFor(c) /\ libOf'[c] = libOf[c] /\ c # b
  BY DEF AskedFor
<1>2. CASE libOf[b] = NoResult
  BY <1>1, <1>2, AskedKept DEF DoneAdding
<1>3. CASE libOf[b] # NoResult
  <2>1. AskedFor(b)
    BY <1>3 DEF AskedFor
  <2> QED
    BY <1>1, <2>1 DEF OneIsAsked
<1> QED
  BY <1>2, <1>3

(***************************************************************************)
(* A row that comes or goes while a list is read is among those that moved.*)
(***************************************************************************)
LEMMA ReadsMoved ==
  ASSUME LibTypeOK, RefreshesFit, LoadFits, NEW b \in LibBooks, Moved(b),
         \A c \in LibBooks : c # b => (Stored(c)' <=> Stored(c))
  PROVE  /\ libRefresh' \in [LibBooks -> [page : Nat, pages : Nat, acc : Seq(LibBooks),
                                          moved : SUBSET LibBooks, cut : BOOLEAN]]
         /\ libLoad' \in [items : Seq(LibBooks), moved : SUBSET LibBooks,
                          notice : {"loading", "fine", "partial", "unavailable"}]
         /\ Refreshing' = Refreshing
         /\ RefreshesFit' /\ LoadFits'
<1> DEFINE Fetch == [page : Nat, pages : Nat, acc : Seq(LibBooks),
                     moved : SUBSET LibBooks, cut : BOOLEAN]
<1>1. /\ libRefresh \in [LibBooks -> Fetch]
      /\ libLoad \in [items : Seq(LibBooks), moved : SUBSET LibBooks,
                      notice : {"loading", "fine", "partial", "unavailable"}]
  BY DEF LibTypeOK
<1>2. ASSUME NEW k \in LibBooks
      PROVE  /\ libRefresh'[k] \in Fetch /\ libRefresh'[k].page = libRefresh[k].page
             /\ RefreshFits(libRefresh[k])'
  <2> DEFINE f == libRefresh[k]
  <2>1. f \in Fetch
    BY <1>1
  <2>2. CASE f.page > 0
    <3> DEFINE g == [f EXCEPT !.moved = @ \cup {b}]
    <3>1. libRefresh'[k] = g
      BY <2>2 DEF Moved, Refreshing
    <3>2. /\ g.page = f.page /\ g.pages = f.pages /\ g.acc = f.acc /\ g.cut = f.cut
          /\ g.moved = f.moved \cup {b} /\ g \in Fetch
      BY <2>1
    <3> HIDE DEF g
    <3>3. SameBut(f.acc, f.moved)
            => \A c \in LibBooks \ g.moved : IF Stored(c)' THEN Once(f.acc, c) ELSE c \notin ToSet(f.acc)
      BY <3>2 DEF SameBut
    <3>4. RefreshFits(f)
      BY DEF RefreshesFit
    <3> QED
      <4>1. SameBut(f.acc, f.moved) => SameBut(libRefresh[k].acc, libRefresh[k].moved)'
        BY <3>1, <3>2, <3>3 DEF SameBut
      <4>2. g.moved # {}
        BY <3>2
      <4> QED
        BY <3>1, <3>2, <3>4, <4>1, <4>2 DEF RefreshFits
  <2>3. CASE ~(f.page > 0)
    <3>1. libRefresh'[k] = f /\ f.page = 0
      BY <2>1, <2>3 DEF Moved, Refreshing
    <3> QED
      BY <2>1, <3>1 DEF RefreshFits
  <2> QED
    BY <2>2, <2>3
<1>3. libRefresh' \in [LibBooks -> Fetch]
  <2>1. libRefresh' = [k \in LibBooks |-> libRefresh'[k]]
    BY DEF Moved
  <2> HIDE DEF Fetch
  <2> QED
    BY <1>2, <2>1
<1>4. Refreshing' = Refreshing
  BY <1>2 DEF Refreshing
<1>5. /\ libLoad' \in [items : Seq(LibBooks), moved : SUBSET LibBooks,
                       notice : {"loading", "fine", "partial", "unavailable"}]
      /\ LoadFits'
  <2>1. CASE libLoad = NoLoad
    BY <1>1, <2>1 DEF Moved, NoLoad, LoadFits
  <2>2. CASE libLoad # NoLoad
    <3>1. /\ libLoad'.items = libLoad.items /\ libLoad'.notice = libLoad.notice
          /\ libLoad'.moved = libLoad.moved \cup {b}
          /\ libLoad' \in [items : Seq(LibBooks), moved : SUBSET LibBooks,
                           notice : {"loading", "fine", "partial", "unavailable"}]
      BY <1>1, <2>2 DEF Moved
    <3> QED
      BY <3>1 DEF LoadFits, SameBut
  <2> QED
    BY <2>1, <2>2
<1> QED
  BY <1>2, <1>3, <1>4, <1>5 DEF RefreshesFit

-----------------------------------------------------------------------------
(***************************************************************************)
(* Adding a book: what is pressed and uploaded, and what is answered.      *)
(***************************************************************************)
LEMMA AddingKeeps ==
  ASSUME LibInv, NEW b \in LibBooks,
         \/ \E r \in LibResults : addResult(r, b)
         \/ Upload(b) \/ LookUp(b) \/ AddFails(b) \/ JobAnswered(b)
  PROVE  LibInv'
<1> USE LibAssumption DEF LibInv
<1>1. UNCHANGED <<libServer, libItems, libReads, libNotice, libMode, libDelete, libDouble>>
  BY DEF addResult, Upload, LookUp, AddFails, JobAnswered, libPage, libSeen
<1>2. RowsDiffer' /\ RefreshesFit' /\ LoadFits'
  BY <1>1, ReadsKept
<1>3. \A c \in LibBooks : Stored(c)' <=> Stored(c)
  BY <1>1 DEF Stored
<1>4. (Loaded' => Loaded) /\ Refreshing' = Refreshing
  BY <1>1 DEF Loaded, Refreshing, libReads
<1>5. LibTypeOK /\ WaysFit /\ OneIsAsked /\ ListIsServers
  OBVIOUS
<1> HIDE DEF LibInv
<1>6. ASSUME NEW r \in LibResults, addResult(r, b) PROVE LibInv'
  <2>1. /\ libWay[b] = "out" /\ libAdding # r
        /\ libWay' = [libWay EXCEPT ![b] = "asked"] /\ libOf' = [libOf EXCEPT ![b] = r]
        /\ libAdding' = r /\ libDoubt' = libDoubt /\ UNCHANGED <<libFound, libOwned>>
        /\ libRaced' = (Waitings # {} /\ (libRaced \/ \E c \in Waitings : libOf[c] # r))
    BY <1>6 DEF addResult, CanAdd, SearchResultActions
  <2>2. LibTypeOK'
    BY <1>1, <1>5, <2>1 DEF LibTypeOK, libReads
  <2>3. WaysFit'
    BY <1>1, <1>3, <1>5, <2>1 DEF WaysFit, LibTypeOK
  <2>4. ListIsServers'
    BY <1>1, <1>4, <1>5, <2>1, ListKept DEF AtRest, LibTypeOK
  <2>5. ASSUME ~libRaced' PROVE \A c \in LibBooks : ~AskedFor(c)
    <3>1. \A c \in LibBooks : AskedFor(c) <=> c \in Waitings
      BY DEF AskedFor, Waitings, Comings
    <3>2. CASE Waitings = {}
      BY <3>1, <3>2
    <3>3. CASE Waitings # {}
      <4>1. ~libRaced /\ \A c \in LibBooks : AskedFor(c) => libOf[c] = r
        BY <2>1, <2>5, <3>1, <3>3
      <4> QED
        BY <1>5, <2>1, <4>1 DEF OneIsAsked
    <3> QED
      BY <3>2, <3>3
  <2>6. \A c \in LibBooks : AskedFor(c)' => c = b \/ AskedFor(c)
    BY <1>5, <2>1 DEF AskedFor, LibTypeOK
  <2>7. libOf'[b] = r
    BY <1>5, <2>1 DEF LibTypeOK
  <2>8. OneIsAsked'
    BY <2>1, <2>5, <2>6, <2>7 DEF OneIsAsked
  <2> QED
    BY <1>2, <2>2, <2>3, <2>4, <2>8 DEF LibInv
<1>7. CASE Upload(b)
  <2>1. /\ libWay[b] = "out" /\ libWay' = [libWay EXCEPT ![b] = "asked"]
        /\ UNCHANGED <<libOf, libFound, libAdding, libOwned, libDoubt, libRaced>>
    BY <1>7 DEF Upload, libSeen
  <2>2. LibTypeOK'
    BY <1>1, <1>5, <2>1 DEF LibTypeOK, libReads
  <2>3. WaysFit'
    BY <1>1, <1>3, <1>5, <2>1 DEF WaysFit, LibTypeOK
  <2>4. ListIsServers'
    BY <1>1, <1>4, <1>5, <2>1, ListKept DEF AtRest, LibTypeOK
  <2>5. \A c \in LibBooks : AskedFor(c)' => AskedFor(c) /\ libOf'[c] = libOf[c]
    BY <1>5, <2>1 DEF AskedFor, LibTypeOK, WaysFit
  <2>6. OneIsAsked'
    BY <1>5, <2>1, <2>5, AskedKept
  <2> QED
    BY <1>2, <2>2, <2>3, <2>4, <2>6 DEF LibInv
<1>8. CASE LookUp(b)
  <2>1. /\ libWay[b] = "asked" /\ libOf[b] # NoResult
        /\ libWay' \in [LibBooks -> Ways] /\ libWay'[b] \in {"looked", "found"}
        /\ \A c \in LibBooks : c # b => libWay'[c] = libWay[c]
        /\ libFound' \in [LibBooks -> LibBooks]
        /\ UNCHANGED <<libOf, libAdding, libOwned, libDoubt, libRaced>>
    <3>1. libWay \in [LibBooks -> Ways] /\ libFound \in [LibBooks -> LibBooks]
      BY <1>5 DEF LibTypeOK, Ways
    <3>2. /\ libWay' = [libWay EXCEPT ![b] = "looked"] \/ libWay' = [libWay EXCEPT ![b] = "found"]
          /\ \/ libFound' = libFound
             \/ \E c \in LibBooks : libFound' = [libFound EXCEPT ![b] = c]
      BY <1>8 DEF LookUp
    <3> QED
      BY <1>8, <3>1, <3>2 DEF LookUp, libSeen, Ways
  <2>2. LibTypeOK'
    BY <1>1, <1>5, <2>1 DEF LibTypeOK, libReads, Ways
  <2>3. WaysFit'
    BY <1>1, <1>3, <1>5, <2>1 DEF WaysFit, LibTypeOK
  <2>4. ListIsServers'
    BY <1>1, <1>4, <1>5, <2>1, ListKept DEF AtRest, LibTypeOK
  <2>5. \A c \in LibBooks : AskedFor(c)' => AskedFor(c) /\ libOf'[c] = libOf[c]
    BY <1>5, <2>1 DEF AskedFor, Waiting, LibTypeOK
  <2>6. OneIsAsked'
    BY <1>5, <2>1, <2>5, AskedKept
  <2> QED
    BY <1>2, <2>2, <2>3, <2>4, <2>6 DEF LibInv
<1>9. CASE AddFails(b)
  <2>1. /\ libWay[b] \in Waiting
        /\ \/ /\ libWay[b] = "added" /\ libWay' = [libWay EXCEPT ![b] = "here"] /\ libOf' = libOf
              /\ libDoubt' = libDoubt \cup {b}
           \/ /\ libWay[b] # "added" /\ libWay' = [libWay EXCEPT ![b] = "out"]
              /\ libOf' = [libOf EXCEPT ![b] = NoResult] /\ libDoubt' = libDoubt
        /\ libFound' = [libFound EXCEPT ![b] = b]
        /\ DoneAdding(b)
        /\ UNCHANGED <<libOwned, libRaced>>
    BY <1>9 DEF AddFails, ComesToNothing
  <2>2. /\ libWay' \in [LibBooks -> Ways] /\ libOf' \in [LibBooks -> LibResults \cup {NoResult}]
        /\ libFound' \in [LibBooks -> LibBooks] /\ libDoubt \subseteq libDoubt'
        /\ libDoubt' \subseteq LibBooks /\ (libWay[b] = "added" => b \in libDoubt')
        /\ libWay'[b] \notin Waiting
        /\ \A c \in LibBooks : c # b => libWay'[c] = libWay[c] /\ libOf'[c] = libOf[c]
    <3>1. /\ libWay \in [LibBooks -> Ways] /\ libOf \in [LibBooks -> LibResults \cup {NoResult}]
          /\ libFound \in [LibBooks -> LibBooks] /\ libDoubt \subseteq LibBooks
          /\ "here" \in Ways \ Waiting /\ "out" \in Ways \ Waiting
      BY <1>5 DEF LibTypeOK, Ways, Waiting
    <3>2. libFound' \in [LibBooks -> LibBooks]
      BY <2>1, <3>1
    <3>3. CASE libWay[b] = "added"
      BY <2>1, <3>1, <3>2, <3>3
    <3>4. CASE libWay[b] # "added"
      BY <2>1, <3>1, <3>2, <3>4
    <3> QED
      BY <3>3, <3>4
  <2>3. LibTypeOK'
    BY <1>1, <1>5, <2>1, <2>2 DEF LibTypeOK, libReads, DoneAdding, Ways
  <2>4. WaysFit'
    BY <1>1, <1>3, <1>5, <2>1 DEF WaysFit, LibTypeOK, Waiting
  <2>5. \A c \in LibBooks \ libDoubt' : AtRest(c)' => c \notin libDoubt /\ AtRest(c)
    <3> SUFFICES ASSUME NEW c \in LibBooks \ libDoubt', AtRest(c)'
                 PROVE  c \notin libDoubt /\ AtRest(c)
      OBVIOUS
    <3>1. c \notin libDoubt /\ (c = b => libWay[c] \notin {"added", "arrived"})
      BY <2>1, <2>2 DEF Waiting
    <3>2. c # b => libWay'[c] = libWay[c]
      BY <2>2
    <3> QED
      BY <1>1, <1>4, <3>1, <3>2 DEF AtRest
  <2>6. ListIsServers'
    BY <1>1, <1>4, <1>5, <2>5, ListKept
  <2>7. OneIsAsked'
    BY <1>5, <2>1, <2>2, AnswerKept
  <2> QED
    BY <1>2, <2>3, <2>4, <2>6, <2>7 DEF LibInv
<1>10. CASE JobAnswered(b)
  <2>1. /\ libWay[b] = "asked" /\ libOf[b] # NoResult
        /\ libWay' = [libWay EXCEPT ![b] = "fetching"]
        /\ DoneAdding(b)
        /\ UNCHANGED <<libOf, libFound, libOwned, libDoubt, libRaced>>
    BY <1>10 DEF JobAnswered, libSeen
  <2>2. LibTypeOK'
    BY <1>1, <1>5, <2>1 DEF LibTypeOK, libReads, DoneAdding
  <2>3. WaysFit'
    BY <1>1, <1>3, <1>5, <2>1 DEF WaysFit, LibTypeOK
  <2>4. ListIsServers'
    BY <1>1, <1>4, <1>5, <2>1, ListKept DEF AtRest, LibTypeOK
  <2>5. OneIsAsked'
    BY <1>5, <2>1, AnswerKept DEF LibTypeOK, Waiting
  <2> QED
    BY <1>2, <2>2, <2>3, <2>4, <2>5 DEF LibInv
<1> QED
  BY <1>6, <1>7, <1>8, <1>9, <1>10

(***************************************************************************)
(* A book put in front of the list: it is listed, once if it was not there *)
(* before, and nothing else changes.                                       *)
(***************************************************************************)
LEMMA PrependShows ==
  ASSUME LibTypeOK, NEW c \in LibBooks, Prepend(c), libServer' = libServer
  PROVE  /\ libItems' \in Seq(LibBooks) /\ libDouble' \subseteq LibBooks
         /\ libDoubt \subseteq libDoubt' /\ libDoubt' \subseteq LibBooks
         /\ (Stored(c) => ShownRight(c)') /\ (~Stored(c) => c \in libDoubt')
         /\ \A d \in LibBooks : d # c => (ShownRight(d)' <=> ShownRight(d))
<1>1. /\ libItems' = <<c>> \o libItems /\ libItems \in Seq(LibBooks)
      /\ libDouble' = (IF Listed(c) THEN libDouble \cup {c} ELSE libDouble)
      /\ libDoubt' = (IF Stored(c) THEN libDoubt ELSE libDoubt \cup {c})
      /\ libDouble \subseteq LibBooks /\ libDoubt \subseteq LibBooks
  BY DEF Prepend, LibTypeOK
<1> DEFINE s == <<c>> \o libItems
<1>2. /\ s \in Seq(LibBooks) /\ ToSet(s) = ToSet(libItems) \cup {c}
      /\ Once(s, c) <=> c \notin ToSet(libItems)
      /\ \A d : d # c => (Once(s, d) <=> Once(libItems, d))
  BY <1>1, InFront
<1>3. libItems' = s
  BY <1>1
<1>4. \A d \in LibBooks : /\ Listed(d)' <=> d \in ToSet(s)
                          /\ Once(libItems, d)' <=> Once(s, d)
                          /\ Stored(d)' <=> Stored(d)
  <2> HIDE DEF s
  <2> QED
    BY <1>3 DEF Listed, Once, Stored
<1> HIDE DEF s
<1>5. Stored(c) => ShownRight(c)'
  BY <1>1, <1>2, <1>4 DEF ShownRight, Listed
<1>6. \A d \in LibBooks : d # c => (ShownRight(d)' <=> ShownRight(d))
  BY <1>1, <1>2, <1>4 DEF ShownRight, Listed
<1> QED
  BY <1>1, <1>2, <1>3, <1>5, <1>6

(***************************************************************************)
(* An answer puts a book in front: the one it made, or the one that was    *)
(* there.                                                                  *)
(***************************************************************************)
LEMMA AnswerKeeps ==
  ASSUME LibInv, NEW b \in LibBooks, BookAnswered(b) \/ FoundAnswered(b)
  PROVE  LibInv'
<1> USE LibAssumption DEF LibInv
<1>1. UNCHANGED <<libServer, libNotice, libDelete, libReads, libRaced>> /\ DoneAdding(b)
  BY DEF BookAnswered, FoundAnswered
<1>2. RowsDiffer' /\ RefreshesFit' /\ LoadFits'
  BY <1>1, ReadsKept
<1>3. \A c \in LibBooks : Stored(c)' <=> Stored(c)
  BY <1>1 DEF Stored
<1>4. LibTypeOK /\ WaysFit /\ OneIsAsked /\ ListIsServers
  OBVIOUS
<1>5. PICK c \in LibBooks :
        /\ Prepend(c)
        /\ \/ /\ c = b /\ libWay[b] = "added" /\ libWay' = [libWay EXCEPT ![b] = "here"]
              /\ libOf' = libOf /\ libFound' = libFound
           \/ /\ libWay[b] = "found" /\ libWay' = [libWay EXCEPT ![b] = "out"]
              /\ libOf' = [libOf EXCEPT ![b] = NoResult] /\ libFound' = [libFound EXCEPT ![b] = b]
  BY DEF BookAnswered, FoundAnswered, ComesToNothing, LibTypeOK
<1>6. /\ libItems' \in Seq(LibBooks) /\ libDouble' \subseteq LibBooks
      /\ libDoubt \subseteq libDoubt' /\ libDoubt' \subseteq LibBooks
      /\ (Stored(c) => ShownRight(c)') /\ (~Stored(c) => c \in libDoubt')
      /\ \A d \in LibBooks : d # c => (ShownRight(d)' <=> ShownRight(d))
  BY <1>1, <1>4, <1>5, PrependShows
<1>7. libOwned' \subseteq LibResults /\ libMode' \in {"mine", "sources"}
  <2>1. libOwned \subseteq LibResults /\ libMode \in {"mine", "sources"}
        /\ libOf[b] \in LibResults \cup {NoResult}
    BY <1>4 DEF LibTypeOK
  <2>2. CASE BookAnswered(b)
    BY <2>1, <2>2 DEF BookAnswered, markOwned, setBrowseMode
  <2>3. CASE FoundAnswered(b)
    BY <1>4, <2>1, <2>3 DEF FoundAnswered, markOwned, WaysFit
  <2> QED
    BY <2>2, <2>3
<1> HIDE DEF LibInv
<1>8. /\ libWay' \in [LibBooks -> Ways] /\ libOf' \in [LibBooks -> LibResults \cup {NoResult}]
      /\ libFound' \in [LibBooks -> LibBooks]
      /\ \A d \in LibBooks : d # b => libWay'[d] = libWay[d] /\ libOf'[d] = libOf[d]
      /\ \/ libWay[b] = "added" /\ libWay'[b] = "here"
         \/ libWay[b] = "found" /\ libWay'[b] = "out" /\ libOf'[b] = NoResult
  <2>1. /\ libWay \in [LibBooks -> Ways] /\ libOf \in [LibBooks -> LibResults \cup {NoResult}]
        /\ libFound \in [LibBooks -> LibBooks] /\ "here" \in Ways /\ "out" \in Ways
    BY <1>4 DEF LibTypeOK, Ways
  <2>2. CASE libWay[b] = "added"
    BY <1>5, <2>1, <2>2
  <2>3. CASE libWay[b] # "added"
    BY <1>5, <2>1, <2>3
  <2> QED
    BY <2>2, <2>3
<1>9. LibTypeOK'
  <2>1. libAdding' \in LibResults \cup {NoResult}
    BY <1>1, <1>4 DEF DoneAdding, LibTypeOK
  <2> QED
    BY <1>1, <1>4, <1>6, <1>7, <1>8, <2>1 DEF LibTypeOK, libReads, Ways
<1>10. WaysFit'
  <2> SUFFICES ASSUME NEW d \in LibBooks
               PROVE  /\ Stored(d) \/ libDelete[d] = "gone" => libWay'[d] \in {"added", "arrived", "here"}
                      /\ libDelete[d] = "gone" => ~Stored(d)
                      /\ libWay'[d] = "out" => libOf'[d] = NoResult
                      /\ libWay'[d] \in {"found", "fetching", "arrived"} => libOf'[d] # NoResult
    BY <1>1, <1>3 DEF WaysFit
  <2>1. CASE d = b
    <3>1. /\ Stored(b) \/ libDelete[b] = "gone" => libWay[b] \in {"added", "arrived", "here"}
          /\ libDelete[b] = "gone" => ~Stored(b)
      BY <1>4 DEF WaysFit
    <3>2. CASE libWay[b] = "added" /\ libWay'[b] = "here"
      BY <2>1, <3>1, <3>2
    <3>3. CASE libWay[b] = "found" /\ libWay'[b] = "out" /\ libOf'[b] = NoResult
      BY <2>1, <3>1, <3>3
    <3>4. \/ libWay[b] = "added" /\ libWay'[b] = "here"
          \/ libWay[b] = "found" /\ libWay'[b] = "out" /\ libOf'[b] = NoResult
      BY <1>8
    <3> QED
      BY <3>2, <3>3, <3>4
  <2>2. CASE d # b
    BY <1>4, <1>8, <2>2 DEF WaysFit
  <2> QED
    BY <2>1, <2>2
<1>11. ListIsServers'
  <2> SUFFICES ASSUME Loaded', NEW d \in LibBooks \ libDoubt', AtRest(d)'
               PROVE  ShownRight(d)'
    BY DEF ListIsServers, ShownRight
  <2>1. Loaded /\ d \notin libDoubt
    BY <1>1, <1>6 DEF Loaded
  <2>2. CASE d = c
    BY <1>6, <2>2
  <2>3. CASE d # c
    <3>1. AtRest(d)
      BY <1>1, <1>4, <1>5, <2>3 DEF AtRest, LibTypeOK, Refreshing, libReads
    <3> QED
      BY <1>4, <1>6, <2>1, <2>3, <3>1, ShownIs
  <2> QED
    BY <2>2, <2>3
<1>12. OneIsAsked'
  BY <1>1, <1>4, <1>5, AnswerKept DEF LibTypeOK, Waiting
<1> QED
  BY <1>2, <1>9, <1>10, <1>11, <1>12 DEF LibInv

-----------------------------------------------------------------------------
(***************************************************************************)
(* The server stores a book that was not stored before: in front of its    *)
(* rows, once.                                                             *)
(***************************************************************************)
LEMMA StoringKeeps ==
  ASSUME LibInv, NEW b \in LibBooks, StoreBook(b) \/ GatewayStores(b)
  PROVE  LibInv'
<1> USE LibAssumption DEF LibInv
<1>1. /\ libServer' = <<b>> \o libServer /\ Moved(b)
      /\ UNCHANGED <<libItems, libNotice, libMode, libOf, libAdding, libOwned, libDelete,
                     libFound, libDouble, libRaced>>
  BY DEF StoreBook, GatewayStores, libPage, libSeen
<1>2. libWay[b] \in {"asked", "looked", "fetching", "givenup"} /\ ~Stored(b) /\ libDelete[b] # "gone"
  BY DEF StoreBook, GatewayStores, WaysFit
<1>3. \/ /\ libWay[b] \in {"asked", "looked"} /\ libWay' = [libWay EXCEPT ![b] = "added"] /\ libDoubt' = libDoubt
      \/ /\ libWay[b] = "fetching" /\ libWay' = [libWay EXCEPT ![b] = "arrived"]
         /\ libDoubt' = libDoubt
      \/ /\ libWay[b] = "givenup" /\ libWay' = [libWay EXCEPT ![b] = "here"]
         /\ libDoubt' = libDoubt \cup {b}
  BY DEF StoreBook, GatewayStores, libSeen
<1>4. libServer \in Seq(LibBooks)
  BY DEF LibTypeOK
<1>5. ToSet(<<b>> \o libServer) = ToSet(libServer) \cup {b} /\ <<b>> \o libServer \in Seq(LibBooks)
  BY <1>4, InFront
<1>6. \A c \in LibBooks : Stored(c)' <=> Stored(c) \/ c = b
  BY <1>1, <1>5 DEF Stored
<1>7. RowsDiffer'
  <2>1. ASSUME NEW c \in ToSet(<<b>> \o libServer) PROVE Once(<<b>> \o libServer, c)
    <3>1. CASE c = b
      BY <1>2, <1>4, <3>1, InFront DEF Stored
    <3>2. CASE c # b
      <4>1. Once(libServer, c)
        BY <1>5, <3>2 DEF RowsDiffer
      <4> QED
        BY <1>4, <3>2, <4>1, InFront
    <3> QED
      BY <3>1, <3>2
  <2> QED
    BY <1>1, <2>1 DEF RowsDiffer, Once
<1>8. /\ libRefresh' \in [LibBooks -> [page : Nat, pages : Nat, acc : Seq(LibBooks),
                                       moved : SUBSET LibBooks, cut : BOOLEAN]]
      /\ libLoad' \in [items : Seq(LibBooks), moved : SUBSET LibBooks,
                       notice : {"loading", "fine", "partial", "unavailable"}]
      /\ Refreshing' = Refreshing
      /\ RefreshesFit' /\ LoadFits'
  BY <1>1, <1>6, ReadsMoved
<1>9. LibTypeOK'
  <2>1. libWay' \in [LibBooks -> Ways] /\ libDoubt' \subseteq LibBooks
    BY <1>3 DEF LibTypeOK, Ways
  <2> QED
    BY <1>1, <1>5, <1>8, <2>1 DEF LibTypeOK, Ways
<1>10. WaysFit'
  <2>1. ASSUME NEW c \in LibBooks, c # b PROVE libWay'[c] = libWay[c] /\ (Stored(c)' <=> Stored(c))
    BY <1>3, <1>6, <2>1 DEF LibTypeOK
  <2>2. libWay'[b] \in {"added", "arrived", "here"} /\ (libWay'[b] = "arrived" => libWay[b] = "fetching")
    BY <1>3 DEF LibTypeOK
  <2> QED
    BY <1>1, <1>2, <2>1, <2>2 DEF WaysFit
<1>11. ListIsServers'
  <2> SUFFICES ASSUME Loaded', NEW c \in LibBooks \ libDoubt', AtRest(c)'
               PROVE  ShownRight(c)'
    BY DEF ListIsServers, ShownRight
  <2>1. Loaded /\ c \notin libDoubt /\ c # b
    BY <1>1, <1>3 DEF Loaded, AtRest, LibTypeOK
  <2>2. AtRest(c)
    BY <1>1, <1>3, <1>8, <2>1 DEF AtRest, LibTypeOK
  <2>3. ShownRight(c)
    BY <2>1, <2>2, ShownIs
  <2> QED
    BY <1>1, <1>6, <2>1, <2>3 DEF ShownRight, Once, Listed
<1>12. \A c \in LibBooks : AskedFor(c)' => AskedFor(c) /\ libOf'[c] = libOf[c]
  BY <1>1, <1>3 DEF AskedFor, Waiting, LibTypeOK
<1>13. OneIsAsked'
  BY <1>1, <1>12, AskedKept
<1> QED
  BY <1>7, <1>8, <1>9, <1>10, <1>11, <1>13

-----------------------------------------------------------------------------
\* The parts of a refresh that is read on, or that ends.
LEMMA Updated ==
  ASSUME NEW S, NEW M,
         NEW f \in [page : Nat, pages : Nat, acc : S, moved : M, cut : BOOLEAN],
         NEW a \in Nat, NEW p \in Nat, NEW s \in S, NEW m \in M
  PROVE  /\ LET g == [f EXCEPT !.page = a, !.acc = s, !.pages = p, !.moved = m]
            IN /\ g \in [page : Nat, pages : Nat, acc : S, moved : M, cut : BOOLEAN]
               /\ g.page = a /\ g.acc = s /\ g.pages = p /\ g.moved = m /\ g.cut = f.cut
         /\ LET g == [f EXCEPT !.page = a, !.pages = p, !.cut = TRUE]
            IN /\ g \in [page : Nat, pages : Nat, acc : S, moved : M, cut : BOOLEAN]
               /\ g.page = a /\ g.pages = p /\ g.cut
         /\ LET g == [f EXCEPT !.page = a]
            IN /\ g \in [page : Nat, pages : Nat, acc : S, moved : M, cut : BOOLEAN]
               /\ g.page = a /\ g.pages = f.pages /\ g.acc = f.acc
OBVIOUS

(***************************************************************************)
(* The end of a fetch, and the pages its refresh reads.                    *)
(***************************************************************************)
LEMMA FetchEndKeeps ==
  ASSUME LibInv, NEW b \in LibBooks, handleFetchTimeout(b) \/ handleFetchDone(b)
  PROVE  LibInv'
<1> USE LibAssumption DEF LibInv
<1>1. UNCHANGED <<libServer, libItems, libNotice, libMode, libOf, libAdding, libDelete, libLoad,
                  libFound, libDouble, libRaced>>
  BY DEF handleFetchTimeout, handleFetchDone, libPage, libSeen, libReads
<1>2. \A c \in LibBooks : Stored(c)' <=> Stored(c)
  BY <1>1 DEF Stored
<1>3. /\ libWay[b] \in {"fetching", "arrived"} /\ libOf[b] # NoResult
      /\ libWay' = [libWay EXCEPT ![b] = IF libWay[b] = "arrived" THEN "here" ELSE "givenup"]
  BY DEF handleFetchTimeout, handleFetchDone, WaysFit, LibTypeOK
<1>4. WaysFit'
  <2>1. /\ libWay[b] = "fetching" => ~Stored(b) /\ libDelete[b] # "gone" /\ libWay'[b] = "givenup"
        /\ libWay[b] = "arrived" => libWay'[b] = "here"
        /\ \A c \in LibBooks : c # b => libWay'[c] = libWay[c]
    BY <1>3 DEF WaysFit, LibTypeOK
  <2> QED
    BY <1>1, <1>2, <1>3, <2>1 DEF WaysFit
<1>5. \A c \in LibBooks : AskedFor(c)' => AskedFor(c) /\ libOf'[c] = libOf[c]
  BY <1>1, <1>3 DEF AskedFor, Waiting, LibTypeOK
<1>6. OneIsAsked'
  BY <1>1, <1>5, AskedKept
<1>7. CASE handleFetchTimeout(b)
  <2>1. /\ UNCHANGED <<libReads, libOwned>>
        /\ libDoubt' = (IF libWay[b] = "arrived" THEN libDoubt \cup {b} ELSE libDoubt)
        /\ libWay' = [libWay EXCEPT ![b] = IF @ = "fetching" THEN "givenup" ELSE "here"]
    BY <1>7 DEF handleFetchTimeout
  <2>2. RowsDiffer' /\ RefreshesFit' /\ LoadFits'
    BY <1>1, <2>1, ReadsKept
  <2>3. LibTypeOK'
    BY <1>1, <2>1 DEF LibTypeOK, libReads
  <2>4. \A c \in LibBooks \ libDoubt' : AtRest(c)' => c \notin libDoubt /\ AtRest(c)
    BY <1>1, <1>3, <2>1 DEF AtRest, LibTypeOK, Refreshing, libReads
  <2>5. ListIsServers'
    BY <1>1, <2>4, ListKept DEF Loaded
  <2> QED
    BY <1>4, <1>6, <2>2, <2>3, <2>5
<1>8. CASE handleFetchDone(b)
  <2>1. /\ libWay[b] = "arrived" /\ libWay' = [libWay EXCEPT ![b] = "here"]
        /\ libOwned' \in {libOwned, libOwned \cup {libOf[b]}} /\ libDoubt' = libDoubt
        /\ libRefresh' = [libRefresh EXCEPT ![b] = [NoRefresh EXCEPT !.page = 1]]
    BY <1>8 DEF handleFetchDone, markOwned, libSeen
  <2> DEFINE f == [NoRefresh EXCEPT !.page = 1]
  <2> DEFINE Fetch == [page : Nat, pages : Nat, acc : Seq(LibBooks), moved : SUBSET LibBooks,
                       cut : BOOLEAN]
  <2>2. f \in Fetch /\ f.page = 1 /\ f.pages = 0 /\ f.acc = <<>>
    <3>1. <<>> \in Seq(LibBooks) /\ {} \in SUBSET LibBooks /\ 1 \in Nat
      OBVIOUS
    <3>2. NoRefresh \in Fetch /\ NoRefresh.pages = 0 /\ NoRefresh.acc = <<>>
      BY <3>1 DEF NoRefresh
    <3> QED
      BY <3>1, <3>2, Updated
  <2> HIDE DEF f
  <2>3. LibTypeOK'
    <3>1. libRefresh \in [LibBooks -> Fetch]
      BY DEF LibTypeOK
    <3>2. libRefresh' \in [LibBooks -> Fetch]
      <4> HIDE DEF Fetch
      <4> QED
        BY <2>1, <2>2, <3>1 DEF f
    <3>3. libOwned' \subseteq LibResults
      BY <1>3, <2>1 DEF LibTypeOK
    <3> QED
      BY <1>1, <2>1, <3>2, <3>3 DEF LibTypeOK
  <2>4. RowsDiffer' /\ LoadFits'
    BY <1>1 DEF RowsDiffer, LoadFits, SameBut, Stored, Once
  <2>5. ASSUME NEW k \in LibBooks PROVE RefreshFits(libRefresh[k])'
    <3>1. CASE k = b
      <4>1. libRefresh'[k].page = 1 /\ libRefresh'[k].acc = <<>> /\ libRefresh'[k].pages = 0
        <5>1. libRefresh'[k] = f
          BY <2>1, <3>1 DEF f, LibTypeOK
        <5> QED
          BY <2>2, <5>1
      <4> QED
        BY <4>1 DEF RefreshFits
    <3>2. CASE k # b
      <4>1. libRefresh'[k] = libRefresh[k]
        BY <2>1, <3>2 DEF LibTypeOK
      <4> QED
        BY <1>1, <4>1 DEF RefreshesFit, RefreshFits, SameBut, Stored, Once, PageCount, UpTo
    <3> QED
      BY <3>1, <3>2
  <2>6. \A c \in LibBooks : c \in Refreshing' <=> c \in Refreshing \/ c = b
    BY <2>1, <2>2 DEF Refreshing, LibTypeOK
  <2>7. \A c \in LibBooks \ libDoubt' : AtRest(c)' => c \notin libDoubt /\ AtRest(c)
    BY <1>1, <2>1, <2>6 DEF AtRest, LibTypeOK
  <2>8. ListIsServers'
    BY <1>1, <2>7, ListKept DEF Loaded
  <2> QED
    BY <1>4, <1>6, <2>3, <2>4, <2>5, <2>8 DEF RefreshesFit
<1> QED
  BY <1>7, <1>8

(***************************************************************************)
(* A step that changes one refresh and nothing else but doubts.            *)
(***************************************************************************)
LEMMA RefreshKeeps ==
  ASSUME LibInv, NEW b \in LibBooks,
         NEW f \in [page : Nat, pages : Nat, acc : Seq(LibBooks), moved : SUBSET LibBooks,
                    cut : BOOLEAN],
         libRefresh' = [libRefresh EXCEPT ![b] = f],
         UNCHANGED <<libServer, libPage, libAsk, libDelete, libFound, libDouble, libRaced, libLoad>>,
         libDoubt \subseteq libDoubt', libDoubt' \subseteq LibBooks, f.page = 0 => b \in libDoubt',
         RefreshFits(f), libRefresh[b].page > 0
  PROVE  LibInv'
<1> USE LibAssumption DEF LibInv
<1>1. UNCHANGED <<libServer, libItems, libNotice, libMode, libWay, libOf, libAdding, libOwned,
                  libDelete, libFound, libDouble, libRaced, libLoad>>
  BY DEF libPage, libAsk
<1>2. \A c \in LibBooks : Stored(c)' <=> Stored(c)
  BY <1>1 DEF Stored
<1>3. LibTypeOK'
  BY <1>1 DEF LibTypeOK
<1>4. RowsDiffer' /\ LoadFits'
  BY <1>1 DEF RowsDiffer, LoadFits, SameBut, Stored, Once
<1>5. WaysFit' /\ OneIsAsked'
  BY <1>1, <1>2 DEF WaysFit, OneIsAsked, AskedFor
<1>6. ASSUME NEW k \in LibBooks PROVE RefreshFits(libRefresh[k])'
  <2>1. PICK g : g = libRefresh'[k] /\ RefreshFits(g)
    <3>1. CASE k = b
      BY <3>1 DEF LibTypeOK
    <3>2. CASE k # b
      BY <3>2 DEF LibTypeOK, RefreshesFit
    <3> QED
      BY <3>1, <3>2
  <2> QED
    BY <1>1, <2>1 DEF RefreshFits, SameBut, Stored, Once, PageCount, UpTo
<1>7. \A c \in LibBooks \ libDoubt' : AtRest(c)' => c \notin libDoubt /\ AtRest(c)
  <2> SUFFICES ASSUME NEW c \in LibBooks \ libDoubt', AtRest(c)' PROVE c \notin libDoubt /\ AtRest(c)
    OBVIOUS
  <2>1. c # b
    BY DEF AtRest, Refreshing, LibTypeOK
  <2>2. libRefresh'[c] = libRefresh[c]
    BY <2>1 DEF LibTypeOK
  <2> QED
    BY <1>1, <2>2 DEF AtRest, Refreshing
<1>8. ListIsServers'
  BY <1>1, <1>7, ListKept DEF Loaded
<1> QED
  BY <1>3, <1>4, <1>5, <1>6, <1>8 DEF RefreshesFit

(***************************************************************************)
(* The pages of the server's list, when nothing moves, make its beginning. *)
(***************************************************************************)
LEMMA ReadPageKeeps ==
  ASSUME LibInv, NEW b \in LibBooks, ReadPage(b)
  PROVE  LibInv'
<1> DEFINE f == libRefresh[b]
<1> DEFINE Fetch == [page : Nat, pages : Nat, acc : Seq(LibBooks), moved : SUBSET LibBooks,
                     cut : BOOLEAN]
<1> DEFINE g == [f EXCEPT !.page = @ + 1, !.acc = @ \o PageOf(libServer, f.page),
                          !.pages = IF f.page = 1 THEN PageCount(libServer) ELSE @,
                          !.moved = IF f.page = 1 THEN {} ELSE @]
<1>1. /\ libRefresh' = [libRefresh EXCEPT ![b] = g] /\ Unread(b)
      /\ UNCHANGED <<libServer, libPage, libAsk, libDelete, libFound, libDouble, libRaced, libLoad, libDoubt>>
  BY DEF ReadPage, libSeen, libAsk
<1>2. f \in Fetch /\ libServer \in Seq(LibBooks) /\ libDoubt \subseteq LibBooks
  BY DEF LibInv, LibTypeOK
<1>3. f.page \in Nat \ {0} /\ f.page <= (IF f.pages = 0 THEN 1 ELSE f.pages) /\ f.page > 0
  BY <1>1, <1>2 DEF Unread
<1>4. RefreshFits(f) /\ RowsDiffer
  BY DEF LibInv, RefreshesFit
<1>5. PageOf(libServer, f.page) \in Seq(LibBooks) /\ PageCount(libServer) \in Nat \ {0}
  BY <1>2, <1>3, NextPage, PagesCover
<1>6. f.acc \o PageOf(libServer, f.page) \in Seq(LibBooks)
  BY <1>2, <1>5, ConcatProperties
<1>7. /\ g.page = f.page + 1 /\ g.acc = f.acc \o PageOf(libServer, f.page) /\ g.cut = f.cut
      /\ g.pages = (IF f.page = 1 THEN PageCount(libServer) ELSE f.pages)
      /\ g.moved = (IF f.page = 1 THEN {} ELSE f.moved)
      /\ g \in Fetch
  <2> DEFINE a == f.page + 1
  <2> DEFINE s == f.acc \o PageOf(libServer, f.page)
  <2> DEFINE p == IF f.page = 1 THEN PageCount(libServer) ELSE f.pages
  <2> DEFINE m == IF f.page = 1 THEN {} ELSE f.moved
  <2>1. a \in Nat /\ s \in Seq(LibBooks) /\ p \in Nat /\ m \in SUBSET LibBooks
    BY <1>2, <1>5, <1>6
  <2>2. g = [f EXCEPT !.page = a, !.acc = s, !.pages = p, !.moved = m]
    BY <1>2
  <2> HIDE DEF a, s, p, m, g, f
  <2>3. /\ g \in Fetch /\ g.page = a /\ g.acc = s /\ g.pages = p /\ g.moved = m /\ g.cut = f.cut
    BY <1>2, <2>1, <2>2, Updated
  <2> QED
    BY <2>3 DEF a, s, p, m
<1>8. /\ UpTo(libServer, (f.page - 1) * LibPageLimit) \o PageOf(libServer, f.page)
           = UpTo(libServer, f.page * LibPageLimit)
      /\ f.page = 1 => PageOf(libServer, f.page) = UpTo(libServer, f.page * LibPageLimit)
  BY <1>2, <1>3, NextPage
<1> HIDE DEF f, g, Fetch
<1>9. RefreshFits(g)
  <2>1. g.page > 1 /\ g.page # 1 /\ g.page - 1 = f.page
    BY <1>3, <1>7
  <2>2. CASE f.page = 1
    <3>1. g.acc = UpTo(libServer, f.page * LibPageLimit)
      <4>1. f.acc = <<>>
        BY <1>4, <2>2 DEF RefreshFits
      <4>2. g.acc = PageOf(libServer, f.page)
        BY <1>5, <1>7, <4>1, ConcatEmptySeq
      <4> QED
        BY <1>8, <2>2, <4>2
    <3>2. g.pages = PageCount(libServer) /\ g.pages \in Nat \ {0} /\ g.page = 2 /\ g.page <= g.pages + 1
      BY <1>5, <1>7, <2>2
    <3>3. ASSUME g.pages = 1 PROVE SameBut(g.acc, g.moved)
      <4>1. f.page * LibPageLimit >= Len(libServer)
        <5>1. f.page \in Nat /\ f.page >= PageCount(libServer)
          BY <1>3, <2>2, <3>2, <3>3
        <5> QED
          BY <1>2, <5>1, PagesCover
      <4>2. f.page * LibPageLimit \in Nat
        BY <2>2, LibAssumption
      <4>3. g.acc = libServer
        BY <1>2, <3>1, <4>1, <4>2, UpToIs
      <4> QED
        BY <1>4, <4>3 DEF SameBut, RowsDiffer, Stored
    <3> QED
      BY <2>1, <3>1, <3>2, <3>3 DEF RefreshFits
  <2>3. CASE f.page # 1
    <3>1. f.page > 1 /\ g.pages = f.pages /\ g.moved = f.moved
      BY <1>3, <1>7, <2>3
    <3> SUFFICES ASSUME ~f.cut PROVE RefreshFits(g)
      BY <1>7, <2>1 DEF RefreshFits
    <3>2. /\ f.pages # 0 /\ f.pages # 1
          /\ f.moved = {} => /\ f.pages = PageCount(libServer)
                             /\ f.acc = UpTo(libServer, (f.page - 1) * LibPageLimit)
      BY <1>2, <1>3, <1>4, <3>1 DEF RefreshFits, Fetch
    <3>3. g.page <= g.pages + 1
      BY <1>2, <1>3, <1>7, <3>1, <3>2 DEF Fetch
    <3> QED
      BY <1>7, <1>8, <2>1, <3>1, <3>2, <3>3 DEF RefreshFits
  <2> QED
    BY <2>2, <2>3
<1> QED
  <2>1. g.page # 0 /\ g \in Fetch
    BY <1>3, <1>7
  <2>2. libRefresh[b].page > 0
    BY <1>3 DEF f
  <2> QED
    BY <1>1, <1>2, <1>9, <2>1, <2>2, RefreshKeeps DEF Fetch

LEMMA PageFailsKeeps ==
  ASSUME LibInv, NEW b \in LibBooks, FirstPageFails(b) \/ LaterPageFails(b)
  PROVE  LibInv'
<1> DEFINE f == libRefresh[b]
<1> DEFINE Fetch == [page : Nat, pages : Nat, acc : Seq(LibBooks), moved : SUBSET LibBooks,
                     cut : BOOLEAN]
<1>1. f \in Fetch /\ libDoubt \subseteq LibBooks /\ libRefresh \in [LibBooks -> Fetch]
  BY DEF LibInv, LibTypeOK
<1>2. CASE FirstPageFails(b)
  <2>1. NoRefresh \in Fetch /\ RefreshFits(NoRefresh) /\ NoRefresh.page = 0
    BY DEF NoRefresh, RefreshFits
  <2>2. /\ libRefresh' = [libRefresh EXCEPT ![b] = NoRefresh] /\ f.page > 0
        /\ libDoubt' = libDoubt \cup {b}
        /\ UNCHANGED <<libServer, libPage, libAsk, libDelete, libFound, libDouble, libRaced, libLoad>>
    BY <1>2 DEF FirstPageFails, libAsk
  <2> QED
    BY <1>1, <2>1, <2>2, RefreshKeeps
<1>3. CASE LaterPageFails(b)
  <2> DEFINE g == [f EXCEPT !.page = @ + 1, !.pages = f.page - 1, !.cut = TRUE]
  <2>1. f.page > 1
    BY <1>3 DEF LaterPageFails
  <2>2. g \in Fetch /\ g.page > 1 /\ g.page # 1 /\ g.page # 0 /\ g.cut
    <3>1. f.page + 1 \in Nat /\ f.page - 1 \in Nat /\ f.page + 1 > 1
      BY <1>1, <2>1
    <3>2. <<>> \in Seq(LibBooks) /\ {} \in SUBSET LibBooks
      OBVIOUS
    <3>3. g = [f EXCEPT !.page = f.page + 1, !.pages = f.page - 1, !.cut = TRUE]
      OBVIOUS
    <3> HIDE DEF g, f
    <3>4. g \in Fetch /\ g.page = f.page + 1 /\ g.cut
      BY <1>1, <3>1, <3>2, <3>3, Updated
    <3> QED
      BY <3>1, <3>4
  <2>3. RefreshFits(g)
    BY <2>2 DEF RefreshFits
  <2>4. /\ libRefresh' = [libRefresh EXCEPT ![b] = g]
        /\ UNCHANGED <<libServer, libPage, libAsk, libDelete, libFound, libDouble, libRaced, libLoad, libDoubt>>
    BY <1>1, <1>3 DEF LaterPageFails, libSeen, libAsk
  <2>5. libRefresh[b].page > 0
    BY <1>1, <2>1
  <2> HIDE DEF g, f
  <2> QED
    BY <1>1, <2>2, <2>3, <2>4, <2>5, RefreshKeeps
<1> QED
  BY <1>2, <1>3

(***************************************************************************)
(* The list becomes what was read: wrong only about what moved.            *)
(***************************************************************************)
LEMMA ApplyKeeps ==
  ASSUME LibInv, NEW b \in LibBooks, ApplyRefresh(b)
  PROVE  LibInv'
<1> USE LibAssumption DEF LibInv
<1> DEFINE f == libRefresh[b]
<1> DEFINE Fetch == [page : Nat, pages : Nat, acc : Seq(LibBooks), moved : SUBSET LibBooks,
                     cut : BOOLEAN]
<1>1. /\ f.page > 1 /\ ~Unread(b) /\ libItems' = f.acc
      /\ libDoubt' = (IF f.cut \/ (f.pages > 1 /\ f.moved # {}) THEN LibBooks ELSE f.moved)
      /\ libRefresh' = [libRefresh EXCEPT ![b] = NoRefresh]
      /\ UNCHANGED <<libServer, libNotice, libMode, libWay, libOf, libAdding, libOwned,
                     libDelete, libFound, libRaced, libLoad>>
      /\ libDouble' = {}
  BY DEF ApplyRefresh, libAsk
<1>2. f \in Fetch /\ libServer \in Seq(LibBooks) /\ libRefresh \in [LibBooks -> Fetch]
  BY DEF LibTypeOK
<1>3. NoRefresh \in Fetch /\ RefreshFits(NoRefresh)
  BY DEF NoRefresh, RefreshFits
<1>4. LibTypeOK'
  <2>1. libRefresh' \in [LibBooks -> Fetch]
    BY <1>1, <1>2, <1>3
  <2>2. libItems' \in Seq(LibBooks) /\ libDoubt' \subseteq LibBooks
    BY <1>1, <1>2
  <2> QED
    BY <1>1, <2>1, <2>2 DEF LibTypeOK
<1>5. RowsDiffer' /\ LoadFits'
  BY <1>1 DEF RowsDiffer, LoadFits, SameBut, Stored, Once
<1>6. WaysFit' /\ OneIsAsked'
  BY <1>1 DEF WaysFit, OneIsAsked, AskedFor, Stored
<1>7. ASSUME NEW k \in LibBooks PROVE RefreshFits(libRefresh[k])'
  <2>1. PICK g : g = libRefresh'[k] /\ RefreshFits(g)
    <3>1. CASE k = b
      BY <1>1, <1>2, <1>3, <3>1
    <3>2. CASE k # b
      BY <1>1, <1>2, <3>2 DEF RefreshesFit
    <3> QED
      BY <3>1, <3>2
  <2> QED
    BY <1>1, <2>1 DEF RefreshFits, SameBut, Stored, Once, PageCount, UpTo
<1>8. RefreshFits(f) /\ RowsDiffer
  BY DEF RefreshesFit
<1>9. ASSUME NEW c \in LibBooks \ libDoubt'
      PROVE  IF Stored(c) THEN Once(f.acc, c) ELSE c \notin ToSet(f.acc)
  <2>1. ~f.cut /\ c \notin f.moved /\ ~(f.pages > 1 /\ f.moved # {})
    BY <1>1, <1>9
  <2>2. /\ f.pages # 0
        /\ f.pages = 1 => SameBut(f.acc, f.moved)
        /\ f.moved = {} => /\ f.pages = PageCount(libServer) /\ f.page <= f.pages + 1
                           /\ f.acc = UpTo(libServer, (f.page - 1) * LibPageLimit)
    BY <1>1, <1>8, <2>1 DEF RefreshFits
  <2>3. CASE f.pages = 1
    BY <2>1, <2>2, <2>3 DEF SameBut
  <2>4. CASE f.pages # 1
    <3>1. f.pages > 1 /\ f.moved = {}
      <4>1. f.pages \in Nat /\ f.pages # 0
        BY <1>2, <2>2
      <4> HIDE DEF f, Fetch
      <4>2. f.pages > 1
        BY <2>4, <4>1
      <4> QED
        BY <2>1, <4>2
    <3>2. f.page > f.pages
      BY <1>1, <1>2, <2>2 DEF Unread
    <3>3. f.page - 1 \in Nat /\ f.page - 1 >= PageCount(libServer)
      BY <1>1, <1>2, <2>2, <3>1, <3>2
    <3>4. (f.page - 1) * LibPageLimit >= Len(libServer)
      BY <1>2, <3>3, PagesCover
    <3>5. (f.page - 1) * LibPageLimit \in Nat
      BY <3>3
    <3>6. f.acc = libServer
      BY <1>2, <2>2, <3>1, <3>4, <3>5, UpToIs
    <3> QED
      BY <1>8, <3>6 DEF RowsDiffer, Stored
  <2> QED
    BY <2>3, <2>4
<1>10. ListIsServers'
  <2> SUFFICES ASSUME NEW c \in LibBooks \ libDoubt'
               PROVE  ShownRight(c)'
    BY DEF ListIsServers, ShownRight
  <2> QED
    BY <1>1, <1>9 DEF ShownRight, Stored, Listed, Once, ToSet
<1> QED
  BY <1>4, <1>5, <1>6, <1>7, <1>10 DEF RefreshesFit

-----------------------------------------------------------------------------
(***************************************************************************)
(* Deleting: a row goes from the server, then from the list.               *)
(***************************************************************************)
LEMMA DeletingKeeps ==
  ASSUME LibInv, NEW b \in LibBooks, AskDelete(b) \/ DeleteFails(b)
  PROVE  LibInv'
<1> USE LibAssumption DEF LibInv
<1>1. UNCHANGED <<libServer, libItems, libNotice, libMode, libWay, libOf, libAdding, libOwned,
                  libReads, libFound, libDouble, libRaced>>
  BY DEF AskDelete, DeleteFails, libPage, libAsk, libSeen
<1>2. /\ libDelete' = [libDelete EXCEPT ![b] = libDelete'[b]] /\ libDelete'[b] \in {"no", "asked"}
      /\ libDelete[b] = "gone" => b \in libDoubt'
      /\ libDoubt \subseteq libDoubt' /\ libDoubt' \subseteq LibBooks
  BY DEF AskDelete, DeleteFails, libSeen, LibTypeOK
<1>3. RowsDiffer' /\ RefreshesFit' /\ LoadFits'
  BY <1>1, ReadsKept
<1>4. LibTypeOK'
  <2>1. libDelete' \in [LibBooks -> {"no", "asked", "gone", "left"}]
    <3>1. libDelete \in [LibBooks -> {"no", "asked", "gone", "left"}]
      BY DEF LibTypeOK
    <3>2. libDelete'[b] \in {"no", "asked", "gone", "left"}
      BY <1>2
    <3> QED
      BY <1>2, <3>1, <3>2
  <2> QED
    BY <1>1, <1>2, <2>1 DEF LibTypeOK, libReads
<1>5. WaysFit' /\ OneIsAsked'
  BY <1>1, <1>2 DEF WaysFit, OneIsAsked, AskedFor, Stored, LibTypeOK
<1>6. \A c \in LibBooks \ libDoubt' : AtRest(c)' => c \notin libDoubt /\ AtRest(c)
  BY <1>1, <1>2 DEF AtRest, LibTypeOK, Refreshing, libReads
<1>7. ListIsServers'
  BY <1>1, <1>6, ListKept DEF Loaded
<1> QED
  BY <1>3, <1>4, <1>5, <1>7

LEMMA DeleteRowKeeps ==
  ASSUME LibInv, NEW b \in LibBooks, DeleteRow(b)
  PROVE  LibInv'
<1> USE LibAssumption DEF LibInv
<1>1. /\ libServer' = Left(libServer, LibBooks \ {b}) /\ Moved(b) /\ Stored(b)
      /\ UNCHANGED <<libItems, libNotice, libMode, libWay, libOf, libAdding, libOwned,
                     libFound, libDouble, libRaced>>
  BY DEF DeleteRow, Without, libPage, libAsk
<1>2. \/ /\ libDelete[b] = "asked" /\ libDelete' = [libDelete EXCEPT ![b] = "gone"]
         /\ libDoubt' = libDoubt
      \/ /\ libDelete[b] = "left" /\ libDelete' = [libDelete EXCEPT ![b] = "no"]
         /\ libDoubt' = libDoubt \cup {b}
  BY DEF DeleteRow
<1>3. libServer \in Seq(LibBooks)
  BY DEF LibTypeOK
<1>4. /\ Left(libServer, LibBooks \ {b}) \in Seq(LibBooks)
      /\ ToSet(Left(libServer, LibBooks \ {b})) = ToSet(libServer) \cap (LibBooks \ {b})
      /\ \A c \in LibBooks \ {b} : Once(Left(libServer, LibBooks \ {b}), c) <=> Once(libServer, c)
  BY <1>3, LeftIs
<1>5. \A c \in LibBooks : Stored(c)' <=> Stored(c) /\ c # b
  BY <1>1, <1>4 DEF Stored
<1>6. RowsDiffer'
  <2>1. ASSUME NEW c \in ToSet(Left(libServer, LibBooks \ {b}))
        PROVE  Once(Left(libServer, LibBooks \ {b}), c)
    BY <1>4 DEF RowsDiffer
  <2> QED
    BY <1>1, <2>1 DEF RowsDiffer, Once
<1>7. /\ libRefresh' \in [LibBooks -> [page : Nat, pages : Nat, acc : Seq(LibBooks),
                                       moved : SUBSET LibBooks, cut : BOOLEAN]]
      /\ libLoad' \in [items : Seq(LibBooks), moved : SUBSET LibBooks,
                       notice : {"loading", "fine", "partial", "unavailable"}]
      /\ Refreshing' = Refreshing
      /\ RefreshesFit' /\ LoadFits'
  BY <1>1, <1>5, ReadsMoved
<1>8. LibTypeOK'
  <2>1. libDelete' \in [LibBooks -> {"no", "asked", "gone", "left"}]
    BY <1>2 DEF LibTypeOK
  <2>2. libDoubt' \subseteq LibBooks
    BY <1>2 DEF LibTypeOK
  <2>3. libServer' \in Seq(LibBooks)
    BY <1>1, <1>4
  <2> QED
    BY <1>1, <1>7, <2>1, <2>2, <2>3 DEF LibTypeOK
<1>9. WaysFit'
  <2>1. ASSUME NEW c \in LibBooks, c # b
        PROVE  libDelete'[c] = libDelete[c] /\ (Stored(c)' <=> Stored(c))
    BY <1>2, <1>5, <2>1 DEF LibTypeOK
  <2>2. libWay[b] \in {"added", "arrived", "here"} /\ ~Stored(b)'
    BY <1>1, <1>5 DEF WaysFit
  <2> QED
    BY <1>1, <2>1, <2>2 DEF WaysFit
<1>10. ListIsServers'
  <2> SUFFICES ASSUME Loaded', NEW c \in LibBooks \ libDoubt', AtRest(c)'
               PROVE  ShownRight(c)'
    BY DEF ListIsServers, ShownRight
  <2>1. Loaded /\ c \notin libDoubt /\ c # b
    BY <1>1, <1>2 DEF Loaded, AtRest, LibTypeOK
  <2>2. AtRest(c)
    BY <1>1, <1>2, <1>7, <2>1 DEF AtRest, LibTypeOK
  <2>3. ShownRight(c)
    BY <2>1, <2>2, ShownIs
  <2> QED
    BY <1>1, <1>5, <2>1, <2>3 DEF ShownRight, Once, Listed
<1>11. OneIsAsked'
  BY <1>1 DEF OneIsAsked, AskedFor
<1> QED
  BY <1>6, <1>7, <1>8, <1>9, <1>10, <1>11

LEMMA DeleteAnswerKeeps ==
  ASSUME LibInv, NEW b \in LibBooks, DeleteAnswered(b)
  PROVE  LibInv'
<1> USE LibAssumption DEF LibInv
<1>1. /\ libDelete[b] = "gone" /\ libDelete' = [libDelete EXCEPT ![b] = "no"]
      /\ libItems' = Left(libItems, LibBooks \ {b})
      /\ UNCHANGED <<libServer, libNotice, libMode, libWay, libOf, libAdding, libOwned,
                     libReads, libDoubt, libFound, libRaced>>
      /\ libDouble' = libDouble \ {b}
  BY DEF DeleteAnswered, Without, libAsk, libSeen
<1>2. libItems \in Seq(LibBooks)
  BY DEF LibTypeOK
<1>3. /\ Left(libItems, LibBooks \ {b}) \in Seq(LibBooks)
      /\ ToSet(Left(libItems, LibBooks \ {b})) = ToSet(libItems) \cap (LibBooks \ {b})
      /\ \A c \in LibBooks \ {b} : Once(Left(libItems, LibBooks \ {b}), c) <=> Once(libItems, c)
  BY <1>2, LeftIs
<1>4. RowsDiffer' /\ RefreshesFit' /\ LoadFits'
  BY <1>1, ReadsKept
<1>5. LibTypeOK'
  BY <1>1, <1>3 DEF LibTypeOK, libReads
<1>6. WaysFit' /\ OneIsAsked'
  BY <1>1 DEF WaysFit, OneIsAsked, AskedFor, Stored, LibTypeOK
<1>7. ListIsServers'
  <2> SUFFICES ASSUME Loaded', NEW c \in LibBooks \ libDoubt', AtRest(c)'
               PROVE  ShownRight(c)'
    BY DEF ListIsServers, ShownRight
  <2>1. Loaded /\ c \notin libDoubt /\ (Stored(c)' <=> Stored(c))
    BY <1>1 DEF Loaded, Stored
  <2>2. CASE c = b
    <3>1. ~Stored(b)
      BY <1>1 DEF WaysFit
    <3>2. ~Listed(b)'
      BY <1>1, <1>3 DEF Listed
    <3> QED
      BY <2>1, <2>2, <3>1, <3>2 DEF ShownRight
  <2>3. CASE c # b
    <3>1. AtRest(c)
      BY <1>1, <2>3 DEF AtRest, LibTypeOK, Refreshing, libReads
    <3>2. ShownRight(c)
      BY <2>1, <3>1, ShownIs
    <3>3. (Listed(c)' <=> Listed(c)) /\ (Once(libItems, c)' <=> Once(libItems, c))
      <4> DEFINE rest == Left(libItems, LibBooks \ {b})
      <4>1. (c \in ToSet(rest) <=> c \in ToSet(libItems)) /\ (Once(rest, c) <=> Once(libItems, c))
        BY <1>3, <2>3
      <4>2. libItems' = rest
        BY <1>1
      <4> HIDE DEF rest
      <4> QED
        BY <4>1, <4>2 DEF Listed, Once
    <3> QED
      BY <1>1, <2>1, <2>3, <3>2, <3>3 DEF ShownRight
  <2> QED
    BY <2>2, <2>3
<1> QED
  BY <1>4, <1>5, <1>6, <1>7

-----------------------------------------------------------------------------
(***************************************************************************)
(* Loading: a load that was read whole is right but for what moved.        *)
(***************************************************************************)
LEMMA LoadKeeps ==
  ASSUME LibInv, NEW k \in Nat, Load(k)
  PROVE  LibInv'
<1> USE LibAssumption DEF LibInv
<1>1. /\ libLoad = NoLoad /\ k <= PageCount(libServer) /\ libLoad' = mergeLibraryFetch(k)
      /\ UNCHANGED <<libServer, libItems, libNotice, libMode, libWay, libOf, libAdding, libOwned,
                     libDelete, libRefresh, libDoubt, libFound, libDouble, libRaced>>
  BY DEF Load, libPage, libAsk, libSeen
<1>2. libServer \in Seq(LibBooks)
  BY DEF LibTypeOK
<1>3. k * LibPageLimit \in Nat
  OBVIOUS
<1>4. UpTo(libServer, k * LibPageLimit) \in Seq(LibBooks)
  BY <1>2, <1>3, UpToIs
<1>5. /\ libLoad' \in [items : Seq(LibBooks), moved : SUBSET LibBooks,
                       notice : {"loading", "fine", "partial", "unavailable"}]
      /\ libLoad'.notice = "fine"
           => ~(k < PageCount(libServer)) /\ libLoad'.items = UpTo(libServer, k * LibPageLimit)
  <2> DEFINE LoadSet == [items : Seq(LibBooks), moved : SUBSET LibBooks,
                         notice : {"loading", "fine", "partial", "unavailable"}]
  <2> DEFINE s == UpTo(libServer, k * LibPageLimit)
  <2> DEFINE n == IF k < PageCount(libServer) THEN "partial" ELSE "fine"
  <2>1. NoLoad \in LoadSet
    BY <1>1 DEF LibTypeOK
  <2>2. CASE k = 0
    <3>1. libLoad' = [NoLoad EXCEPT !.notice = "unavailable"]
      BY <1>1, <2>2 DEF mergeLibraryFetch
    <3>2. libLoad' \in LoadSet /\ libLoad'.notice = "unavailable"
      BY <2>1, <3>1
    <3> QED
      BY <3>2
  <2>3. CASE k # 0
    <3>1. libLoad' = [NoLoad EXCEPT !.items = s, !.notice = n]
      BY <1>1, <2>3 DEF mergeLibraryFetch
    <3>2. n \in {"partial", "fine"} /\ (n = "fine" => ~(k < PageCount(libServer)))
      OBVIOUS
    <3> HIDE DEF n, s
    <3>3. libLoad' \in LoadSet /\ libLoad'.notice = n /\ libLoad'.items = s
      BY <1>4, <2>1, <3>1, <3>2 DEF s
    <3> QED
      BY <3>2, <3>3 DEF s
  <2> QED
    BY <2>2, <2>3
<1>6. LibTypeOK'
  BY <1>1, <1>5 DEF LibTypeOK
<1>7. RowsDiffer' /\ RefreshesFit'
  BY <1>1 DEF RowsDiffer, RefreshesFit, RefreshFits, SameBut, Stored, Once, PageCount, UpTo
<1>8. LoadFits'
  <2> SUFFICES ASSUME libLoad'.notice = "fine" PROVE SameBut(libLoad.items, libLoad.moved)'
    BY DEF LoadFits
  <2>1. k >= PageCount(libServer)
    <3>1. PageCount(libServer) \in Nat \ {0}
      BY <1>2, PagesCover
    <3> QED
      BY <1>5, <3>1
  <2>2. k * LibPageLimit >= Len(libServer)
    BY <1>2, <2>1, PagesCover
  <2>3. libLoad'.items = libServer
    BY <1>2, <1>3, <1>5, <2>2, UpToIs
  <2> QED
    BY <1>1, <2>3 DEF SameBut, RowsDiffer, Stored, Once
<1>9. WaysFit' /\ OneIsAsked'
  BY <1>1 DEF WaysFit, OneIsAsked, AskedFor, Stored
<1>10. ListIsServers'
  BY <1>1, ListKept DEF Loaded, AtRest, Refreshing
<1> QED
  BY <1>6, <1>7, <1>8, <1>9, <1>10

(***************************************************************************)
(* The view of a load is mounted: nothing of its own is under way.         *)
(***************************************************************************)
LEMMA MountKeeps ==
  ASSUME LibInv, libLoad # NoLoad, libLoad' = NoLoad, Mount, UNCHANGED <<libServer, libMode>>
  PROVE  LibInv'
<1> USE LibAssumption DEF LibInv
<1>1. /\ libItems' = libLoad.items /\ libNotice' = libLoad.notice /\ libAdding' = NoResult
      /\ libDoubt' = (IF libLoad.notice = "fine" THEN libLoad.moved ELSE LibBooks)
      /\ libRefresh' = [c \in LibBooks |-> NoRefresh] /\ libFound' = [c \in LibBooks |-> c]
      /\ libDouble' = {}
      /\ UNCHANGED <<libRaced, libServer, libMode>>
  BY DEF Mount
<1>2. libWay' = [c \in LibBooks |-> CASE libWay[c] \in {"asked", "looked", "fetching"} -> "givenup"
                                      [] libWay[c] \in {"added", "arrived"} -> "here"
                                      [] libWay[c] = "found" -> "out"
                                      [] OTHER -> libWay[c]]
      /\ libOf' = [c \in LibBooks |-> IF libWay[c] = "found" THEN NoResult ELSE libOf[c]]
  BY DEF Mount
<1>3. libDelete' = [c \in LibBooks |-> IF libDelete[c] = "asked" THEN "left" ELSE
                                       IF libDelete[c] = "gone" THEN "no" ELSE libDelete[c]]
  BY DEF Mount
<1>4. libOwned' \subseteq LibResults
  BY DEF Mount, RowsIn, SearchMarks
<1>5. ASSUME NEW c \in LibBooks
      PROVE  /\ libWay'[c] \in {"out", "givenup", "here"}
             /\ libWay[c] \in {"added", "arrived", "here"} => libWay'[c] = "here"
             /\ libWay'[c] = "out" => libOf'[c] = NoResult
             /\ libOf'[c] \in LibResults \cup {NoResult}
             /\ libDelete'[c] \in {"no", "left"}
  <2>1. /\ libWay[c] \in {"out", "asked", "looked", "found", "added", "fetching", "arrived",
                          "givenup", "here"}
        /\ libDelete[c] \in {"no", "asked", "gone", "left"}
        /\ libOf[c] \in LibResults \cup {NoResult}
        /\ libWay[c] = "out" => libOf[c] = NoResult
    BY DEF LibTypeOK, WaysFit
  <2>2. /\ libWay'[c] = CASE libWay[c] \in {"asked", "looked", "fetching"} -> "givenup"
                          [] libWay[c] \in {"added", "arrived"} -> "here"
                          [] libWay[c] = "found" -> "out"
                          [] OTHER -> libWay[c]
        /\ libOf'[c] = IF libWay[c] = "found" THEN NoResult ELSE libOf[c]
    BY <1>2
  <2> QED
    BY <1>3, <2>1, <2>2
<1>6. LibTypeOK'
  <2>1. <<>> \in Seq(LibBooks) /\ {} \in SUBSET LibBooks
    OBVIOUS
  <2>2. NoRefresh \in [page : Nat, pages : Nat, acc : Seq(LibBooks), moved : SUBSET LibBooks,
                       cut : BOOLEAN]
    BY <2>1 DEF NoRefresh
  <2>3. NoLoad \in [items : Seq(LibBooks), moved : SUBSET LibBooks,
                    notice : {"loading", "fine", "partial", "unavailable"}]
    BY <2>1 DEF NoLoad
  <2>4. /\ libWay' \in [LibBooks -> {"out", "asked", "looked", "found", "added", "fetching",
                                     "arrived", "givenup", "here"}]
        /\ libOf' \in [LibBooks -> LibResults \cup {NoResult}]
        /\ libDelete' \in [LibBooks -> {"no", "asked", "gone", "left"}]
    BY <1>2, <1>3, <1>5
  <2> QED
    BY <1>1, <1>4, <2>2, <2>3, <2>4 DEF LibTypeOK
<1>7. RowsDiffer' /\ RefreshesFit' /\ LoadFits'
  BY <1>1 DEF RowsDiffer, RefreshesFit, RefreshFits, LoadFits, NoRefresh, NoLoad, Stored, Once
<1>8. WaysFit'
  BY <1>1, <1>5 DEF WaysFit, Stored
<1>9. OneIsAsked'
  BY <1>1, <1>5 DEF OneIsAsked, AskedFor, Waiting
<1>10. ListIsServers'
  <2> SUFFICES ASSUME NEW c \in LibBooks \ libDoubt'
               PROVE  ShownRight(c)'
    BY DEF ListIsServers, ShownRight
  <2>1. libLoad.notice = "fine" /\ c \notin libLoad.moved
    BY <1>1
  <2>2. IF Stored(c) THEN Once(libLoad.items, c) ELSE c \notin ToSet(libLoad.items)
    BY <2>1 DEF LoadFits, SameBut
  <2> QED
    BY <1>1, <2>2 DEF ShownRight, Stored, Listed, Once, ToSet
<1> QED
  BY <1>6, <1>7, <1>8, <1>9, <1>10

LEMMA RenderKeeps ==
  ASSUME LibInv, PageRenders \/ DismissNotice \/ HeaderSwitches \/ SearchAgain
  PROVE  LibInv'
<1> USE LibAssumption DEF LibInv
<1>1. CASE PageRenders /\ libKey' # libKey
  BY <1>1, MountKeeps DEF PageRenders
<1>2. CASE ~(PageRenders /\ libKey' # libKey)
  <2>1. /\ UNCHANGED <<libServer, libItems, libWay, libOf, libFound, libAdding,
                       libDelete, libRefresh, libDoubt, libDouble, libRaced>>
        /\ libLoad' = libLoad \/ libLoad' = NoLoad
        /\ libMode' \in {"mine", "sources"} /\ libOwned' \subseteq LibResults
        /\ libNotice' = libNotice \/ (Loaded /\ libNotice' = "dismissed")
    <3>1. libOwned \subseteq LibResults /\ libMode \in {"mine", "sources"}
      BY DEF LibTypeOK
    <3>2. CASE PageRenders \/ DismissNotice
      BY <1>2, <3>1, <3>2 DEF PageRenders, DismissNotice, libAsk, libSeen, libReads, LibPanel, Loaded
    <3>3. CASE HeaderSwitches \/ SearchAgain
      BY <3>1, <3>3
      DEF HeaderSwitches, SearchAgain, setBrowseMode, RowsIn, SearchMarks, libPage, libSeen, libReads
    <3> QED
      BY <3>2, <3>3
  <2>2. LibTypeOK'
    <3>1. <<>> \in Seq(LibBooks) /\ {} \in SUBSET LibBooks
      OBVIOUS
    <3>2. NoLoad \in [items : Seq(LibBooks), moved : SUBSET LibBooks,
                      notice : {"loading", "fine", "partial", "unavailable"}]
      BY <3>1 DEF NoLoad
    <3> QED
      BY <2>1, <3>2 DEF LibTypeOK
  <2>3. RowsDiffer' /\ RefreshesFit'
    BY <2>1 DEF RowsDiffer, RefreshesFit, RefreshFits, SameBut, Stored, Once, PageCount, UpTo
  <2>4. LoadFits'
    BY <2>1 DEF LoadFits, NoLoad, SameBut, Stored, Once
  <2>5. WaysFit' /\ OneIsAsked'
    BY <2>1 DEF WaysFit, OneIsAsked, AskedFor, Stored
  <2>6. ListIsServers'
    BY <2>1, ListKept DEF Loaded, AtRest, Refreshing
  <2> QED
    BY <2>2, <2>3, <2>4, <2>5, <2>6
<1> QED
  BY <1>1, <1>2

-----------------------------------------------------------------------------
LEMMA LibStepInv == LibInv /\ [LibNext]_libVars => LibInv'
<1> SUFFICES ASSUME LibInv, [LibNext]_libVars PROVE LibInv'
  OBVIOUS
<1>1. ASSUME NEW k \in 0..Len(libServer) + 1, FirstLoad(k) \/ handleRetry(k) PROVE LibInv'
  <2>1. k \in Nat /\ Load(k)
    BY <1>1 DEF FirstLoad, handleRetry, LibInv, LibTypeOK
  <2> QED
    BY <2>1, LoadKeeps
<1>2. CASE PageRenders \/ DismissNotice \/ HeaderSwitches \/ SearchAgain
  BY <1>2, RenderKeeps
<1>3. ASSUME NEW r \in LibResults, NEW b \in LibBooks, addResult(r, b) PROVE LibInv'
  BY <1>3, AddingKeeps
<1>4. ASSUME NEW b \in LibBooks, Upload(b) \/ LookUp(b) \/ AddFails(b) \/ JobAnswered(b) PROVE LibInv'
  BY <1>4, AddingKeeps
<1>5. ASSUME NEW b \in LibBooks, BookAnswered(b) \/ FoundAnswered(b) PROVE LibInv'
  BY <1>5, AnswerKeeps
<1>6. ASSUME NEW b \in LibBooks, StoreBook(b) \/ GatewayStores(b) PROVE LibInv'
  BY <1>6, StoringKeeps
<1>7. ASSUME NEW b \in LibBooks, handleFetchTimeout(b) \/ handleFetchDone(b) PROVE LibInv'
  BY <1>7, FetchEndKeeps
<1>8. ASSUME NEW b \in LibBooks, ReadPage(b) PROVE LibInv'
  BY <1>8, ReadPageKeeps
<1>9. ASSUME NEW b \in LibBooks, FirstPageFails(b) \/ LaterPageFails(b) PROVE LibInv'
  BY <1>9, PageFailsKeeps
<1>10. ASSUME NEW b \in LibBooks, ApplyRefresh(b) PROVE LibInv'
  BY <1>10, ApplyKeeps
<1>11. ASSUME NEW b \in LibBooks, AskDelete(b) \/ DeleteFails(b) PROVE LibInv'
  BY <1>11, DeletingKeeps
<1>12. ASSUME NEW b \in LibBooks, DeleteRow(b) PROVE LibInv'
  BY <1>12, DeleteRowKeeps
<1>13. ASSUME NEW b \in LibBooks, DeleteAnswered(b) PROVE LibInv'
  BY <1>13, DeleteAnswerKeeps
<1>14. CASE UNCHANGED libVars
  <2>1. UNCHANGED <<libServer, libItems, libNotice, libMode, libWay, libOf, libAdding, libOwned,
                    libDelete, libRefresh, libLoad, libDoubt, libFound, libDouble, libRaced>>
    BY <1>14 DEF libVars, libPage, libAsk, libSeen, libReads
  <2>2. RowsDiffer' /\ RefreshesFit' /\ LoadFits'
    BY <2>1, ReadsKept DEF LibInv, libReads
  <2>3. LibTypeOK'
    BY <2>1 DEF LibTypeOK, LibInv
  <2>4. WaysFit' /\ OneIsAsked'
    BY <2>1 DEF WaysFit, OneIsAsked, AskedFor, Stored, LibInv
  <2>5. ListIsServers'
    BY <2>1, ListKept DEF Loaded, AtRest, Refreshing, LibInv
  <2> QED
    BY <2>2, <2>3, <2>4, <2>5 DEF LibInv
<1> QED
  BY <1>1, <1>2, <1>3, <1>4, <1>5, <1>6, <1>7, <1>8, <1>9, <1>10, <1>11, <1>12, <1>13, <1>14
  DEF LibNext

\* The list of the library page keeps its invariant.
THEOREM LibInvariance == LibSpec => []LibInv
<1>1. LibInit => LibInv
  BY LibInitInv
<1>2. LibInv /\ [LibNext]_libVars => LibInv'
  BY LibStepInv
<1> QED
  BY <1>1, <1>2, PTL DEF LibSpec

\* Whatever is added, fetched, deleted and refreshed, in whatever order it is
\* answered, the page lists what the server has once nothing is under way.
THEOREM ListsAreServers == LibSpec => []LibraryIsServers
<1>1. LibInv => LibraryIsServers
  BY DEF LibInv, LibraryIsServers, OneIsAsked, AskedFor, Waitings, Comings, DoubleAddNeedsOverlap
<1> QED
  BY <1>1, LibInvariance, PTL

-----------------------------------------------------------------------------
(***************************************************************************)
(* The collection.  The pages of any list that is cut by paginate follow   *)
(* each other from its first entry to its last; so PagesAreWhole holds of  *)
(* whatever list is displayed and whatever page the address names.         *)
(***************************************************************************)
LEMMA ColLeastIs ==
  ASSUME NEW S \in SUBSET Nat, S # {}
  PROVE  ColLeast(S) \in S /\ \A k \in S : ColLeast(S) <= k
<1>1. \E n \in S : \A k \in S : n <= k
  BY LeastNat
<1> QED
  BY <1>1 DEF ColLeast

LEMMA ColLeastOfTwo ==
  ASSUME NEW a \in Nat, NEW b \in Nat
  PROVE  ColLeast({a, b}) = IF a <= b THEN a ELSE b
<1>1. ColLeast({a, b}) \in {a, b} /\ \A k \in {a, b} : ColLeast({a, b}) <= k
  <2>1. {a, b} \in SUBSET Nat /\ {a, b} # {}
    OBVIOUS
  <2> QED
    BY <2>1, ColLeastIs
<1> QED
  BY <1>1

LEMMA ColPagesCover ==
  ASSUME NEW n \in Nat
  PROVE  /\ ColPageCount(n) \in Nat \ {0} /\ n <= ColPageCount(n) * ColPageSize
         /\ \A k \in Nat \ {0} : k < ColPageCount(n) => k * ColPageSize < n
<1> DEFINE S == {k \in 1..(n + 1) : n <= k * ColPageSize}
<1>1. ColPageSize \in Nat \ {0}
  BY CollectionAssumption
<1>2. n + 1 \in S
  <2>1. n <= (n + 1) * ColPageSize
    <3>1. (n + 1) * ColPageSize = (n + 1) * (ColPageSize - 1) + (n + 1)
      BY <1>1
    <3>2. (n + 1) * (ColPageSize - 1) \in Nat
      <4>1. ColPageSize - 1 \in Nat /\ n + 1 \in Nat
        BY <1>1
      <4> QED
        BY <4>1
    <3> QED
      BY <3>1, <3>2
  <2>2. n + 1 \in 1..(n + 1)
    OBVIOUS
  <2> QED
    BY <2>1, <2>2
<1>3. S \in SUBSET Nat /\ S # {}
  BY <1>2
<1>4. ColPageCount(n) = ColLeast(S)
  BY DEF ColPageCount
<1> HIDE DEF S
<1>5. ColPageCount(n) \in S /\ \A k \in S : ColPageCount(n) <= k
  BY <1>3, <1>4, ColLeastIs
<1>6. ASSUME NEW k \in Nat \ {0}, k < ColPageCount(n) PROVE k * ColPageSize < n
  <2>1. k \notin S
    <3>1. ColPageCount(n) \in Nat
      BY <1>3, <1>5
    <3> SUFFICES ASSUME k \in S PROVE FALSE
      OBVIOUS
    <3>2. ColPageCount(n) <= k
      BY <1>5
    <3> HIDE DEF S
    <3> QED
      BY <1>6, <3>1, <3>2
  <2>2. k \in 1..(n + 1)
    BY <1>5, <1>6 DEF S
  <2>3. ~(n <= k * ColPageSize)
    BY <2>1, <2>2 DEF S
  <2>4. k * ColPageSize \in Nat
    BY <1>1
  <2> QED
    BY <2>3, <2>4
<1> QED
  BY <1>5, <1>6 DEF S

\* The page that is cut: the one asked for, or the last.
SafePage(n, page) == IF page <= ColPageCount(n) THEN page ELSE ColPageCount(n)

LEMMA SliceIs ==
  ASSUME NEW T, NEW s \in Seq(T), NEW page \in Nat \ {0}
  PROVE  LET p == SafePage(Len(s), page)
             first == (p - 1) * ColPageSize
             slice == paginate(s, page)
         IN /\ p \in 1..ColPageCount(Len(s))
            /\ first \in Nat /\ first <= Len(s) /\ (first = Len(s) => Len(s) = 0)
            /\ slice.page = p /\ slice.first = first + 1
            /\ slice.books \in Seq(T)
            /\ Len(slice.books) = IF p = ColPageCount(Len(s)) THEN Len(s) - first ELSE ColPageSize
            /\ \A i \in 1..Len(slice.books) : slice.books[i] = s[slice.first + i - 1]
            /\ paginate(s, p) = slice
<1> DEFINE n == Len(s)
<1> DEFINE c == ColPageCount(n)
<1> DEFINE p == SafePage(n, page)
<1> DEFINE first == (p - 1) * ColPageSize
<1> DEFINE last == IF first + ColPageSize <= n THEN first + ColPageSize ELSE n
<1> DEFINE slice == paginate(s, page)
<1>1. ColPageSize \in Nat \ {0} /\ n \in Nat
  BY CollectionAssumption
<1>2. c \in Nat \ {0} /\ n <= c * ColPageSize /\ \A k \in Nat \ {0} : k < c => k * ColPageSize < n
  BY <1>1, ColPagesCover
<1>3. p \in 1..c /\ p - 1 \in Nat /\ p = IF page <= c THEN page ELSE c
  BY <1>2 DEF SafePage
<1> HIDE DEF n, c, p
<1>4. first \in Nat /\ first + ColPageSize = p * ColPageSize
  BY <1>1, <1>3
<1>5. first <= n /\ (first = n => n = 0)
  <2>1. CASE p = 1
    BY <1>1, <2>1
  <2>2. CASE p # 1
    <3>1. p - 1 \in Nat \ {0} /\ p - 1 < c
      BY <1>2, <1>3, <2>2
    <3>2. (p - 1) * ColPageSize < n
      BY <1>2, <3>1
    <3> QED
      BY <1>1, <1>4, <3>2
  <2> QED
    BY <2>1, <2>2
<1>6. last = IF p = c THEN n ELSE first + ColPageSize
  <2>1. CASE p = c
    BY <1>1, <1>2, <1>4, <2>1
  <2>2. CASE p # c
    <3>1. p \in Nat \ {0} /\ p < c
      BY <1>2, <1>3, <2>2
    <3>2. p * ColPageSize < n
      BY <1>2, <3>1
    <3> QED
      BY <1>1, <1>4, <2>2, <3>2
  <2> QED
    BY <2>1, <2>2
<1>7. last \in Nat /\ first <= last /\ last <= n
  BY <1>1, <1>4, <1>5
<1>8. ColLeast({page, c}) = p /\ ColLeast({p, c}) = p
  BY <1>2, <1>3, ColLeastOfTwo
<1>9. ColLeast({first + ColPageSize, n}) = last
  BY <1>1, <1>4, ColLeastOfTwo
<1>10. slice = [page |-> p, first |-> first + 1, books |-> SubSeq(s, first + 1, last)]
  BY <1>8, <1>9 DEF paginate, n, c
<1>11. paginate(s, p) = slice
  BY <1>8, <1>9, <1>10 DEF paginate, n, c
<1> HIDE DEF first, last, slice
<1>12. /\ SubSeq(s, first + 1, last) \in Seq(T)
       /\ Len(SubSeq(s, first + 1, last)) = IF first + 1 <= last THEN last - (first + 1) + 1 ELSE 0
       /\ \A i \in 1..(last - (first + 1) + 1) : SubSeq(s, first + 1, last)[i] = s[first + 1 + i - 1]
  <2>1. \A i \in first + 1..last : s[i] \in T
    BY <1>4, <1>7 DEF n
  <2>2. first + 1 \in Int /\ last \in Int
    BY <1>4, <1>7
  <2> QED
    BY <2>1, <2>2, SubSeqProperties
<1>13. Len(SubSeq(s, first + 1, last)) = last - first /\ last - (first + 1) + 1 = last - first
  BY <1>4, <1>7, <1>12
<1>14. last - first = IF p = c THEN n - first ELSE ColPageSize
  BY <1>1, <1>4, <1>6
<1> QED
  BY <1>3, <1>4, <1>5, <1>10, <1>11, <1>12, <1>13, <1>14 DEF n, c, p, first, slice

-----------------------------------------------------------------------------
\* The books displayed are those that match, once each.
LEMMA DisplayedIs ==
  ASSUME ColTypeOK
  PROVE  /\ Displayed \in Seq(ColBooks) /\ IsInjective(Displayed)
         /\ ToSet(Displayed) = {b \in colItems : matchesLibraryTextQuery(b, colAddress)
                                                   /\ MatchesSource(b, colAddress)}
<1> DEFINE wanted == {b \in colItems : matchesLibraryTextQuery(b, colAddress)
                                         /\ MatchesSource(b, colAddress)}
<1> DEFINE order == IF colAddress.sort = "title" THEN ByTitle ELSE NewestFirst
<1>1. order \in Seq(ColBooks) /\ IsInjective(order) /\ ToSet(order) = ColBooks
  BY CollectionAssumption DEF ColBooks
<1>2. wanted \subseteq ColBooks
  BY DEF ColTypeOK
<1>3. Displayed = Left(order, wanted)
  <2>1. Displayed = BooksInOrder(order, wanted)
    BY DEF Displayed, filterAndSort
  <2> HIDE DEF order, wanted
  <2> QED
    BY <2>1 DEF BooksInOrder, Left
<1> HIDE DEF order, wanted
<1>4. /\ Left(order, wanted) \in Seq(ColBooks)
      /\ ToSet(Left(order, wanted)) = ToSet(order) \cap wanted
      /\ \A b \in wanted : Once(Left(order, wanted), b) <=> Once(order, b)
  BY <1>1, LeftIs
<1>5. ToSet(Displayed) = wanted
  BY <1>1, <1>2, <1>3, <1>4
<1>6. ASSUME NEW i \in DOMAIN Displayed, NEW j \in DOMAIN Displayed, Displayed[i] = Displayed[j]
      PROVE  i = j
  <2>1. Displayed[i] \in wanted
    BY <1>5 DEF ToSet
  <2>2. Displayed[i] \in ToSet(order)
    BY <1>1, <1>2, <2>1
  <2>3. Once(order, Displayed[i])
    BY <1>1, <2>2 DEF ToSet, IsInjective, Once
  <2>4. Once(Displayed, Displayed[i])
    BY <1>3, <1>4, <2>1, <2>3
  <2> QED
    BY <1>6, <2>4 DEF Once
<1>7. IsInjective(Displayed)
  BY <1>6 DEF IsInjective
<1> QED
  BY <1>3, <1>4, <1>5, <1>7 DEF wanted

LEMMA PagesFollow == ColTypeOK => PagesAreWhole
<1> SUFFICES ASSUME ColTypeOK PROVE PagesAreWhole
  OBVIOUS
<1> DEFINE s == Displayed
<1> DEFINE n == Len(s)
<1> DEFINE c == ColPageCount(n)
<1> DEFINE P == ColPageSize
<1> DEFINE At(p) == paginate(s, p)
<1>1. s \in Seq(ColBooks) /\ n \in Nat /\ P \in Nat \ {0}
  BY DisplayedIs, CollectionAssumption
<1>2. c \in Nat \ {0} /\ n <= c * P /\ \A k \in Nat \ {0} : k < c => k * P < n
  BY <1>1, ColPagesCover
<1>3. ASSUME NEW p \in 1..c
      PROVE  /\ (p - 1) * P \in Nat /\ (p - 1) * P <= n /\ ((p - 1) * P = n => n = 0)
             /\ At(p).page = p /\ At(p).first = (p - 1) * P + 1
             /\ At(p).books \in Seq(ColBooks)
             /\ Len(At(p).books) = IF p = c THEN n - (p - 1) * P ELSE P
             /\ \A i \in 1..Len(At(p).books) : At(p).books[i] = s[At(p).first + i - 1]
  <2>1. p \in Nat \ {0} /\ SafePage(n, p) = p
    BY <1>2 DEF SafePage
  <2> HIDE DEF s
  <2> QED
    BY <1>1, <2>1, SliceIs
<1>4. ASSUME NEW page \in Nat \ {0}
      PROVE  /\ At(page).page \in 1..c /\ At(page) = At(At(page).page)
  <2> HIDE DEF s
  <2> QED
    BY <1>1, SliceIs
<1> HIDE DEF s, n, c, P, At
<1>5. ASSUME NEW p \in 1..c PROVE At(p).first + Len(At(p).books) = IF p = c THEN n + 1 ELSE p * P + 1
  <2>1. p * P = (p - 1) * P + P /\ p * P \in Nat
    BY <1>1, <1>2
  <2>2. At(p).first = (p - 1) * P + 1 /\ (p - 1) * P \in Nat
    BY <1>3
  <2>3. Len(At(p).books) = IF p = c THEN n - (p - 1) * P ELSE P
    BY <1>3
  <2>4. CASE p = c
    BY <1>1, <2>2, <2>3, <2>4
  <2>5. CASE p # c
    BY <1>1, <2>1, <2>2, <2>3, <2>5
  <2> QED
    BY <2>4, <2>5
<1>6. 1 \in 1..c /\ c \in 1..c
  BY <1>2
<1>7. At(1).first = 1
  <2>1. (1 - 1) * P = 0
    BY <1>1
  <2> QED
    BY <1>3, <1>6, <2>1
<1>8. At(c).first + Len(At(c).books) = n + 1
  BY <1>5, <1>6
<1>9. ASSUME NEW p \in 1..c, p < c PROVE At(p + 1).first = At(p).first + Len(At(p).books)
  <2>1. p + 1 \in 1..c /\ (p + 1) - 1 = p /\ p # c
    BY <1>2, <1>9
  <2>2. At(p + 1).first = p * P + 1
    BY <1>3, <2>1
  <2> QED
    BY <1>5, <2>1, <2>2
<1>10. ASSUME NEW p \in 1..c PROVE (At(p).books = <<>>) = (s = <<>>)
  <2>1. At(p).books \in Seq(ColBooks) /\ Len(At(p).books) = IF p = c THEN n - (p - 1) * P ELSE P
    BY <1>3
  <2>2. (p - 1) * P \in Nat /\ (p - 1) * P <= n /\ ((p - 1) * P = n => n = 0)
    BY <1>3
  <2>3. n = 0 => c = 1
    <3>1. CASE n = 0 /\ c # 1
      <4>1. c - 1 \in Nat \ {0} /\ c - 1 < c
        BY <1>2, <3>1
      <4>2. (c - 1) * P < n /\ (c - 1) * P \in Nat
        BY <1>1, <1>2, <4>1
      <4> QED
        BY <3>1, <4>2
    <3> QED
      BY <3>1
  <2>4. n = 0 => Len(At(p).books) = 0
    <3> HAVE n = 0
    <3>1. p = c /\ p = 1 /\ (p - 1) * P = 0
      BY <1>1, <2>3
    <3> QED
      BY <2>1, <3>1
  <2>5. Len(At(p).books) = 0 => n = 0
    BY <1>1, <2>1, <2>2
  <2>6. (s = <<>>) <=> n = 0
    BY <1>1 DEF n
  <2>7. (At(p).books = <<>>) <=> Len(At(p).books) = 0
    BY <2>1
  <2> QED
    BY <2>4, <2>5, <2>6, <2>7
<1> DEFINE page == colAddress.page
<1> DEFINE at == At(page).page
<1>11. page \in Nat \ {0}
  BY DEF ColTypeOK
<1>12. at \in 1..c /\ At(page) = At(at) /\ at \in Nat
  BY <1>2, <1>4, <1>11
<1>13. ColLeast({c, at + 1}) = IF c <= at + 1 THEN c ELSE at + 1
  BY <1>2, <1>12, ColLeastOfTwo
<1> DEFINE nextPage == Turned(Displayed, colAddress.page, "next")
<1> DEFINE prevPage == Turned(Displayed, colAddress.page, "previous")
<1>14. CanTurn(Displayed, colAddress.page, "next")
         => At(nextPage).first = At(page).first + Len(At(page).books)
  <2> HAVE CanTurn(Displayed, colAddress.page, "next")
  <2>1. at < c
    BY DEF CanTurn, At, s, n, c
  <2>2. nextPage = ColLeast({c, at + 1})
    BY DEF Turned, At, s, n, c
  <2>3. nextPage = at + 1
    BY <1>2, <1>12, <1>13, <2>1, <2>2
  <2> QED
    BY <1>9, <1>12, <2>1, <2>3
<1>15. CanTurn(Displayed, colAddress.page, "previous")
         => At(prevPage).first + Len(At(prevPage).books) = At(page).first
  <2> HAVE CanTurn(Displayed, colAddress.page, "previous")
  <2>1. at > 1
    BY DEF CanTurn, At, s
  <2>2. prevPage = at - 1
    BY <2>1 DEF Turned, At, s
  <2>3. at - 1 \in 1..c /\ at - 1 < c /\ (at - 1) + 1 = at
    BY <1>2, <1>12, <2>1
  <2> QED
    BY <1>9, <1>12, <2>2, <2>3
<1>16. PageSlice = At(page)
  BY DEF PageSlice, At, s
<1>17. /\ IsInjective(Displayed)
       /\ ToSet(Displayed) = {b \in colItems : matchesLibraryTextQuery(b, colAddress)
                                                 /\ MatchesSource(b, colAddress)}
  BY DisplayedIs
<1>18. \A p \in 1..c : \A i \in 1..Len(At(p).books) : At(p).books[i] = s[At(p).first + i - 1]
  BY <1>3
<1>19. (PageSlice.books = <<>>) = (Displayed = <<>>)
  BY <1>10, <1>12, <1>16 DEF s
<1> HIDE DEF page, at, nextPage, prevPage
<1> QED
  BY <1>7, <1>8, <1>9, <1>14, <1>15, <1>16, <1>17, <1>18, <1>19
  DEF PagesAreWhole, At, s, n, c, nextPage, prevPage

-----------------------------------------------------------------------------
LEMMA ColInitInv == ColInit => ColTypeOK
<1> SUFFICES ASSUME ColInit PROVE ColTypeOK
  OBVIOUS
<1>1. PICK p \in 1..MaxColPage : colAddress = [NoCriteria EXCEPT !.page = p]
  BY DEF ColInit
<1>2. NoCriteria \in [text : BOOLEAN, source : {"all", "linked", "manual"},
                     sort : {"added", "title"}, page : Nat \ {0}]
  BY DEF NoCriteria
<1>3. colAddress \in [text : BOOLEAN, source : {"all", "linked", "manual"},
                     sort : {"added", "title"}, page : Nat \ {0}]
  BY <1>1, <1>2
<1> QED
  BY <1>3 DEF ColInit, ColTypeOK

LEMMA ColStepInv == ColTypeOK /\ [ColNext]_colVars => ColTypeOK'
<1> SUFFICES ASSUME ColTypeOK, [ColNext]_colVars PROVE ColTypeOK'
  OBVIOUS
<1> USE CollectionAssumption
<1>1. CASE ChangeCriteria \/ ResetCriteria \/ FollowAddress
  <2>1. colAddress' \in [text : BOOLEAN, source : {"all", "linked", "manual"},
                         sort : {"added", "title"}, page : Nat \ {0}]
    <3>1. CASE ChangeCriteria
      BY <3>1 DEF ChangeCriteria, ColCriteria
    <3>2. CASE ResetCriteria
      BY <3>2 DEF ResetCriteria, NoCriteria
    <3>3. CASE FollowAddress
      BY <3>3 DEF FollowAddress, ColTypeOK
    <3> QED
      BY <1>1, <3>1, <3>2, <3>3
  <2> QED
    BY <1>1, <2>1 DEF ChangeCriteria, ResetCriteria, FollowAddress, ColTypeOK
<1>2. ASSUME NEW way \in {"previous", "next"}, ColTurnPage(way) PROVE ColTypeOK'
  <2> DEFINE s == Displayed
  <2>1. s \in Seq(ColBooks) /\ Len(s) \in Nat /\ colAddress.page \in Nat \ {0}
    BY DisplayedIs DEF ColTypeOK
  <2> DEFINE c == ColPageCount(Len(s))
  <2> DEFINE at == paginate(s, colAddress.page).page
  <2> HIDE DEF s
  <2>2. c \in Nat \ {0} /\ at \in 1..c
    <3>1. c \in Nat \ {0}
      BY <2>1, ColPagesCover
    <3>2. SafePage(Len(s), colAddress.page) \in 1..c /\ at = SafePage(Len(s), colAddress.page)
      BY <2>1, SliceIs
    <3> QED
      BY <3>1, <3>2
  <2> DEFINE to == Turned(s, colAddress.page, way)
  <2>3. to = IF way = "previous" THEN (IF at = 1 THEN 1 ELSE at - 1) ELSE ColLeast({c, at + 1})
    BY DEF Turned
  <2> HIDE DEF c, at
  <2>4. ColLeast({c, at + 1}) \in Nat \ {0}
    BY <2>2, ColLeastOfTwo
  <2>5. to \in Nat \ {0}
    BY <2>2, <2>3, <2>4
  <2>6. /\ colAddress' = [colAddress EXCEPT !.page = to]
        /\ UNCHANGED <<colItems, colViewMode, colSelected, colTicked, colDialog>>
    BY <1>2 DEF ColTurnPage, s
  <2> HIDE DEF to
  <2> QED
    BY <2>5, <2>6 DEF ColTypeOK
<1>3. CASE SetViewMode \/ CloseColDialog
  BY <1>3 DEF SetViewMode, CloseColDialog, ColTypeOK
<1>4. OnPage \subseteq ColBooks
  <2>1. Displayed \in Seq(ColBooks) /\ colAddress.page \in Nat \ {0}
    BY DisplayedIs DEF ColTypeOK
  <2>2. PageSlice.books \in Seq(ColBooks)
    BY <2>1, SliceIs DEF PageSlice
  <2> QED
    BY <2>2 DEF OnPage, ToSet
<1>5. ASSUME NEW b \in ColBooks, selectBook(b) \/ TickBook(b) PROVE ColTypeOK'
  BY <1>5 DEF selectBook, TickBook, ColTypeOK
<1>6. ASSUME NEW b \in ColBooks, OpenRowDialog(b) PROVE ColTypeOK'
  BY <1>6 DEF OpenRowDialog, ColTypeOK
<1>7. CASE TickPage
  BY <1>4, <1>7 DEF TickPage, ColTypeOK
<1>8. CASE HeaderSend
  BY <1>8 DEF HeaderSend, headerSendEnabled, ColTypeOK
<1>9. CASE ListReplaced
  BY <1>9 DEF ListReplaced, ColTypeOK
<1>10. CASE DeletedFromRow \/ BulkDeleted
  BY <1>10 DEF DeletedFromRow, BulkDeleted, ColTypeOK
<1>11. CASE UNCHANGED colVars
  BY <1>11 DEF colVars, ColTypeOK
<1> QED
  BY <1>1, <1>2, <1>3, <1>5, <1>6, <1>7, <1>8, <1>9, <1>10, <1>11 DEF ColNext

\* Whatever the list, the criteria and the page of the address, the pages of
\* the collection show each book that matches once, from first to last.
THEOREM CollectionsAreWhole == ColSpec => [](ColTypeOK /\ PagesAreWhole)
<1>1. ColInit => ColTypeOK
  BY ColInitInv
<1>2. ColTypeOK /\ [ColNext]_colVars => ColTypeOK'
  BY ColStepInv
<1>3. ColTypeOK => PagesAreWhole
  BY PagesFollow
<1> QED
  BY <1>1, <1>2, <1>3, PTL DEF ColSpec

-----------------------------------------------------------------------------
(***************************************************************************)
(* The page as a whole: a step of it is a step of one part, and leaves the *)
(* others alone.                                                           *)
(***************************************************************************)
LEMMA PartSteps ==
  ASSUME [Next]_vars
  PROVE  /\ [LibNext]_libVars /\ [SendNext]_sendVars /\ [SearchNext]_srchVars
         /\ [CoverNext]_coverVars /\ [ColNext]_colVars /\ [PaletteNext]_palVars
         /\ [ShellNext]_shVars
  BY DEF Next, vars

LEMMA PartsAreAll ==
  Spec => /\ LibSpec /\ SendSpec /\ SearchSpec /\ CoverSpec /\ ColSpec /\ PaletteSpec /\ ShellSpec
<1>1. Init => /\ LibInit /\ SendInit /\ SearchInit /\ CoverInit /\ ColInit /\ PaletteInit /\ ShellInit
  BY DEF Init
<1> QED
  BY <1>1, PartSteps, PTL
  DEF Spec, LibSpec, SendSpec, SearchSpec, CoverSpec, ColSpec, PaletteSpec, ShellSpec

\* The page lists what the server has, as LibraryIsServers says
\* (library-view.tsx), whatever else the page shows.
THEOREM LibraryIsAlwaysServers == Spec => []LibraryIsServers
BY PartsAreAll, ListsAreServers, PTL

\* The results, the cover, the pages of the collection, the palette and the
\* navigation are those of what is asked for now, as ShownIsAskedFor says of
\* each, however late what was asked before is answered (library-search.tsx,
\* cover-image.tsx, library-collection.ts, command-palette.tsx, sidebar.tsx).
THEOREM ShownIsAlwaysAskedFor == Spec => []ShownIsAskedFor
<1>1. SendInv => SendTypeOK
  BY DEF SendInv
<1>2. ASSUME SendTypeOK, SearchTypeOK /\ SearchIsCurrent, CoverTypeOK /\ CoverIsOfItsBook,
             ColTypeOK /\ PagesAreWhole, PaletteTypeOK /\ PaletteIsCurrent,
             ShellTypeOK /\ NavigationIsThere
      PROVE  ShownIsAskedFor
  <2>1. SearchTypeOK /\ SearchIsCurrent /\ CoverTypeOK /\ CoverIsOfItsBook
    BY <1>2
  <2>2. ColTypeOK /\ PagesAreWhole /\ PaletteTypeOK /\ PaletteIsCurrent
    BY <1>2
  <2>3. SendTypeOK /\ ShellTypeOK /\ NavigationIsThere
    BY <1>2
  <2> QED
    BY <2>1, <2>2, <2>3, Zenon DEF ShownIsAskedFor
<1> QED
  BY <1>1, <1>2, PartsAreAll, SendInvariance, SearchesAreCurrent, CoversAreOfTheirBooks,
     CollectionsAreWhole, PalettesAreCurrent, NavigationStays, PTL
=============================================================================
