---------------------------- MODULE SyncRegister ----------------------------
(***************************************************************************)
(* A CSyncRegister on its own, fed with any bytes.  received is a history  *)
(* variable: the last Width bits in the order they came, received[1] the   *)
(* oldest (the constructor's zeros stand for bits before the first).       *)
(***************************************************************************)
EXTENDS SyncWords

VARIABLES data, received

regvars == <<data, received>>

RegisterInit ==
  /\ data = Zero
  /\ received = [p \in 1 .. Width |-> 0]

Push(in) ==
  /\ data' = Pushed(data, in)
  /\ received' = [p \in 1 .. Width |-> IF p = Width THEN in % 2
                                   ELSE received[p + 1]]

RegisterNext == \E in \in Byte : Push(in)

RegisterSpec == RegisterInit /\ [][RegisterNext]_regvars

RegisterOK ==
  /\ data \in Words
  /\ received \in [1 .. Width -> Bit]

(***************************************************************************)
(* The three words are one shift register: bit b of data[j] is the bit     *)
(* that came j * WordBits + b bits before the newest one, across the       *)
(* carries of Push.                                                        *)
(***************************************************************************)
WordsAreLastBits ==
  \A b \in 0 .. WordBits - 1 :
    /\ data[0][b] = received[Width - b]
    /\ data[1][b] = received[Width - (WordBits + b)]
    /\ data[2][b] = received[Width - (2 * WordBits + b)]

(***************************************************************************)
(* GetDataFrame delivers the bits in the order they came, the first bit of *)
(* each octet in its most significant place, as the vocoder and the slow   *)
(* data expect them.                                                       *)
(***************************************************************************)
FrameInArrivalOrder ==
  \A i \in 0 .. 3 * WordOctets - 1, b \in 0 .. OctetBits - 1 :
    GetDataFrame(data)[i][OctetBits - 1 - b] = received[i * OctetBits + b + 1]

=============================================================================
