--------------------------- MODULE VocoderDevices ---------------------------
(***************************************************************************)
(* The file descriptors that CDV3000U (lib/DV3000U.cc) opens and closes    *)
(* for the two blocks, in a process in which others open and close files.  *)
(* The number fd outlives the descriptor: OpenDevice closes it where       *)
(* something fails, and the destructors close it again: that of            *)
(* dstar_encode_sb once, that of dstar_decode_bs twice, because the        *)
(* destructor of its CDStarDecode closes it, too.                          *)
(***************************************************************************)
EXTENDS Integers, FiniteSets

CONSTANT Descriptors    \* so many descriptors there are, from 0 on

ASSUME DevicesAssumption == Descriptors \in Nat \ {0}

Block == {"encoder", "decoder"}

VARIABLES
  owner,        \* who has opened each descriptor: a block, "other", or "free"
  fd,           \* of each block; None before it opened one, or when open failed
  closed,       \* blocks that have closed the descriptor of this number
  stale         \* one of these has closed that number again

fvars == <<owner, fd, closed, stale>>

None == -1
\* a plausible slip: fd is only set where open succeeds, and cleared before
NumberCleared == 0
\* what open returns when it fails, and fd is set to; to close it does nothing
NumberFailed == -1
Open == {d \in DOMAIN owner : owner[d] # "free"}
Free == DOMAIN owner \ Open
Lowest == CHOOSE d \in Free : \A e \in Free : d <= e

DevicesInit ==
  /\ owner = [d \in 0 .. Descriptors - 1 |-> "free"]
  /\ fd = [b \in Block |-> None]
  /\ closed = {}
  /\ stale = FALSE

OpenSucceeds(b) ==
  /\ Free # {}
  /\ fd' = [fd EXCEPT ![b] = Lowest]
  /\ owner' = [owner EXCEPT ![Lowest] = b]
  /\ UNCHANGED <<closed, stale>>

\* a plausible slip: one of the error paths leaves the descriptor open
FailedLeavesOpen(b) == [owner EXCEPT ![Lowest] = b]
\* tcgetattr, the baud rate, tcsetattr or initDV3K fails: what was opened is closed
FailedCloses(b) == owner

OpenFails(b) ==
  /\ \/ fd' = [fd EXCEPT ![b] = NumberFailed] /\ UNCHANGED <<owner, closed>>
     \/ /\ Free # {}
        /\ fd' = [fd EXCEPT ![b] = Lowest]
        /\ owner' = FailedCloses(b)
        /\ closed' = closed \cup {b}
  /\ UNCHANGED stale

\* close(fd), whoever has that descriptor now
CloseDevice(b) ==
  /\ owner' = [d \in DOMAIN owner |-> IF d = fd[b] THEN "free" ELSE owner[d]]
  /\ stale' = (stale \/ b \in closed)
  /\ closed' = closed \cup {b}
  /\ UNCHANGED fd

OtherOpens ==
  /\ Free # {}
  /\ owner' = [owner EXCEPT ![Lowest] = "other"]
  /\ UNCHANGED <<fd, closed, stale>>

OtherCloses ==
  /\ \E d \in Open : owner[d] = "other" /\ owner' = [owner EXCEPT ![d] = "free"]
  /\ UNCHANGED <<fd, closed, stale>>

Has(b) == fd[b] \in DOMAIN owner /\ owner[fd[b]] = b
=============================================================================
