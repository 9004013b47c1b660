----------------------------- MODULE FlashSession -----------------------------
(***************************************************************************)
(* The command line client neorv_sh.py, a user, the bootloader and the     *)
(* flash.  The client is one request after another, each followed by a     *)
(* read of its replies that ends after a second, come what may.            *)
(* Power may fail at any time, for the board and its serial adapter: the   *)
(* client ends, and the user starts again.                                 *)
(***************************************************************************)
EXTENDS XipBootloader

CONSTANTS
  ImageAddrs, ImageLengths,   \* what the user may write
  EraseAddrs,    \* what the user may erase
  ReadLengths,   \* how much the user may read back
  StepBytes,     \* bytes per FLASH_WRITE: 256
  StartMode,     \* "main", or "auto" after a reset
  Careful,       \* the user works only with a client that has not been the
                 \* first to poke the bootloader after its reset
  SecondBytes,   \* bytes that the line brings in a second: 11520
  EraseInTime,   \* an erase ends within a second, not within two
  MaxFailures    \* bound: power failures

(* Lengths that the client allows at any of the addresses; every byte of   *)
(* an image differs from Erased and Junk.                                  *)
ASSUME ImageAssumption ==
  /\ \A a \in ImageAddrs, n \in ImageLengths : a \in Nat /\ n \in Nat \ {0}
                                               /\ a + n <= FlashBytes /\ n < Junk

(* A page of the client fits the buffer of the bootloader.                 *)
ASSUME StepAssumption == StepBytes \in 1 .. PageBytes

ASSUME EraseAssumption == EraseAddrs \subseteq Nat
ASSUME ReadAssumption == ReadLengths \subseteq 1 .. FlashBytes
ASSUME SecondAssumption == SecondBytes \in Nat \ {0} /\ EraseInTime \in BOOLEAN

ASSUME StartAssumption == StartMode \in {"auto", "main"}
ASSUME BoundAssumption == MaxFailures \in Nat

VARIABLES
  client,        \* "off", or what it is used for
  poked,         \* the last poke was answered, and the board has stayed on
  trusted,       \* that was so when a client was left
  image,         \* what is or was last written
  requests,      \* still to be sent
  awaited,       \* replies to read, of the request sent last
  received,      \* what the last FLASH_READ has returned
  to_board,      \* bytes on their way
  failures,
  before, acked  \* history: the flash at the call of flash_write, and the
                 \* bytes of the image whose page was answered

user_vars == <<client, poked, trusted, image, before>>
client_vars == <<requests, awaited, received, to_board, acked>>
vars == <<flash_vars, boot_vars, user_vars, client_vars, failures>>

Images == [addr : ImageAddrs, data_len : ImageLengths]
NoImage == [addr |-> 0, data_len |-> 0]
ImageByte(i) == i + 1
InImage(a) == a \in image.addr .. image.addr + image.data_len - 1

(* No reply that the bootloader gives takes longer than a second.          *)
InTime == EraseInTime /\ \A n \in ReadLengths : n <= SecondBytes

-----------------------------------------------------------------------------
(* Requests.  The bootloader has no command 8.                             *)

DEMO == 8

Simple(command) == <<[bytes |-> <<command>>, replies |-> 1]>>
PokeRequest == Simple(POKE)
ReadRequest(at, n) == <<[bytes |-> <<FLASH_READ, at, n>>, replies |-> n]>>

(* Faulty variant of EraseRequests: the last sector is left out.           *)
EraseRequestsShort(img) ==
  LET start_sector == SectorOf(img.addr)
      stop_sector == SectorOf(img.addr + img.data_len)
  IN [k \in 1 .. stop_sector - start_sector |->
        [bytes |-> <<ERASE_SECTOR, (start_sector + k - 1) * SectorBytes>>, replies |-> 1]]

(* erase_sector for every sector that the image reaches, and for the next  *)
(* one when it ends with a sector.                                         *)
EraseRequests(img) ==
  LET start_sector == SectorOf(img.addr)
      stop_sector == SectorOf(img.addr + img.data_len)
  IN [k \in 1 .. stop_sector - start_sector + 1 |->
        [bytes |-> <<ERASE_SECTOR, (start_sector + k - 1) * SectorBytes>>, replies |-> 1]]

(* flash_write_page for every whole step, and for the rest, which may be   *)
(* empty.                                                                  *)
PageRequests(img) ==
  [k \in 1 .. img.data_len \div StepBytes + 1 |->
     LET start == (k - 1) * StepBytes
         n == IF start + StepBytes <= img.data_len THEN StepBytes ELSE img.data_len - start
     IN [bytes |-> <<FLASH_WRITE, img.addr + start, n>>
                     \o [i \in 1 .. n |-> ImageByte(start + i - 1)],
         replies |-> 1]]

(* What a reply to a page acknowledges.                                    *)
PageOf(request) ==
  IF request.bytes[1] = FLASH_WRITE
  THEN request.bytes[2] .. request.bytes[2] + request.bytes[3] - 1 ELSE {}

-----------------------------------------------------------------------------
(* The client.                                                             *)

Write ==
  /\ requests # <<>> /\ awaited = 0
  /\ to_board' = to_board \o Head(requests).bytes
  /\ awaited' = Head(requests).replies
  /\ requests' = IF awaited' = 0 THEN Tail(requests) ELSE requests
  /\ UNCHANGED <<received, acked, flash_vars, boot_vars, user_vars, failures>>

Done == /\ awaited' = 0 /\ requests' = Tail(requests)

(* A reply is not looked at, except that a poke has one.                   *)
ReadReply ==
  /\ awaited > 0 /\ to_client # <<>>
  /\ to_client' = Tail(to_client)
  /\ received' = IF client = "read" THEN Append(received, Head(to_client)) ELSE received
  /\ poked' = (poked \/ client = "poke")
  /\ IF awaited = 1
     THEN Done /\ acked' = acked \cup PageOf(Head(requests))
     ELSE awaited' = awaited - 1 /\ UNCHANGED <<requests, acked>>
  /\ UNCHANGED <<to_board, main_vars, rx, flash_vars, client, trusted, image, before,
                 failures>>

(* The second of a read passes: while the board waits or is gone, while it *)
(* still sends, if there is more to send than fits, or while it erases     *)
(* what it was asked to (two seconds are enough for that).                 *)
Silence == /\ to_board = <<>> /\ to_client = <<>>
           /\ \/ mode \in {"main", "addr", "len", "data"} /\ rx = <<>>
              \/ mode = "application"
LongRead == Head(requests).replies - awaited >= SecondBytes
SlowErase == /\ ~EraseInTime /\ mode = "erasing"
             /\ Head(requests).bytes = <<ERASE_SECTOR, addr>>

(* The client breaks down when it prints what has not come.                *)
ReadTimeout ==
  /\ awaited > 0 /\ awaited' = 0
  /\ Silence \/ LongRead \/ SlowErase
  /\ IF Head(requests).bytes[1] \in {FLASH_READ, STATUS_BYTE}
     THEN client' = "off" /\ requests' = <<>> /\ poked' = FALSE /\ trusted' = FALSE
     ELSE requests' = Tail(requests) /\ UNCHANGED <<client, poked, trusted>>
  /\ UNCHANGED <<received, to_board, acked, image, before, flash_vars, boot_vars, failures>>

Finished == /\ client \notin {"off", "ready"} /\ requests = <<>>
            /\ client' = "ready"
            /\ poked' = (poked /\ client \notin {"reset", "execute"})
            /\ trusted' = (trusted /\ client \notin {"reset", "execute"})
            /\ UNCHANGED <<image, before, client_vars, flash_vars, boot_vars, failures>>

Client == Write \/ ReadReply \/ ReadTimeout \/ Finished

(* The wire to the board.                                                  *)
Deliver == /\ to_board # <<>> /\ Arrive(Head(to_board)) /\ to_board' = Tail(to_board)
           /\ UNCHANGED <<requests, awaited, received, acked, flash_vars, user_vars,
                          failures>>

-----------------------------------------------------------------------------
(* The user.  A client that starts discards what the line has brought.     *)

StartClient ==
  /\ client = "off" /\ client' = "poke" /\ requests' = PokeRequest
  /\ poked' = FALSE /\ to_client' = <<>> /\ received' = <<>>
  /\ UNCHANGED <<trusted, image, before, awaited, to_board, acked, main_vars, rx, flash_vars,
                 failures>>

Exit ==
  /\ client = "ready" /\ to_board = <<>> /\ (rx = <<>> \/ mode = "application")
  /\ client' = "off" /\ trusted' = poked /\ poked' = FALSE
  /\ UNCHANGED <<image, before, client_vars, flash_vars, boot_vars, failures>>

Use(purpose, plan) ==
  /\ client = "ready" /\ poked /\ (Careful => trusted)
  /\ client' = purpose /\ requests' = plan /\ received' = <<>>
  /\ UNCHANGED <<poked, trusted, awaited, to_board, flash_vars, boot_vars, failures>>

UseFlashWrite ==
  \E img \in Images : /\ Use("write", EraseRequests(img) \o PageRequests(img))
                      /\ image' = img /\ before' = cells /\ acked' = {}

(* erase_sector; what it erases is not acknowledged any more.              *)
UseErase ==
  \E a \in EraseAddrs :
    /\ Use("erase", <<[bytes |-> <<ERASE_SECTOR, a>>, replies |-> 1]>>)
    /\ acked' = {b \in acked : SectorOf(b) # SectorOf(a % FlashBytes)}
    /\ UNCHANGED <<image, before>>

UsePoke ==
  /\ client = "ready" /\ (Careful => trusted)
  /\ client' = "poke" /\ requests' = PokeRequest /\ poked' = FALSE /\ received' = <<>>
  /\ UNCHANGED <<trusted, image, before, awaited, to_board, acked, flash_vars, boot_vars,
                 failures>>

UseOther ==
  /\ \/ /\ image # NoImage
        /\ \E n \in ReadLengths : Use("read", ReadRequest(image.addr, n))
     \/ Use("status", Simple(STATUS_BYTE))
     \/ Use("demo", Simple(DEMO))
     \/ Use("reset", Simple(RESET))
     \/ Use("execute", Simple(EXECUTE))
  /\ UNCHANGED <<image, before, acked>>

User == StartClient \/ Exit \/ UseFlashWrite \/ UseErase \/ UsePoke \/ UseOther

-----------------------------------------------------------------------------
PowerFailure ==
  /\ failures < MaxFailures /\ failures' = failures + 1
  /\ Fail /\ Restart
  /\ client' = "off" /\ poked' = FALSE /\ trusted' = FALSE
  /\ requests' = <<>> /\ awaited' = 0 /\ to_board' = <<>> /\ received' = <<>>
  /\ UNCHANGED <<image, before, acked>>

Board == Bootloader /\ UNCHANGED <<user_vars, client_vars, failures>>
FlashFinish == Finish /\ UNCHANGED <<boot_vars, user_vars, client_vars, failures>>
BoardTimeout == AutoBoot /\ UNCHANGED <<user_vars, client_vars, failures>>

Init == /\ BootInit(StartMode)
        /\ client = "off" /\ poked = FALSE /\ trusted = (StartMode = "main")
        /\ image = NoImage /\ requests = <<>> /\ awaited = 0 /\ received = <<>>
        /\ to_board = <<>> /\ failures = 0 /\ before = cells /\ acked = {}

Next == Client \/ Deliver \/ User \/ Board \/ FlashFinish \/ BoardTimeout \/ PowerFailure

(* Machines go on, users and power failures need not.                      *)
Spec == Init /\ [][Next]_vars /\ WF_vars(Client \/ Deliver \/ Board \/ FlashFinish)

-----------------------------------------------------------------------------
(* Types of all variables.                                                 *)
TypeOK ==
  /\ BootTypeOK
  /\ client \in {"off", "poke", "ready", "write", "erase", "read", "status", "demo", "reset",
                 "execute"}
  /\ poked \in BOOLEAN /\ trusted \in BOOLEAN /\ image \in Images \cup {NoImage}
  /\ awaited \in 0 .. FlashBytes /\ to_board \in Seq(Nat)
  /\ requests \in Seq([bytes : Seq(Nat), replies : Nat])
  /\ received \in Seq(Nat) /\ acked \subseteq FlashAddresses
  /\ before \in [FlashAddresses -> Nat]
  /\ failures \in 0 .. MaxFailures

(* "It is based on a simple request - response communication mode"         *)
(* (README.md:84): the client never sends while an answer to an earlier    *)
(* request is under way or the bootloader is at work on one.  With a       *)
(* receive register of one byte, what it sent then would be lost.          *)
RequestResponse ==
  client # "off" /\ requests # <<>> /\ awaited = 0 /\ mode # "application" =>
    to_board = <<>> /\ rx = <<>> /\ to_client = <<>> /\ mode \in {"auto", "main"} /\ ~WIP

(* The flash never ignores a program or an erase command, for lack of the  *)
(* latch or because it is still at work on the last one.                   *)
NothingRefused == ~refused

(* "Finished writing": the image is in the flash, and every byte outside   *)
(* of the sectors that had to be erased is as before; an image that ends   *)
(* with a sector costs the next sector, too.                               *)
ImageWritten ==
  [][client = "write" /\ client' = "ready" =>
       \A a \in FlashAddresses :
         IF InImage(a) THEN cells[a] = ImageByte(a - image.addr)
         ELSE \/ cells[a] = before[a]
              \/ /\ cells[a] = Erased
                 /\ \E i \in image.addr .. image.addr + image.data_len :
                        SectorOf(i) = SectorOf(a)]_vars

(* A page that was acknowledged stays whatever happens to the power later, *)
(* until the user writes again or erases its sector.                       *)
AckedStays == \A a \in acked : cells[a] = ImageByte(a - image.addr)

(* A read of the client ends, other than by a failure of the power, and    *)
(* with the last of the replies it was for.                                *)
ReadEnds == poked /\ awaited > 0 /\ awaited' = 0 /\ failures' = failures
LastReply == awaited = 1 /\ to_client # <<>> /\ to_client' = Tail(to_client)

(* After a poke that was answered, no read of a reply times out: every     *)
(* request that the bootloader has a command for is understood and         *)
(* answered in full.  demo, "Copy the memory blinky to address 0x400000"   *)
(* (neorv_sh.py:102), is never answered: there is no such command, and the *)
(* client never takes the reply to another request for its reply.          *)
KnownAnswered ==
  [][ReadEnds => (LastReply <=> Head(requests).bytes # <<DEMO>>)]_vars

(* A command of the client ends, or the power fails.                       *)
Ends == client \notin {"off", "ready"} ~> client \in {"off", "ready"}
=============================================================================
