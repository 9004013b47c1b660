------------------------------ MODULE SpiFlash ------------------------------
(***************************************************************************)
(* The SPI flash memory, as flash_write and flash_erase_sector use it:     *)
(* programming and erasing need the write-enable latch and take time, in   *)
(* which only the status can be read; programming clears bits of one page  *)
(* and wraps around inside it.  External: modelled from its use.           *)
(***************************************************************************)
EXTENDS Naturals

CONSTANTS
  FlashBytes,      \* FLASH_SIZE: 128 sectors
  SectorBytes,     \* SPI_FLASH_SECTOR_SIZE: 65536
  PageBytes        \* 256

ASSUME FlashAssumption ==
  /\ PageBytes \in Nat \ {0} /\ SectorBytes \in Nat \ {0} /\ FlashBytes \in Nat \ {0}
  /\ SectorBytes % PageBytes = 0 /\ FlashBytes % SectorBytes = 0

VARIABLES
  cells,       \* the bytes of the memory
  WEL,         \* write-enable latch
  changing,    \* address |-> byte to be, while a change is under way
  refused      \* history: the memory has ignored a program or an erase

flash_vars == <<cells, WEL, changing, refused>>

Erased == 255
Junk == 254                   \* whatever byte is not that of the image

FlashAddresses == 0 .. FlashBytes - 1
SectorOf(a) == a \div SectorBytes
WIP == DOMAIN changing # {}
Idle == [a \in {} |-> Erased]

WriteEnable == /\ WEL' = (WEL \/ ~WIP)
               /\ UNCHANGED <<cells, changing, refused>>

Change(new) ==
  /\ IF WEL /\ ~WIP
     THEN changing' = new /\ UNCHANGED refused
     ELSE refused' = TRUE /\ UNCHANGED changing
  /\ UNCHANGED <<cells, WEL>>

SectorErase(adr) == Change([a \in {x \in FlashAddresses : SectorOf(x) = SectorOf(adr % FlashBytes)}
                              |-> Erased])

(* Bytes 0 .. n - 1 go to consecutive addresses of the page of adr.        *)
PageProgram(adr, n, byte) ==
  LET page == ((adr % FlashBytes) \div PageBytes) * PageBytes
      Place(i) == page + ((adr + i) % PageBytes)
      IndexAt(a) == CHOOSE i \in 0 .. n - 1 : Place(i) = a
  IN Change([a \in {Place(i) : i \in 0 .. n - 1} |->
               IF cells[a] = Erased THEN byte[IndexAt(a)] ELSE Junk])

Finish == /\ WIP
          /\ cells' = [a \in FlashAddresses |->
                         IF a \in DOMAIN changing THEN changing[a] ELSE cells[a]]
          /\ changing' = Idle /\ WEL' = FALSE
          /\ UNCHANGED refused

(* Power fails: what is being changed ends up anyhow.                      *)
Fail == /\ cells' = [a \in FlashAddresses |->
                       IF a \in DOMAIN changing THEN Junk ELSE cells[a]]
        /\ changing' = Idle /\ WEL' = FALSE
        /\ UNCHANGED refused

FlashInit == /\ cells = [a \in FlashAddresses |-> Junk]
             /\ WEL = FALSE /\ changing = Idle /\ refused = FALSE

FlashTypeOK == /\ cells \in [FlashAddresses -> Nat] /\ WEL \in BOOLEAN
               /\ DOMAIN changing \subseteq FlashAddresses
               /\ \A a \in DOMAIN changing : changing[a] \in Nat
               /\ refused \in BOOLEAN
=============================================================================
