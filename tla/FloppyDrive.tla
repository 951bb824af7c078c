---------------------------- MODULE FloppyDrive ----------------------------
(***************************************************************************)
(* The floppy drives of the PC core (pcxt.cpp, and the handlers of frames  *)
(* 4 and 5 in main.cpp).                                                   *)
(*                                                                         *)
(* Two tasks of one priority share a FIL and a flag per drive without a    *)
(* lock: main_task closes it and opens another image in mount_floppy,      *)
(* uart1_rx_task seeks and reads or writes a sector in it.  FatFs makes    *)
(* each call atomic, so a step is one call, and each may fail with the     *)
(* card.  The core knows an image by the parameters mount_floppy sends     *)
(* last.  A closed FIL fails every call.                                   *)
(***************************************************************************)
EXTENDS Naturals, Sequences

CONSTANTS Drives,
          Images,         \* image files
          Unsupported,    \* those of a size mount_floppy does not know
          NoImage,
          NoRequest,      \* no request, no mount under way
          Sectors,
          MaxRequests     \* frames waiting in the receive ring

ASSUME FloppyDriveAssumption ==
  /\ Unsupported \subseteq Images /\ NoImage \notin Images
  /\ Sectors \subseteq Nat /\ 0 \in Sectors
  /\ MaxRequests \in Nat
  /\ NoRequest \notin [d : Drives, s : Sectors, img : Images, crossed : BOOLEAN]
  /\ NoRequest \notin [d : Drives, img : Images]

VARIABLES
  floppy,    \* the flags
  name,      \* floppy_fname
  fil,       \* f_floppy: the image that is open and the position in it
  media,     \* the image the core was told of
  ring,      \* requests of the core that uart1_rx_task has not reached
  pending,   \* the request it is at
  rxAt,      \* and where it is with it
  mount,     \* the call of mount_floppy under way
  mainAt,    \* and where main_task is in it
  failed,    \* history: the drive's last call stopped on an error
  reset,     \* history: the core was configured since the drive's last call
  erred,     \* history: a card error met the last request
  served     \* history: the last request got what it asked for, or is excused

drive == <<floppy, name, fil, media>>
rx == <<ring, pending, rxAt>>
main == <<mount, mainAt>>
history == <<failed, reset, erred, served>>
floppyVars == <<drive, rx, main, history>>

Closed == [img |-> NoImage, pos |-> 0]
Media == Images \cup {NoImage}

(* crossed: a mount of the drive began since, or was under way.            *)
SectorRequests == [d : Drives, s : Sectors, img : Images, crossed : BOOLEAN]
Mounting(d) == mount # NoRequest /\ mount.d = d

FloppyTypeOK ==
  /\ floppy \in [Drives -> BOOLEAN] /\ name \in [Drives -> Media]
  /\ fil \in [Drives -> [img : Media, pos : Sectors]]
  /\ media \in [Drives -> Media]
  /\ ring \in Seq(SectorRequests) /\ Len(ring) <= MaxRequests
  /\ pending \in SectorRequests \cup {NoRequest}
  /\ rxAt \in {"idle", "seek", "access"}
  /\ mount \in [d : Drives, img : Images] \cup {NoRequest}
  /\ mainAt \in {"menu", "close", "open", "size", "tell", "note"}
  /\ failed \in [Drives -> BOOLEAN] /\ reset \in [Drives -> BOOLEAN]
  /\ erred \in BOOLEAN /\ served \in BOOLEAN

FloppyInit ==
  /\ floppy = [d \in Drives |-> FALSE] /\ name = [d \in Drives |-> NoImage]
  /\ fil = [d \in Drives |-> Closed] /\ media = [d \in Drives |-> NoImage]
  /\ ring = <<>> /\ pending = NoRequest /\ rxAt = "idle"
  /\ mount = NoRequest /\ mainAt = "menu"
  /\ failed = [d \in Drives |-> FALSE] /\ reset = [d \in Drives |-> FALSE]
  /\ erred = FALSE /\ served = TRUE

-----------------------------------------------------------------------------
(* The core.                                                               *)

(* A frame of type 4 or 5 for a drive the core believes loaded.            *)
Request(d, s) ==
  /\ media[d] # NoImage
  /\ Len(ring) < MaxRequests
  /\ ring' = Append(ring, [d |-> d, s |-> s, img |-> media[d], crossed |-> Mounting(d)])
  /\ UNCHANGED <<drive, pending, rxAt, main, history>>

(* fpga_program of any core, from the menu: the drives' registers are gone, *)
(* the firmware's view of the drives is not.                               *)
ConfigureCore ==
  /\ mainAt = "menu"
  /\ \E d \in Drives : media[d] # NoImage
  /\ media' = [d \in Drives |-> NoImage]
  /\ reset' = [d \in Drives |-> TRUE]
  /\ UNCHANGED <<floppy, name, fil, rx, main, failed, erred, served>>

-----------------------------------------------------------------------------
(* uart1_rx_task.                                                          *)

(* A request that was not crossed by a mount of its drive, and whose drive *)
(* holds what the core was told.                                           *)
Undisturbed(q) == ~q.crossed /\ ~failed[q.d]

(* The place f_read or f_write worked on, if any, is the one asked for,    *)
(* unless the request was disturbed or the card failed it.                 *)
Served(q, at) ==
  served' = (at = [img |-> q.img, pos |-> q.s] \/ ~Undisturbed(q) \/ erred')

Parsed ==
  /\ rxAt = "idle" /\ ring # <<>>
  /\ pending' = Head(ring) /\ ring' = Tail(ring)
  /\ rxAt' = "seek"
  /\ erred' = FALSE
  /\ UNCHANGED <<drive, main, failed, reset, served>>

(* floppy[drive] is false: the frame is dropped, a read gets no answer.    *)
Ignore ==
  /\ rxAt = "seek" /\ ~floppy[pending.d]
  /\ rxAt' = "idle" /\ pending' = NoRequest
  /\ UNCHANGED <<drive, ring, main, failed, reset, erred>>
  /\ Served(pending, Closed)

(* Mutant: the position is left to the call before.                        *)
SeekNot ==
  /\ rxAt = "seek" /\ floppy[pending.d]
  /\ rxAt' = "access"
  /\ UNCHANGED <<drive, ring, pending, main, history>>

(* f_lseek.                                                                *)
Seek ==
  /\ rxAt = "seek" /\ floppy[pending.d]
  /\ fil' = [fil EXCEPT ![pending.d] = IF @ = Closed THEN @ ELSE [@ EXCEPT !.pos = pending.s]]
  /\ rxAt' = "access"
  /\ UNCHANGED <<floppy, name, media, ring, pending, main, history>>

(* The result of f_lseek is not looked at: whatever became of the position, *)
(* f_read or f_write follows.                                              *)
SeekFails ==
  /\ rxAt = "seek" /\ floppy[pending.d]
  /\ fil[pending.d] # Closed
  /\ \E s \in Sectors : fil' = [fil EXCEPT ![pending.d].pos = s]
  /\ rxAt' = "access" /\ erred' = TRUE
  /\ UNCHANGED <<floppy, name, media, ring, pending, main, failed, reset, served>>

(* f_read or f_write of one sector.  The position it leaves behind is      *)
(* never used.                                                             *)
Access ==
  /\ rxAt = "access"
  /\ rxAt' = "idle" /\ pending' = NoRequest
  /\ UNCHANGED <<drive, ring, main, failed, reset, erred>>
  /\ Served(pending, fil[pending.d])

(* f_write fails and the sector is dropped; f_read fails and the core gets *)
(* no answer.  Both only show a message.                                   *)
AccessFails ==
  /\ rxAt = "access"
  /\ rxAt' = "idle" /\ pending' = NoRequest
  /\ erred' = TRUE /\ Served(pending, Closed)
  /\ UNCHANGED <<drive, ring, main, failed, reset>>

-----------------------------------------------------------------------------
(* mount_floppy, from loadpc for drive 0 or from PcxtMenu for either.      *)

Goto(from, to) == mainAt = from /\ mainAt' = to

Crossed(q, d) == [q EXCEPT !.crossed = @ \/ q.d = d]

PickImage(d, i) ==
  /\ Goto("menu", "close")
  /\ mount' = [d |-> d, img |-> i]
  /\ ring' = [n \in DOMAIN ring |-> Crossed(ring[n], d)]
  /\ pending' = IF pending = NoRequest THEN pending ELSE Crossed(pending, d)
  /\ UNCHANGED <<drive, rxAt, history>>

(* Close any open image.  When f_close fails the FIL stays open.           *)
CloseOld ==
  /\ Goto("close", "open")
  /\ \/ floppy[mount.d] /\ fil' = [fil EXCEPT ![mount.d] = Closed]
     \/ fil' = fil
  /\ UNCHANGED <<floppy, name, media, rx, mount, history>>

MountEnds(error) ==
  /\ mount' = NoRequest
  /\ failed' = [failed EXCEPT ![mount.d] = error]
  /\ UNCHANGED <<erred, served>>

(* f_stat or f_open fails.                                                 *)
ImageFails ==
  /\ Goto("open", "menu")
  /\ MountEnds(TRUE)
  /\ UNCHANGED <<drive, rx, reset>>

OpenImage ==
  /\ Goto("open", "size")
  /\ fil' = [fil EXCEPT ![mount.d] = [img |-> mount.img, pos |-> 0]]
  /\ UNCHANGED <<floppy, name, media, rx, mount, history>>

(* "Unsupported image size": -1, which is true, with the file left open.   *)
SizeUnknown ==
  /\ Goto("size", "menu")
  /\ mount.img \in Unsupported
  /\ MountEnds(TRUE)
  /\ UNCHANGED <<drive, rx, reset>>

SizeKnown ==
  /\ Goto("size", "tell")
  /\ mount.img \notin Unsupported
  /\ UNCHANGED <<drive, rx, mount, history>>

(* The six IOWR frames.                                                    *)
Tell ==
  /\ Goto("tell", "note")
  /\ media' = [media EXCEPT ![mount.d] = mount.img]
  /\ reset' = [reset EXCEPT ![mount.d] = FALSE]
  /\ UNCHANGED <<floppy, name, fil, rx, mount, failed, erred, served>>

(* Mutant: the drive that is shown is always the first one's.              *)
NoteFirst ==
  /\ Goto("note", "menu")
  /\ floppy' = [floppy EXCEPT ![mount.d] = TRUE]
  /\ name' = [name EXCEPT ![CHOOSE d \in Drives : TRUE] = mount.img]
  /\ MountEnds(FALSE)
  /\ UNCHANGED <<fil, media, rx, reset>>

Note ==
  /\ Goto("note", "menu")
  /\ floppy' = [floppy EXCEPT ![mount.d] = TRUE]
  /\ name' = [name EXCEPT ![mount.d] = mount.img]
  /\ MountEnds(FALSE)
  /\ UNCHANGED <<fil, media, rx, reset>>

-----------------------------------------------------------------------------
FloppyNext ==
  \/ \E d \in Drives, s \in Sectors : Request(d, s)
  \/ ConfigureCore
  \/ Parsed \/ Ignore \/ Seek \/ SeekFails \/ Access \/ AccessFails
  \/ \E d \in Drives, i \in Images : PickImage(d, i)
  \/ CloseOld \/ ImageFails \/ OpenImage \/ SizeUnknown \/ SizeKnown \/ Tell \/ Note

FloppySpec == FloppyInit /\ [][FloppyNext]_floppyVars

-----------------------------------------------------------------------------
(* A sector is read from and written to the image and the place the core   *)
(* means, and a read of a loaded drive is answered, unless a mount of that *)
(* drive came between the request and the access, the drive's last mount   *)
(* failed, or a call made for this very request did.  With no lock between *)
(* seek and access, a mount between them puts the sector at the start of   *)
(* the new image; a seek that fails may put it where the last one went.    *)
ServedRight == served

(* The menu's name, the open file and the core's parameters are of one     *)
(* image, unless the last mount failed half-way or the core was configured *)
(* since, which leaves a drive shown as loaded that the core thinks empty. *)
ViewsAgree ==
  \A d \in Drives :
    floppy[d] /\ ~failed[d] /\ ~Mounting(d) =>
      fil[d].img = name[d] /\ (media[d] = name[d] \/ reset[d])
=============================================================================
