----------------------------- MODULE VesaDriver -----------------------------
(***************************************************************************)
(* The real-mode BIOS VESA video driver, phantom/dev/ia32/video_bios_vesa.c*)
(* and its copy in the old tree, oldtree/kernel/phantom/                   *)
(* video_drv_bios_vesa.c.  The boot code that found a VESA mode hands the  *)
(* driver the frame buffer and the mode; the video subsystem then probes,  *)
(* starts and stops the driver.  The callers, setVesaMode(),               *)
(* setTextVideoMode(), hal_alloc_vaddress() and hal_pages_control_etc()    *)
(* are outside src/ and are the environment of the module.                 *)
(*                                                                         *)
(* Addresses are page numbers.  The page table is the set of virtual pages *)
(* the driver mapped, each with its physical page.                         *)
(***************************************************************************)
EXTENDS Integers, FiniteSets

CONSTANTS
    Modes,          \* the u_int16_t mode numbers the boot code can pass
    PhysAddrs,      \* the frame buffer addresses it can pass, as pages
    Sizes,          \* the frame buffer sizes it can pass, in bytes
    PageShift,      \* hal_mem_pagesize() is 2^PageShift
    VirtPages       \* pages of virtual address space hal_alloc_vaddress() has

ASSUME /\ Modes \subseteq 0 .. 2^16 - 2      \* 0xFFFF ends the BIOS mode list
       /\ PhysAddrs \subseteq Nat \ {0}
       /\ Sizes \subseteq Nat
       /\ PageShift \in 1 .. 31
       /\ VirtPages \in Nat

VARIABLES
    build,      \* the tree and the flags the driver is compiled with
    vesaMode,
    video_driver_bios_vesa_pa,
    n_pages,
    screen,     \* video_driver_bios_vesa.screen
    vaddr_next, \* the first virtual page hal_alloc_vaddress() has not given out
    pmap,       \* the page table: pairs <<virtual page, physical page>>
    card,       \* the mode the video card is in
    state,      \* where the driver is in its life
    found       \* what the boot code passed: for the properties only

driver == <<vesaMode, video_driver_bios_vesa_pa, n_pages, screen>>
vars == <<build, driver, vaddr_next, pmap, card, state, found>>

Builds == [oldtree : BOOLEAN, VESA_ENFORCE : BOOLEAN, ARCH_ia32 : BOOLEAN]

NoBootInfo == [mode |-> FALSE, pa |-> 0, size |-> 0]

\* What the declaration was before: static u_int16_t vesaMode = -1
NoVesaMode_u_int16 == 2^16 - 1

\* static int16_t vesaMode = -1
NoVesaMode == -1

\* The first virtual page is 1: a screen of 0 is a null pointer.
Init ==
    /\ build \in Builds
    /\ vesaMode = NoVesaMode
    /\ video_driver_bios_vesa_pa = 0
    /\ n_pages = 0
    /\ screen = 0
    /\ vaddr_next = 1
    /\ pmap = {}
    /\ card = IF build.VESA_ENFORCE THEN "vesa" ELSE "text"
    /\ state = "boot"
    /\ found = NoBootInfo

----------------------------------------------------------------------------
(* Called by the boot code *)

\* What a plausible slip makes of the conversion: the mode is kept unsigned.
int16_unconverted(mode) == mode

\* The conversion of a u_int16_t to int16_t.
int16(mode) == IF mode >= 2^15 THEN mode - 2^16 ELSE mode

\* What a plausible slip makes of the count: the size is divided and the
\* last, partly used page is left out.
PagesOfRoundedDown(size) == size \div 2^PageShift

\* ((size-1)/hal_mem_pagesize())+1 in size_t, 32 bits wide: size 0 wraps.
PagesOf(size) ==
    IF size = 0 THEN 2^(32 - PageShift) ELSE ((size - 1) \div 2^PageShift) + 1

\* hal_alloc_vaddress() has n pages left to give.
VaddressLeft(n) == vaddr_next + n <= VirtPages + 1

set_video_driver_bios_vesa_pa(pa, size) ==
    /\ state = "boot"
    /\ n_pages' = PagesOf(size)
    /\ video_driver_bios_vesa_pa' = pa
    /\ found' = [found EXCEPT !.pa = pa, !.size = size]
    /\ IF VaddressLeft(PagesOf(size))
          THEN /\ screen' = vaddr_next
               /\ vaddr_next' = vaddr_next + PagesOf(size)
               /\ UNCHANGED state
          ELSE \* panic("Can't alloc vaddress for %d videmem pages")
               /\ state' = "panic"
               /\ UNCHANGED <<screen, vaddr_next>>
    /\ UNCHANGED <<build, vesaMode, pmap, card>>

set_video_driver_bios_vesa_mode(mode) ==
    /\ state = "boot"
    /\ vesaMode' = int16(mode)
    /\ found' = [found EXCEPT !.mode = TRUE]
    /\ UNCHANGED <<build, video_driver_bios_vesa_pa, n_pages, screen,
                   vaddr_next, pmap, card, state>>

----------------------------------------------------------------------------
(* Called by the video subsystem *)

bios_vesa_probe == vesaMode # -1

\* The pages of the frame buffer, virtual with physical.
FrameBuffer ==
    {<<screen + i, video_driver_bios_vesa_pa + i>> : i \in 0 .. n_pages - 1}

\* What a plausible slip makes of the choice of page_map or page_unmap.
map_video_mapping_only(on_off) == pmap \cup FrameBuffer

\* hal_pages_control_etc() of map_video(), after its assert.
map_video(on_off) ==
    IF on_off = 1 THEN pmap \cup FrameBuffer
                  ELSE {m \in pmap : m[1] \notin {f[1] : f \in FrameBuffer}}

\* The video subsystem asks the driver whether it has a device and leaves it
\* alone when it has none.
video_probe ==
    /\ state = "boot"
    /\ state' = IF bios_vesa_probe THEN "probed" ELSE "absent"
    /\ UNCHANGED <<build, driver, vaddr_next, pmap, card, found>>

\* setVesaMode() is not called under VESA_ENFORCE; elsewhere the BIOS
\* switches the mode (rc = 0) or refuses, and then start returns -1.
bios_vesa_start(rc) ==
    /\ state \in {"probed", "stopped"}
    /\ build.VESA_ENFORCE => rc = 0
    /\ IF rc # 0
          THEN /\ state' = "failed"
               /\ UNCHANGED <<pmap, card>>
          ELSE /\ card' = IF build.VESA_ENFORCE THEN card ELSE "vesa"
               /\ IF screen # 0
                     THEN pmap' = map_video(1) /\ state' = "started"
                     ELSE pmap' = pmap /\ state' = "panic"    \* the assert
    /\ UNCHANGED <<build, driver, vaddr_next, found>>

\* The old tree always calls setTextVideoMode() when it stops, the new tree
\* on ARCH_ia32 only.
RestoresTextMode == build.oldtree \/ build.ARCH_ia32

bios_vesa_stop ==
    /\ state = "started"
    /\ pmap' = map_video(0)
    /\ card' = IF RestoresTextMode THEN "text" ELSE card
    /\ state' = "stopped"
    /\ UNCHANGED <<build, driver, vaddr_next, found>>

Next ==
    \/ \E pa \in PhysAddrs, size \in Sizes : set_video_driver_bios_vesa_pa(pa, size)
    \/ \E mode \in Modes : set_video_driver_bios_vesa_mode(mode)
    \/ video_probe
    \/ \E rc \in {0, 1} : bios_vesa_start(rc)
    \/ bios_vesa_stop

Spec == Init /\ [][Next]_vars

----------------------------------------------------------------------------
(* Properties *)

TypeOK ==
    /\ build \in Builds
    /\ vesaMode \in -(2^15) .. 2^15 - 1
    /\ video_driver_bios_vesa_pa \in PhysAddrs \cup {0}
    /\ n_pages \in Nat
    /\ screen \in 0 .. VirtPages
    /\ vaddr_next \in 1 .. VirtPages + 1
    /\ pmap \subseteq (1 .. VirtPages) \X Nat
    /\ card \in {"text", "vesa"}
    /\ state \in {"boot", "absent", "probed", "started", "stopped", "failed", "panic"}
    /\ found \in [mode : BOOLEAN, pa : PhysAddrs \cup {0}, size : Sizes \cup {0}]

\* bios_vesa_probe() answers yes exactly when the boot code called
\* set_video_driver_bios_vesa_mode(): no mode number, converted to int16_t,
\* is taken for the -1 that stands for "no VESA", and that -1 is not taken
\* for a mode.
ProbeMeansVesaFound == bios_vesa_probe <=> found.mode

\* While the driver is started every byte of the frame buffer the boot code
\* announced is mapped, page by page, to the physical page it is in: n_pages
\* of set_video_driver_bios_vesa_pa() covers the size, also when the size
\* ends on a page boundary, and map_video() maps what that call allocated.
StartedFrameBufferIsMapped ==
    state = "started" =>
        \A b \in 0 .. found.size - 1 :
            <<screen + b \div 2^PageShift, found.pa + b \div 2^PageShift>> \in pmap

\* bios_vesa_stop() takes back every page bios_vesa_start() mapped, and a
\* start that failed mapped none.
StoppedLeavesNothingMapped == state # "started" => pmap = {}

=============================================================================
