------------------------------- MODULE Surface -------------------------------
(***************************************************************************)
(* A surface of a guest's on a native device (gpu host/surface.rs, the     *)
(* CONFIGURE, RESIZE and CURRENT of host/run.rs, host/configure.rs) and    *)
(* the frames admitted to draw on it (host/admit.rs).                      *)
(*                                                                         *)
(* The guest names a slot; the program binds a window to it under a        *)
(* handle, and lets it go, when the platform gets to it: perhaps after     *)
(* the guest has made newer handles of the slot, up to MaxLate of them.    *)
(* A handle is its generation; GenMod stands for 2^16, 0 passed over, and  *)
(* both bounds are of half the range: past it the code takes a newer       *)
(* handle for an older one.                                                *)
(* Surfaces are configured on the thread that runs the records ("here") or *)
(* wherever the host asks ("elsewhere"), between any two calls of the      *)
(* host.  wgpu is external: a window gives its texture or one of three     *)
(* excuses, and the queue ends a frame's work in its own time.             *)
(*                                                                         *)
(* The texture kept for frames never shown is what the guest asks for each *)
(* time it is taken, so it is not a variable here.                         *)
(***************************************************************************)
EXTENDS Integers

CONSTANTS
  GenerationMod,  \* 2^width of a generation
  MaxLate,        \* handles made since one still bound or let go
  MaxAhead,       \* handles made since the newest ever bound
  FirstHandle,    \* handles made of the slot before
  MaxHandles,     \* handles made of the slot in all
  Formats,        \* what CONFIGURE asks, not 0
  Sizes,          \* what RESIZE asks
  Latency         \* Config::frame_latency

SurfaceAssumption ==
  /\ {GenerationMod, MaxLate, MaxAhead, FirstHandle, MaxHandles} \subseteq Nat
  /\ FirstHandle <= MaxHandles
  /\ 2 * (MaxLate + 2) <= GenerationMod
  /\ 2 * (MaxAhead + 2) <= GenerationMod
  /\ Latency \in Nat \ {0}
  /\ 0 \notin Formats

VARIABLES
  configureAt,  \* "here" or "elsewhere"
  made,         \* handles made of the slot
  asked,        \* CONFIGURE's, 0 none
  size,         \* RESIZE's
  bound,        \* the window's surface
  handle,       \* the generation bound, 0 none
  seen,         \* the newest generation bound
  frame,        \* the turn's texture
  toConfigure,  \* `configure_surfaces` was asked for elsewhere
  inTurn,       \* between `admit` and `present`
  admitted,
  unfinished,
  newest,       \* history: the newest handle bound
  boundBy,      \* history: the handle bound, 0 none
  wronged       \* history: a handle as new as any was refused

surfaceVars == <<configureAt, made, asked, size, bound, handle, seen, frame, toConfigure,
                 inTurn, admitted, unfinished, newest, boundBy, wronged>>
frameVars == <<inTurn, admitted, unfinished>>
bindVars  == <<handle, seen, newest, boundBy, wronged>>

NoBound == [by |-> 0, stale |-> FALSE, as |-> <<>>]
NoFrame == [kind |-> "none", by |-> 0, as |-> <<>>]

\* The generation of the slot's h-th handle.
Generation(h) == ((h - 1) % (GenerationMod - 1)) + 1

SurfaceInit ==
  /\ configureAt \in {"here", "elsewhere"}
  /\ made = FirstHandle
  /\ asked = 0
  /\ size \in Sizes
  /\ bound = NoBound
  /\ handle = 0
  /\ seen = 0
  /\ frame = NoFrame
  /\ toConfigure = FALSE
  /\ inTurn = FALSE
  /\ admitted = FALSE
  /\ unfinished = 0
  /\ newest = 0
  /\ boundBy = 0
  /\ wronged = FALSE
-----------------------------------------------------------------------------
\* A stale surface, configured as is asked.
Configured(b, a, sz) ==
  IF b.stale /\ a # 0 THEN [b EXCEPT !.stale = FALSE, !.as = <<a, sz>>] ELSE b

\* Mutant of WantConfigured: the turn's texture is kept.
WantConfiguredKept(b, a, sz) ==
  IF b.by = 0 \/ a = 0
    THEN bound' = b /\ UNCHANGED <<frame, toConfigure>>
    ELSE LET s == [b EXCEPT !.stale = TRUE]
         IN  /\ frame' = frame
             /\ IF configureAt = "here"
                  THEN bound' = Configured(s, a, sz) /\ UNCHANGED toConfigure
                  ELSE bound' = s /\ toConfigure' = TRUE

\* Surface `b`, asked for `a` at `sz`, is to be configured so.
WantConfigured(b, a, sz) ==
  IF b.by = 0 \/ a = 0
    THEN bound' = b /\ UNCHANGED <<frame, toConfigure>>
    ELSE LET s == [b EXCEPT !.stale = TRUE]
         IN  /\ frame' = NoFrame
             /\ IF configureAt = "here"
                  THEN bound' = Configured(s, a, sz) /\ UNCHANGED toConfigure
                  ELSE bound' = s /\ toConfigure' = TRUE

MakeHandle ==
  /\ made < MaxHandles
  /\ newest # 0 => made < newest + MaxAhead
  /\ made' = made + 1
  /\ UNCHANGED <<configureAt, asked, size, bound, frame, toConfigure>>
  /\ UNCHANGED frameVars
  /\ UNCHANGED bindVars

Late(h) == h \in 1 .. made /\ h + MaxLate >= made

\* Mutant of Older: generations do not wrap.
OlderUnwrapped(a, b) == a < b

\* (a - b) as i16 < 0
Older(a, b) == (a - b) % GenerationMod >= GenerationMod \div 2

Refused(h) == seen # 0 /\ Older(Generation(h), seen)

BindRefused(h) ==
  /\ Late(h)
  /\ Refused(h)
  /\ wronged' = (wronged \/ h >= newest)
  /\ UNCHANGED <<configureAt, made, asked, size, bound, handle, seen, frame, toConfigure, newest, boundBy>>
  /\ UNCHANGED frameVars

Bind(h) ==
  /\ Late(h)
  /\ ~ Refused(h)
  /\ seen' = Generation(h)
  /\ handle' = Generation(h)
  /\ boundBy' = h
  /\ newest' = IF h > newest THEN h ELSE newest
  /\ WantConfigured([by |-> h, stale |-> TRUE, as |-> <<>>], asked, size)
  /\ UNCHANGED <<configureAt, made, asked, size, wronged>>
  /\ UNCHANGED frameVars

\* Mutant of MayUnbind: any handle of the slot lets go what is bound.
MayUnbindAny(h) == handle # 0

MayUnbind(h) == handle = Generation(h)

Unbind(h) ==
  /\ Late(h)
  /\ MayUnbind(h)
  /\ wronged' = (wronged \/ h # boundBy)
  /\ handle' = 0
  /\ boundBy' = 0
  /\ bound' = NoBound
  /\ frame' = NoFrame
  /\ UNCHANGED <<configureAt, made, asked, size, seen, toConfigure, newest>>
  /\ UNCHANGED frameVars

ConfigureSurfaces ==
  /\ toConfigure
  /\ toConfigure' = FALSE
  /\ bound' = Configured(bound, asked, size)
  /\ UNCHANGED <<configureAt, made, asked, size, frame>>
  /\ UNCHANGED frameVars
  /\ UNCHANGED bindVars
-----------------------------------------------------------------------------
(* A turn: whether it may draw, its records, its texture shown.            *)

\* Mutant of MayDraw: one frame more.
MayDrawOneMore == unfinished <= Latency

MayDraw == unfinished < Latency

Admit ==
  /\ ~ inTurn
  /\ inTurn' = TRUE
  /\ admitted' = MayDraw
  /\ UNCHANGED <<configureAt, made, asked, size, bound, frame, toConfigure, unfinished>>
  /\ UNCHANGED bindVars

Recording ==
  /\ inTurn
  /\ UNCHANGED <<configureAt, made>>
  /\ UNCHANGED frameVars
  /\ UNCHANGED bindVars

Configure(f) ==
  /\ asked' = f
  /\ WantConfigured(bound, f, size)
  /\ UNCHANGED size
  /\ Recording

Resize(s) ==
  /\ size # s
  /\ size' = s
  /\ WantConfigured(bound, asked, s)
  /\ UNCHANGED asked
  /\ Recording

Shown(b)  == [kind |-> "shown", by |-> b.by, as |-> b.as]
Unshown   == [kind |-> "unshown", by |-> 0, as |-> <<asked, size>>]
MayGive(b) == b.by # 0 /\ ~ b.stale

\* Mutant of Suboptimal: the surface is stale, and nobody asked to configure it.
SuboptimalUnasked(b) ==
  /\ frame' = Shown(b)
  /\ bound' = [b EXCEPT !.stale = TRUE]
  /\ UNCHANGED toConfigure

\* Shown now, configured before the next.
Suboptimal(b) ==
  /\ frame' = Shown(b)
  /\ bound' = [b EXCEPT !.stale = TRUE]
  /\ toConfigure' = (toConfigure \/ configureAt = "elsewhere")

\* Where the window gives none, a texture never shown.
GivesNone(b) ==
  /\ frame' = Unshown
  /\ bound' = b
  /\ UNCHANGED toConfigure

Success(b) ==
  /\ frame' = Shown(b)
  /\ bound' = b
  /\ UNCHANGED toConfigure

\* Outdated: configured and asked again, once; elsewhere it is for a later turn.
Outdated(b) ==
  LET s == [b EXCEPT !.stale = TRUE]
      c == Configured(s, asked, size)
  IN  \/ configureAt = "here" /\ (Success(c) \/ Suboptimal(c) \/ GivesNone(c))
      \/ configureAt = "elsewhere" /\ frame' = Unshown /\ bound' = s /\ toConfigure' = TRUE

\* The guest draws where it is admitted, and has asked for a configuration.
Current ==
  LET b == IF configureAt = "here" THEN Configured(bound, asked, size) ELSE bound
  IN  /\ admitted
      /\ asked # 0
      /\ frame = NoFrame
      /\ IF MayGive(b)
           THEN Success(b) \/ Suboptimal(b) \/ GivesNone(b) \/ Outdated(b)
           ELSE GivesNone(b)
      /\ UNCHANGED <<asked, size>>
      /\ Recording

Present ==
  /\ inTurn
  /\ inTurn' = FALSE
  /\ frame' = NoFrame
  /\ admitted' = FALSE
  /\ unfinished' = unfinished + (IF admitted THEN 1 ELSE 0)
  /\ UNCHANGED <<configureAt, made, asked, size, bound, toConfigure>>
  /\ UNCHANGED bindVars

\* From another thread: the callback called, or let go uncalled.
WorkDone ==
  /\ unfinished > 0
  /\ unfinished' = unfinished - 1
  /\ UNCHANGED <<configureAt, made, asked, size, bound, frame, toConfigure, inTurn, admitted>>
  /\ UNCHANGED bindVars

SurfaceNext ==
  \/ MakeHandle
  \/ \E h \in 1 .. MaxHandles : Bind(h) \/ BindRefused(h) \/ Unbind(h)
  \/ ConfigureSurfaces
  \/ Admit
  \/ \E f \in Formats : Configure(f)
  \/ \E s \in Sizes : Resize(s)
  \/ Current
  \/ Present
  \/ WorkDone

SurfaceSpec == SurfaceInit /\ [][SurfaceNext]_surfaceVars
-----------------------------------------------------------------------------
SurfaceTypeOK ==
  /\ configureAt \in {"here", "elsewhere"}
  /\ made \in FirstHandle .. MaxHandles
  /\ asked \in Formats \cup {0}
  /\ size \in Sizes
  /\ {handle, seen} \subseteq 0 .. GenerationMod - 1
  /\ frame.kind \in {"none", "shown", "unshown"}
  /\ {toConfigure, inTurn, admitted, wronged} \subseteq BOOLEAN
  /\ unfinished \in Nat

(***************************************************************************)
(* The window bound is the newest handle's that ever was, however late an  *)
(* older one binds or lets go, and over the wrap of generations; and no    *)
(* handle as new is refused, nor another's window let go.                  *)
(***************************************************************************)
NewestHolds ==
  /\ boundBy \in {0, newest}
  /\ boundBy = bound.by
  /\ ~ wronged
  /\ handle = IF boundBy = 0 THEN 0 ELSE Generation(boundBy)

(***************************************************************************)
(* What a turn will show is of the window bound, as the guest last asked   *)
(* for it: any change lets the texture taken before it go.                 *)
(***************************************************************************)
ShownAsAsked ==
  frame.kind = "shown" => frame.by = bound.by /\ frame.as = <<asked, size>>

\* A surface not as asked is not left so: `configure_surfaces` is on its way.
ConfiguredSoon ==
  configureAt = "elsewhere" /\ bound.by # 0 /\ bound.stale /\ asked # 0 => toConfigure

(***************************************************************************)
(* Frames admitted and not yet done, this turn's included, are never more  *)
(* than the latency each surface has textures for, whatever finishes       *)
(* between the turn's asking and its end.                                  *)
(***************************************************************************)
FramesFit == unfinished + (IF admitted THEN 1 ELSE 0) <= Latency

(***************************************************************************)
(* The window bound is the newest handle's however late an older one binds *)
(* or lets go, what a turn shows is as was last asked, a surface not so is *)
(* on its way to be, and frames unfinished fit the latency.                *)
(***************************************************************************)
WindowsKept ==
  /\ SurfaceTypeOK
  /\ NewestHolds
  /\ ShownAsAsked
  /\ ConfiguredSoon
  /\ FramesFit
=============================================================================
