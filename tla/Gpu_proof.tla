------------------------------ MODULE Gpu_proof -------------------------------
(***************************************************************************)
(* What a GPU's guest and host keep of one another.  A surface's windows,  *)
(* for any width of generation and any number of handles made late or      *)
(* ahead within half of it: the window bound is the newest handle's, what  *)
(* a turn shows is as was last asked, a surface not so is on its way to    *)
(* be, and the frames admitted fit.  Then the encoder, for any slots,      *)
(* kinds and length of a turn: however transactions are dropped, the host  *)
(* is asked only for what it keeps, and keeps what the guest holds.  Last, *)
(* a native device's answers, for any number of tickets, textures and      *)
(* records of a turn: a word holds DONE only of the ticket last taken and  *)
(* of what was done, an image lands where it was asked for or nowhere, and *)
(* no guest waits for what the host forgot without telling it.             *)
(***************************************************************************)
EXTENDS Surface, Encoder, Answers, Elements, FiniteSetTheorems

LEMMA Shifted ==
  ASSUME NEW c \in Nat \ {0}, NEW q \in Int, NEW x \in Int
  PROVE  (c * q + x) % c = x % c
  <1>1. x = c * (x \div c) + (x % c) /\ x % c \in 0 .. c - 1 /\ x \div c \in Int
    BY DivMod
  <1> DEFINE a == x \div c
             r == x % c
  <1> HIDE DEF a, r
  <1>2. x = c * a + r /\ r \in 0 .. c - 1 /\ a \in Int
    BY <1>1 DEF a, r
  <1>3. c * q + x = c * (q + a) + r
    BY <1>2
  <1>4. q + a \in Int
    BY <1>2
  <1>5. (c * (q + a) + r) % c = r
    BY <1>2, <1>4, Remainder
  <1> QED BY <1>3, <1>5 DEF r

\* How far apart two handles of a slot may be that are both still of use.
Near(h, n) ==
  \/ h <= n + MaxLate /\ n <= h + MaxLate
  \/ h <= n + MaxAhead /\ n <= h + MaxLate
  \/ h <= n + MaxLate /\ n <= h + MaxAhead

(***************************************************************************)
(* Near each other, handles' generations tell which is the newer, and      *)
(* whether they are one, over the wrap that passes 0.                      *)
(***************************************************************************)
LEMMA GenerationsTell ==
  ASSUME SurfaceAssumption, NEW h \in Nat \ {0}, NEW n \in Nat \ {0}, Near(h, n)
  PROVE  /\ Generation(h) \in 1 .. GenerationMod - 1
         /\ Older(Generation(h), Generation(n)) <=> h < n
         /\ Generation(h) = Generation(n) <=> h = n
  <1> DEFINE P == GenerationMod - 1
             r == (n - 1) % P
             d == h - n
  <1>1. /\ GenerationMod \in Nat /\ P \in Nat \ {0} /\ MaxLate \in Nat /\ MaxAhead \in Nat
        /\ 2 * (MaxLate + 2) <= GenerationMod /\ 2 * (MaxAhead + 2) <= GenerationMod
    BY DEF SurfaceAssumption
  <1>2. /\ d \in Int /\ 2 * (d + 2) <= GenerationMod /\ 2 * (2 - d) <= GenerationMod
        /\ h = n + d
    BY <1>1 DEF Near
  <1>3. -P < d /\ d < P
    BY <1>1, <1>2
  <1> HIDE DEF d, P
  <1>4. /\ n - 1 = P * ((n - 1) \div P) + r /\ r \in 0 .. P - 1
        /\ (n - 1) \div P \in Int
    <2>1. n - 1 \in Int
      OBVIOUS
    <2> QED BY <1>1, <2>1, DivMod
  <1> HIDE DEF r
  <1>5. (h - 1) % P = (r + d) % P
    <2> DEFINE q == (n - 1) \div P
    <2>1. q \in Int /\ n - 1 = P * q + r
      BY <1>4
    <2> HIDE DEF q
    <2>2. h - 1 = P * q + (r + d)
      BY <1>1, <1>2, <1>4, <2>1
    <2>3. r + d \in Int
      BY <1>2, <1>4
    <2>4. (P * q + (r + d)) % P = (r + d) % P
      BY <1>1, <2>1, <2>3, Shifted
    <2> QED BY <2>2, <2>4
  <1> DEFINE e == r + d
             w == IF e < 0 THEN e + P ELSE IF e < P THEN e ELSE e - P
  <1>6. /\ e \in Int /\ -P < e /\ e < P + P
        /\ e = r + d
    BY <1>1, <1>2, <1>3, <1>4
  <1> HIDE DEF e
  <1>7. e % P = w
    <2>1. -P <= e
      BY <1>1, <1>6
    <2> QED BY <1>1, <1>6, <2>1, Around
  <1> DEFINE g == Generation(h)
             m == Generation(n)
  <1>8. m = r + 1
    BY DEF Generation, P, r
  <1>9. g = w + 1
    <2>1. g = ((h - 1) % P) + 1
      BY DEF Generation, P
    <2> HIDE DEF g, w
    <2> QED BY <1>5, <1>7, <2>1 DEF e
  <1> HIDE DEF g, m
  <1>10. g \in 1 .. GenerationMod - 1 /\ m \in 1 .. GenerationMod - 1
    BY <1>1, <1>4, <1>6, <1>8, <1>9 DEF P
  <1>11. g = m <=> d = 0
    BY <1>1, <1>2, <1>3, <1>4, <1>6, <1>8, <1>9
  <1>12. (g - m) % GenerationMod = IF g - m < 0 THEN g - m + GenerationMod ELSE g - m
    <2>1. /\ g - m \in Int /\ -GenerationMod <= g - m /\ g - m < GenerationMod + GenerationMod /\ g - m < GenerationMod
          /\ GenerationMod \in Nat \ {0}
      BY <1>1, <1>10
    <2> QED BY <2>1, Around
  <1>13. /\ GenerationMod \div 2 \in Int /\ 2 * (GenerationMod \div 2) <= GenerationMod
         /\ GenerationMod <= 2 * (GenerationMod \div 2) + 1
    BY <1>1
  <1>14. (g - m) % GenerationMod >= GenerationMod \div 2 <=> d < 0
    <2> DEFINE x == (g - m) % GenerationMod
               y == GenerationMod \div 2
    <2>1. x = IF g - m < 0 THEN g - m + GenerationMod ELSE g - m
      BY <1>12
    <2>2. y \in Int /\ 2 * y <= GenerationMod /\ GenerationMod <= 2 * y + 1
      BY <1>13
    <2> HIDE DEF x, y
    <2>3. g - m \in Int /\ (g - m = d + P \/ g - m = d \/ g - m = d - P)
      BY <1>1, <1>2, <1>4, <1>6, <1>8, <1>9, <1>10
    <2>4. d < 0 => x = GenerationMod + d \/ x = GenerationMod + d - 1
      BY <1>1, <1>2, <1>3, <1>4, <1>6, <1>8, <1>9, <1>10, <2>1, <2>3 DEF P
    <2>5. d >= 0 => x = d \/ x = d + 1
      BY <1>1, <1>2, <1>3, <1>4, <1>6, <1>8, <1>9, <1>10, <2>1, <2>3 DEF P
    <2>6. x >= y <=> d < 0
      BY <1>1, <1>2, <2>2, <2>4, <2>5
    <2> QED BY <2>6 DEF x, y
  <1> QED BY <1>2, <1>10, <1>11, <1>14 DEF Older, g, m, d
-----------------------------------------------------------------------------
(***************************************************************************)
(* The inductive invariant, in three parts.  Of the handles: the newest    *)
(* bound is near the last made, and what is remembered of it is its        *)
(* generation.  Of the window: configured as asked or stale.  Of the       *)
(* frames: none is admitted outside a turn.                                *)
(***************************************************************************)
Sizings == {<<>>} \cup (Formats \X Sizes)
Bounds == [by : Nat, stale : BOOLEAN, as : Sizings]
Images == [kind : {"none", "shown", "unshown"}, by : Nat, as : Sizings]

HandlesOK ==
  /\ made \in FirstHandle .. MaxHandles
  /\ newest \in 0 .. made
  /\ newest # 0 => made <= newest + MaxLate \/ made <= newest + MaxAhead
  /\ seen = IF newest = 0 THEN 0 ELSE Generation(newest)
  /\ wronged = FALSE
  /\ NewestHolds

WindowOK ==
  /\ configureAt \in {"here", "elsewhere"}
  /\ asked \in Formats \cup {0}
  /\ size \in Sizes
  /\ toConfigure \in BOOLEAN
  /\ bound \in Bounds
  /\ frame \in Images
  /\ bound.by # 0 /\ ~ bound.stale => asked # 0 /\ bound.as = <<asked, size>>
  /\ frame.kind = "shown" => bound.by # 0 /\ asked # 0
  /\ ShownAsAsked
  /\ ConfiguredSoon

FramesOK ==
  /\ {inTurn, admitted} \subseteq BOOLEAN
  /\ unfinished \in Nat
  /\ admitted => inTurn
  /\ FramesFit

SurfaceInv == HandlesOK /\ WindowOK /\ FramesOK

LEMMA ConstantsTyped ==
  ASSUME SurfaceAssumption
  PROVE  /\ GenerationMod \in Nat /\ MaxLate \in Nat /\ MaxAhead \in Nat
         /\ FirstHandle \in Nat /\ MaxHandles \in Nat /\ FirstHandle <= MaxHandles
         /\ Latency \in Nat \ {0} /\ 0 \notin Formats
  BY DEF SurfaceAssumption

LEMMA InitSurface ==
  ASSUME SurfaceAssumption, SurfaceInit
  PROVE  SurfaceInv
  <1>1. HandlesOK
    BY ConstantsTyped DEF SurfaceInit, HandlesOK, NewestHolds, NoBound
  <1>2. WindowOK
    BY DEF SurfaceAssumption, SurfaceInit, WindowOK, ShownAsAsked, ConfiguredSoon, NoBound,
           NoFrame, Bounds, Images, Sizings
  <1>3. FramesOK
    <2>1. admitted = FALSE /\ inTurn \in BOOLEAN
      BY DEF SurfaceInit
    <2>2. unfinished = 0 /\ Latency \in Nat
      BY ConstantsTyped DEF SurfaceInit
    <2>3. (IF admitted THEN 1 ELSE 0) = 0
      BY <2>1
    <2>4. FramesFit
      BY <2>2, <2>3 DEF FramesFit
    <2>5. admitted => inTurn
      BY <2>1
    <2>6. {inTurn, admitted} \subseteq BOOLEAN
      BY <2>1
    <2> QED BY <2>2, <2>4, <2>5, <2>6 DEF FramesOK
  <1> QED BY <1>1, <1>2, <1>3 DEF SurfaceInv
-----------------------------------------------------------------------------
\* The handles, over a late bind or a late letting go.
LEMMA LateNear ==
  ASSUME SurfaceAssumption, HandlesOK, newest # 0, NEW h \in 1 .. MaxHandles, Late(h)
  PROVE  /\ h \in Nat \ {0} /\ newest \in Nat \ {0} /\ Near(h, newest)
  BY DEF SurfaceAssumption, HandlesOK, Late, Near

LEMMA BindsNewest ==
  ASSUME SurfaceAssumption, HandlesOK, NEW h \in 1 .. MaxHandles, Late(h), ~ Refused(h)
  PROVE  h >= newest
  <1>1. CASE newest = 0
    BY <1>1
  <1>2. CASE newest # 0
    <2>1. seen = Generation(newest) /\ h \in Nat \ {0} /\ newest \in Nat \ {0} /\ Near(h, newest)
      BY <1>2, LateNear DEF HandlesOK
    <2>2. Near(newest, h)
      BY <2>1 DEF Near
    <2>3. seen # 0
      <3>1. Generation(newest) \in 1 .. GenerationMod - 1
        BY <2>1, <2>2, GenerationsTell
      <3> QED BY <2>1, <3>1 DEF SurfaceAssumption
    <2>4. ~ Older(Generation(h), Generation(newest))
      BY <2>1, <2>3 DEF Refused
    <2>5. ~ (h < newest)
      BY <2>1, <2>4, GenerationsTell
    <2> QED BY <2>1, <2>5
  <1> QED BY <1>1, <1>2

LEMMA HandleSteps ==
  ASSUME SurfaceAssumption, HandlesOK, WindowOK, NEW h \in 1 .. MaxHandles
  PROVE  /\ MakeHandle => HandlesOK'
         /\ BindRefused(h) => HandlesOK'
         /\ Bind(h) /\ bound'.by = h => HandlesOK'
         /\ Unbind(h) => HandlesOK'
  <1>1. ASSUME MakeHandle PROVE HandlesOK'
    BY <1>1 DEF MakeHandle, HandlesOK, NewestHolds, bindVars, SurfaceAssumption
  <1>2. ASSUME BindRefused(h) PROVE HandlesOK'
    <2>1. h < newest
      <3>1. seen # 0 /\ Older(Generation(h), seen) /\ Late(h)
        BY <1>2 DEF BindRefused, Refused
      <3>2. newest # 0 /\ seen = Generation(newest)
        BY <3>1 DEF HandlesOK
      <3>3. h \in Nat \ {0} /\ newest \in Nat \ {0} /\ Near(h, newest)
        BY <3>1, <3>2, LateNear
      <3> QED BY <3>1, <3>2, <3>3, GenerationsTell
    <2>2. ~ (h >= newest)
      <3>1. newest \in Int
        BY ConstantsTyped DEF HandlesOK
      <3> QED BY <2>1, <3>1
    <2>3. wronged' = FALSE
      BY <1>2, <2>2 DEF BindRefused, HandlesOK
    <2> QED BY <1>2, <2>3 DEF BindRefused, HandlesOK, NewestHolds
  <1>3. ASSUME Bind(h), bound'.by = h PROVE HandlesOK'
    <2>1. h >= newest /\ h \in Nat \ {0} /\ h <= made /\ made <= h + MaxLate
      <3>1. Late(h) /\ ~ Refused(h)
        BY <1>3 DEF Bind
      <3>2. h >= newest
        BY <3>1, BindsNewest
      <3> QED BY <3>1, <3>2, ConstantsTyped DEF Late, HandlesOK
    <2>2. newest' = h
      BY <1>3, <2>1 DEF Bind, HandlesOK
    <2>3. /\ made' = made /\ seen' = Generation(h) /\ handle' = Generation(h) /\ boundBy' = h
          /\ wronged' = FALSE
      BY <1>3 DEF Bind, HandlesOK
    <2> QED BY <1>3, <2>1, <2>2, <2>3 DEF HandlesOK, NewestHolds
  <1>4. ASSUME Unbind(h) PROVE HandlesOK'
    <2>1. Late(h) /\ handle = Generation(h)
      BY <1>4 DEF Unbind, MayUnbind
    <2>2. h = boundBy
      <3>1. Generation(h) # 0
        <4>1. Near(h, h) /\ h \in Nat \ {0}
          BY DEF Near, SurfaceAssumption
        <4>2. Generation(h) \in 1 .. GenerationMod - 1
          BY <4>1, GenerationsTell
        <4> QED BY <4>2 DEF SurfaceAssumption
      <3>2. newest # 0 /\ boundBy = newest /\ handle = Generation(newest)
        BY <2>1, <3>1 DEF HandlesOK, NewestHolds
      <3>3. h \in Nat \ {0} /\ newest \in Nat \ {0} /\ Near(h, newest)
        BY <2>1, <3>2, LateNear
      <3> QED BY <2>1, <3>2, <3>3, GenerationsTell
    <2> QED BY <1>4, <2>2 DEF Unbind, HandlesOK, NewestHolds, NoBound
  <1> QED BY <1>1, <1>2, <1>3, <1>4

LEMMA HandlesSame ==
  ASSUME HandlesOK, UNCHANGED made, UNCHANGED bindVars, bound'.by = bound.by
  PROVE  HandlesOK'
  BY DEF HandlesOK, NewestHolds, bindVars
-----------------------------------------------------------------------------
\* The window: what configuring leaves of it.
LEMMA ConfiguredAs ==
  ASSUME NEW b \in Bounds, NEW a \in Formats \cup {0}, NEW sz \in Sizes
  PROVE  /\ Configured(b, a, sz) \in Bounds
         /\ Configured(b, a, sz).by = b.by
         /\ ~ b.stale \/ a = 0 => Configured(b, a, sz) = b
         /\ b.stale /\ a # 0 => ~ Configured(b, a, sz).stale /\ Configured(b, a, sz).as = <<a, sz>>
  <1>1. CASE b.stale /\ a # 0
    <2>1. <<a, sz>> \in Sizings
      BY <1>1 DEF Sizings
    <2> QED BY <1>1, <2>1 DEF Configured, Bounds
  <1>2. CASE ~ (b.stale /\ a # 0)
    BY <1>2 DEF Configured
  <1> QED BY <1>1, <1>2

LEMMA WantedAs ==
  ASSUME WindowOK, NEW b \in Bounds, NEW a \in Formats \cup {0}, NEW sz \in Sizes,
         WantConfigured(b, a, sz)
  PROVE  /\ bound' \in Bounds /\ bound'.by = b.by /\ frame' \in Images /\ toConfigure' \in BOOLEAN
         /\ b.by = 0 \/ a = 0 => bound' = b /\ frame' = frame /\ toConfigure' = toConfigure
         /\ b.by # 0 /\ a # 0 =>
              /\ frame' = NoFrame
              /\ ~ bound'.stale => bound'.as = <<a, sz>>
              /\ configureAt = "elsewhere" => toConfigure'
  <1>1. CASE b.by = 0 \/ a = 0
    BY <1>1 DEF WantConfigured, WindowOK
  <1>2. CASE ~ (b.by = 0 \/ a = 0)
    <2> DEFINE s == [b EXCEPT !.stale = TRUE]
    <2>1. s \in Bounds /\ s.by = b.by /\ s.stale
      BY DEF Bounds
    <2>2. NoFrame \in Images
      BY DEF NoFrame, Images, Sizings
    <2>3. /\ frame' = NoFrame
          /\ IF configureAt = "here"
               THEN bound' = Configured(s, a, sz) /\ UNCHANGED toConfigure
               ELSE bound' = s /\ toConfigure' = TRUE
      BY <1>2 DEF WantConfigured
    <2> HIDE DEF s
    <2>4. CASE configureAt = "here"
      <3>1. bound' = Configured(s, a, sz) /\ toConfigure' = toConfigure
        BY <2>3, <2>4
      <3>2. bound' \in Bounds /\ bound'.by = b.by /\ ~ bound'.stale /\ bound'.as = <<a, sz>>
        BY <1>2, <2>1, <3>1, ConfiguredAs
      <3> QED BY <1>2, <2>2, <2>3, <2>4, <3>1, <3>2 DEF WindowOK
    <2>5. CASE configureAt # "here"
      BY <1>2, <2>1, <2>2, <2>3, <2>5
    <2> QED BY <2>4, <2>5
  <1> QED BY <1>1, <1>2

LEMMA BindSteps ==
  ASSUME SurfaceAssumption, WindowOK, NEW h \in 1 .. MaxHandles
  PROVE  /\ BindRefused(h) => WindowOK'
         /\ Bind(h) => WindowOK' /\ bound'.by = h
         /\ Unbind(h) => WindowOK'
  <1>1. ASSUME BindRefused(h) PROVE WindowOK'
    BY <1>1 DEF BindRefused, WindowOK, ShownAsAsked, ConfiguredSoon
  <1>2. ASSUME Bind(h) PROVE WindowOK' /\ bound'.by = h
    <2> DEFINE b == [by |-> h, stale |-> TRUE, as |-> <<>>]
    <2>1. b \in Bounds /\ b.by = h /\ b.stale /\ h # 0
      BY ConstantsTyped DEF Bounds, Sizings
    <2>2. WantConfigured(b, asked, size) /\ asked' = asked /\ size' = size /\ configureAt' = configureAt
      BY <1>2 DEF Bind
    <2>3. asked \in Formats \cup {0} /\ size \in Sizes
      BY DEF WindowOK
    <2> HIDE DEF b
    <2>4. /\ bound' \in Bounds /\ bound'.by = h /\ frame' \in Images /\ toConfigure' \in BOOLEAN
          /\ asked = 0 => bound' = b /\ frame' = frame
          /\ asked # 0 =>
               /\ frame' = NoFrame
               /\ ~ bound'.stale => bound'.as = <<asked, size>>
               /\ configureAt = "elsewhere" => toConfigure'
      BY <2>1, <2>2, <2>3, WantedAs
    <2> QED BY <2>1, <2>2, <2>4 DEF WindowOK, ShownAsAsked, ConfiguredSoon, NoFrame
  <1>3. ASSUME Unbind(h) PROVE WindowOK'
    BY <1>3 DEF Unbind, WindowOK, ShownAsAsked, ConfiguredSoon, NoFrame, NoBound, Bounds, Images, Sizings
  <1> QED BY <1>1, <1>2, <1>3

\* A configuration asked, or another size: the window is to be configured anew.
LEMMA AskSteps ==
  ASSUME SurfaceAssumption, WindowOK, NEW f \in Formats \cup {0}, NEW s \in Sizes,
         f # asked => f # 0,
         asked' = f, size' = s, configureAt' = configureAt, WantConfigured(bound, f, s)
  PROVE  WindowOK' /\ bound'.by = bound.by
  <1>1. /\ bound' \in Bounds /\ bound'.by = bound.by /\ frame' \in Images /\ toConfigure' \in BOOLEAN
        /\ bound.by = 0 \/ f = 0 => bound' = bound /\ frame' = frame /\ toConfigure' = toConfigure
        /\ bound.by # 0 /\ f # 0 =>
             /\ frame' = NoFrame
             /\ ~ bound'.stale => bound'.as = <<f, s>>
             /\ configureAt = "elsewhere" => toConfigure'
    <2>1. bound \in Bounds
      BY DEF WindowOK
    <2> QED BY <2>1, WantedAs
  <1>2. CASE bound.by = 0 \/ f = 0
    <2>1. frame.kind # "shown"
      BY <1>2 DEF WindowOK
    <2>2. f = 0 => asked = 0
      OBVIOUS
    <2> QED BY <1>1, <1>2, <2>1, <2>2 DEF WindowOK, ShownAsAsked, ConfiguredSoon
  <1>3. CASE bound.by # 0 /\ f # 0
    BY <1>1, <1>3 DEF WindowOK, ShownAsAsked, ConfiguredSoon, NoFrame
  <1> QED BY <1>2, <1>3

LEMMA ConfigureStep ==
  ASSUME WindowOK, ConfigureSurfaces
  PROVE  WindowOK' /\ bound'.by = bound.by
  <1>1. /\ bound \in Bounds /\ asked \in Formats \cup {0} /\ size \in Sizes
        /\ bound' = Configured(bound, asked, size)
    BY DEF ConfigureSurfaces, WindowOK
  <1>2. /\ bound' \in Bounds /\ bound'.by = bound.by
        /\ ~ bound.stale \/ asked = 0 => bound' = bound
        /\ bound.stale /\ asked # 0 => ~ bound'.stale /\ bound'.as = <<asked, size>>
    BY <1>1, ConfiguredAs
  <1>3. /\ frame' = frame /\ asked' = asked /\ size' = size /\ configureAt' = configureAt
        /\ toConfigure' = FALSE
    BY DEF ConfigureSurfaces
  <1> QED BY <1>2, <1>3 DEF WindowOK, ShownAsAsked, ConfiguredSoon
-----------------------------------------------------------------------------
\* The turn's texture, of a surface configured or found stale on the way.
Fit(b) ==
  /\ b \in Bounds /\ b.by = bound.by
  /\ b.by # 0 /\ ~ b.stale => b.as = <<asked, size>>
  /\ configureAt = "elsewhere" /\ b.by # 0 /\ b.stale => toConfigure

LEMMA ImageSteps ==
  ASSUME WindowOK, asked # 0, UNCHANGED <<asked, size, configureAt>>, NEW b, Fit(b)
  PROVE  /\ MayGive(b) /\ Success(b) => WindowOK' /\ bound'.by = bound.by
         /\ MayGive(b) /\ Suboptimal(b) => WindowOK' /\ bound'.by = bound.by
         /\ GivesNone(b) => WindowOK' /\ bound'.by = bound.by
  <1>1. Shown(b) \in Images /\ Unshown \in Images
    BY DEF Fit, Shown, Unshown, Images, Bounds, Sizings, WindowOK
  <1>2. ASSUME MayGive(b), Success(b) PROVE WindowOK' /\ bound'.by = bound.by
    BY <1>1, <1>2 DEF Fit, MayGive, Success, Shown, WindowOK, ShownAsAsked, ConfiguredSoon
  <1>3. ASSUME MayGive(b), Suboptimal(b) PROVE WindowOK' /\ bound'.by = bound.by
    <2>1. [b EXCEPT !.stale = TRUE] \in Bounds
      BY DEF Fit, Bounds
    <2>2. bound'.by = b.by /\ bound'.stale
      BY <1>3 DEF Fit, Suboptimal, Bounds
    <2>3. toConfigure' \in BOOLEAN /\ (configureAt = "elsewhere" => toConfigure')
      BY <1>3 DEF Suboptimal, WindowOK
    <2> QED BY <1>1, <1>3, <2>1, <2>2, <2>3
         DEF Fit, MayGive, Suboptimal, Shown, WindowOK, ShownAsAsked, ConfiguredSoon
  <1>4. ASSUME GivesNone(b) PROVE WindowOK' /\ bound'.by = bound.by
    BY <1>1, <1>4 DEF Fit, GivesNone, Unshown, WindowOK, ShownAsAsked, ConfiguredSoon
  <1> QED BY <1>2, <1>3, <1>4

LEMMA ConfiguredFits ==
  ASSUME WindowOK, asked # 0, configureAt = "here", NEW b \in Bounds, b.by = bound.by,
         b.by # 0 /\ ~ b.stale => b.as = <<asked, size>>
  PROVE  Fit(Configured(b, asked, size))
  <1>1. asked \in Formats \cup {0} /\ size \in Sizes
    BY DEF WindowOK
  <1> QED BY <1>1, ConfiguredAs DEF Fit

LEMMA CurrentStep ==
  ASSUME WindowOK, Current
  PROVE  WindowOK' /\ bound'.by = bound.by
  <1> DEFINE b == IF configureAt = "here" THEN Configured(bound, asked, size) ELSE bound
  <1>1. asked # 0 /\ UNCHANGED <<asked, size, configureAt>> /\ bound \in Bounds
    BY DEF Current, Recording, WindowOK
  <1>2. Fit(b)
    <2>1. CASE configureAt = "here"
      BY <1>1, <2>1, ConfiguredFits DEF WindowOK
    <2>2. CASE configureAt # "here"
      BY <1>1, <2>2 DEF Fit, WindowOK, ConfiguredSoon
    <2> QED BY <2>1, <2>2
  <1>3. IF MayGive(b)
          THEN Success(b) \/ Suboptimal(b) \/ GivesNone(b) \/ Outdated(b)
          ELSE GivesNone(b)
    BY DEF Current
  <1> HIDE DEF b
  <1>4. CASE Success(b) \/ Suboptimal(b) \/ GivesNone(b)
    BY <1>1, <1>2, <1>3, <1>4, ImageSteps
  <1>5. CASE MayGive(b) /\ Outdated(b)
    <2> DEFINE s == [b EXCEPT !.stale = TRUE]
               c == Configured(s, asked, size)
    <2>1. s \in Bounds /\ s.by = bound.by /\ s.stale
      BY <1>2 DEF Fit, Bounds
    <2>2. \/ configureAt = "here" /\ (Success(c) \/ Suboptimal(c) \/ GivesNone(c))
          \/ configureAt = "elsewhere" /\ frame' = Unshown /\ bound' = s /\ toConfigure' = TRUE
      BY <1>5 DEF Outdated
    <2> HIDE DEF s
    <2>3. CASE configureAt = "here" /\ (Success(c) \/ Suboptimal(c) \/ GivesNone(c))
      <3>1. Fit(c)
        BY <1>1, <2>1, <2>3, ConfiguredFits
      <3>2. MayGive(c)
        <4>1. c.by = s.by /\ ~ c.stale
          BY <1>1, <2>1, ConfiguredAs DEF WindowOK
        <4> QED BY <1>2, <1>5, <2>1, <4>1 DEF MayGive, Fit
      <3> HIDE DEF c
      <3> QED BY <1>1, <2>3, <3>1, <3>2, ImageSteps
    <2>4. CASE configureAt = "elsewhere" /\ frame' = Unshown /\ bound' = s /\ toConfigure' = TRUE
      <3>1. Unshown \in Images
        BY <1>1 DEF Unshown, Images, Sizings, WindowOK
      <3> QED BY <1>1, <2>1, <2>4, <3>1 DEF Unshown, WindowOK, ShownAsAsked, ConfiguredSoon
    <2> QED BY <2>2, <2>3, <2>4
  <1> QED BY <1>3, <1>4, <1>5
-----------------------------------------------------------------------------
\* The frames: their count is taken down from elsewhere at any moment.
LEMMA FrameSteps ==
  ASSUME FramesOK, SurfaceAssumption
  PROVE  /\ Admit => FramesOK'
         /\ Present => FramesOK'
         /\ WorkDone => FramesOK'
         /\ UNCHANGED frameVars => FramesOK'
  <1> DEFINE Mine == IF admitted THEN 1 ELSE 0
  <1>1. /\ unfinished \in Nat /\ Latency \in Nat \ {0} /\ Mine \in Nat
        /\ unfinished + Mine <= Latency
    BY ConstantsTyped DEF FramesOK, FramesFit
  <1>2. ASSUME Admit PROVE FramesOK'
    <2>1. unfinished' = unfinished /\ inTurn' = TRUE /\ admitted' = (unfinished < Latency)
      BY <1>2 DEF Admit, MayDraw
    <2>2. CASE unfinished < Latency
      <3>1. admitted' = TRUE
        BY <2>1, <2>2
      <3>2. (IF admitted' THEN 1 ELSE 0) = 1
        BY <3>1
      <3> QED BY <1>1, <2>1, <2>2, <3>1, <3>2 DEF FramesOK, FramesFit
    <2>3. CASE ~ (unfinished < Latency)
      <3>1. admitted' = FALSE /\ inTurn' \in BOOLEAN
        <4>1. admitted' = FALSE
          <5>1. (unfinished < Latency) = FALSE
            BY <2>3
          <5> QED BY <2>1, <5>1
        <4>2. inTurn' \in BOOLEAN
          BY <2>1
        <4> QED BY <4>1, <4>2
      <3>2. (IF admitted' THEN 1 ELSE 0) = 0
        BY <3>1
      <3>3. unfinished <= Latency
        BY <1>1
      <3> QED BY <1>1, <2>1, <3>1, <3>2, <3>3 DEF FramesOK, FramesFit
    <2> QED BY <2>2, <2>3
  <1>3. ASSUME Present PROVE FramesOK'
    <2>1. /\ admitted' = FALSE /\ inTurn' \in BOOLEAN
          /\ unfinished' = unfinished + Mine
      BY <1>3 DEF Present
    <2>2. (IF admitted' THEN 1 ELSE 0) = 0
      BY <2>1
    <2>3. unfinished' \in Nat /\ unfinished' + 0 <= Latency
      BY <1>1, <2>1
    <2> HIDE DEF Mine
    <2> QED BY <2>1, <2>2, <2>3 DEF FramesOK, FramesFit
  <1>4. ASSUME WorkDone PROVE FramesOK'
    <2>1. UNCHANGED <<inTurn, admitted>> /\ unfinished' = unfinished - 1 /\ unfinished > 0
      BY <1>4 DEF WorkDone
    <2>2. unfinished' \in Nat /\ unfinished' + Mine <= Latency
      BY <1>1, <2>1
    <2> QED BY <2>1, <2>2 DEF FramesOK, FramesFit
  <1>5. ASSUME UNCHANGED frameVars PROVE FramesOK'
    BY <1>5 DEF frameVars, FramesOK, FramesFit
  <1> QED BY <1>2, <1>3, <1>4, <1>5

LEMMA WindowSame ==
  ASSUME WindowOK, UNCHANGED <<configureAt, asked, size, bound, toConfigure>>,
         frame' = frame \/ frame' = NoFrame
  PROVE  WindowOK' /\ bound'.by = bound.by
  <1>1. NoFrame \in Images /\ NoFrame.kind # "shown"
    BY DEF NoFrame, Images, Sizings
  <1> QED BY <1>1 DEF WindowOK, ShownAsAsked, ConfiguredSoon
-----------------------------------------------------------------------------
LEMMA SurfaceSteps ==
  ASSUME SurfaceAssumption, SurfaceInv, [SurfaceNext]_surfaceVars
  PROVE  SurfaceInv'
  <1>1. HandlesOK /\ WindowOK /\ FramesOK
    BY DEF SurfaceInv
  <1>2. CASE MakeHandle
    <2>1. 1 \in 1 .. MaxHandles
      BY <1>1, <1>2, ConstantsTyped DEF MakeHandle, HandlesOK
    <2>2. HandlesOK'
      BY <1>1, <1>2, <2>1, HandleSteps
    <2> QED BY <1>1, <1>2, <2>2, WindowSame, FrameSteps DEF MakeHandle, SurfaceInv
  <1>3. ASSUME NEW h \in 1 .. MaxHandles, Bind(h) \/ BindRefused(h) \/ Unbind(h) PROVE SurfaceInv'
    <2>1. UNCHANGED frameVars
      BY <1>3 DEF Bind, BindRefused, Unbind
    <2> QED BY <1>1, <1>3, <2>1, HandleSteps, BindSteps, FrameSteps DEF SurfaceInv
  <1>4. CASE ConfigureSurfaces
    BY <1>1, <1>4, ConfigureStep, HandlesSame, FrameSteps DEF ConfigureSurfaces, SurfaceInv
  <1>5. CASE Admit
    BY <1>1, <1>5, WindowSame, HandlesSame, FrameSteps DEF Admit, SurfaceInv
  <1>6. ASSUME NEW f \in Formats, Configure(f) PROVE SurfaceInv'
    <2>1. f # 0 /\ f \in Formats \cup {0} /\ size \in Sizes
      BY <1>1, ConstantsTyped DEF WindowOK
    <2>2. WindowOK' /\ bound'.by = bound.by
      BY <1>1, <1>6, <2>1, AskSteps DEF Configure, Recording
    <2> QED BY <1>1, <1>6, <2>2, HandlesSame, FrameSteps DEF Configure, Recording, SurfaceInv
  <1>7. ASSUME NEW s \in Sizes, Resize(s) PROVE SurfaceInv'
    <2>1. asked \in Formats \cup {0}
      BY <1>1 DEF WindowOK
    <2>2. WindowOK' /\ bound'.by = bound.by
      BY <1>1, <1>7, <2>1, AskSteps DEF Resize, Recording
    <2> QED BY <1>1, <1>7, <2>2, HandlesSame, FrameSteps DEF Resize, Recording, SurfaceInv
  <1>8. CASE Current
    BY <1>1, <1>8, CurrentStep, HandlesSame, FrameSteps DEF Current, Recording, SurfaceInv
  <1>9. CASE Present
    BY <1>1, <1>9, WindowSame, HandlesSame, FrameSteps DEF Present, SurfaceInv
  <1>10. CASE WorkDone
    BY <1>1, <1>10, WindowSame, HandlesSame, FrameSteps DEF WorkDone, SurfaceInv
  <1>11. CASE UNCHANGED surfaceVars
    BY <1>1, <1>11, WindowSame, HandlesSame, FrameSteps
       DEF surfaceVars, frameVars, bindVars, SurfaceInv
  <1> QED
    BY <1>2, <1>3, <1>4, <1>5, <1>6, <1>7, <1>8, <1>9, <1>10, <1>11 DEF SurfaceNext

LEMMA AlwaysSurface ==
  ASSUME SurfaceAssumption
  PROVE  SurfaceSpec => []SurfaceInv
  <1>1. SurfaceInit => SurfaceInv
    BY InitSurface
  <1>2. SurfaceInv /\ [SurfaceNext]_surfaceVars => SurfaceInv'
    BY SurfaceSteps
  <1> QED BY <1>1, <1>2, PTL DEF SurfaceSpec

\* NewestHolds: however late an older handle binds or lets go, the window bound
\* is the newest's, over the wrap of generations (Surface::bind, unbind).
THEOREM KeepsTheNewest ==
  ASSUME SurfaceAssumption
  PROVE  SurfaceSpec => []NewestHolds
  <1>1. SurfaceInv => NewestHolds
    BY DEF SurfaceInv, HandlesOK
  <1> QED BY <1>1, AlwaysSurface, PTL

\* ShownAsAsked: what a turn shows is the window's, as the guest last asked.
THEOREM ShowsAsAsked ==
  ASSUME SurfaceAssumption
  PROVE  SurfaceSpec => []ShownAsAsked
  <1>1. SurfaceInv => ShownAsAsked
    BY DEF SurfaceInv, WindowOK
  <1> QED BY <1>1, AlwaysSurface, PTL

\* ConfiguredSoon: a surface not as asked has its configuring asked for.
THEOREM ConfiguresSoon ==
  ASSUME SurfaceAssumption
  PROVE  SurfaceSpec => []ConfiguredSoon
  <1>1. SurfaceInv => ConfiguredSoon
    BY DEF SurfaceInv, WindowOK
  <1> QED BY <1>1, AlwaysSurface, PTL

\* FramesFit: frames admitted and not done are never more than the latency.
THEOREM AdmitsWithin ==
  ASSUME SurfaceAssumption
  PROVE  SurfaceSpec => []FramesFit
  <1>1. SurfaceInv => FramesFit
    BY DEF SurfaceInv, FramesOK
  <1> QED BY <1>1, AlwaysSurface, PTL

(***************************************************************************)
(* All of it at once, whatever the order of the binds, unbinds, resizes,   *)
(* configures and frames of a surface's handles (gpu host/surface.rs).     *)
(***************************************************************************)
THEOREM KeepsWindows ==
  ASSUME SurfaceAssumption
  PROVE  SurfaceSpec => []WindowsKept
  <1>1. ASSUME SurfaceInv PROVE SurfaceTypeOK
    <2>1. HandlesOK /\ WindowOK /\ FramesOK
      BY <1>1 DEF SurfaceInv
    <2>2. ASSUME NEW h \in Nat \ {0} PROVE Generation(h) \in 0 .. GenerationMod - 1
      <3>1. Near(h, h)
        BY ConstantsTyped DEF Near
      <3>2. Generation(h) \in 1 .. GenerationMod - 1
        BY <3>1, GenerationsTell
      <3> QED BY <3>2, ConstantsTyped
    <2>3. 0 \in 0 .. GenerationMod - 1
      BY DEF SurfaceAssumption
    <2>4. newest \in Nat /\ boundBy \in {0, newest}
      BY <2>1, ConstantsTyped DEF HandlesOK, NewestHolds
    <2>5. {handle, seen} \subseteq 0 .. GenerationMod - 1
      BY <2>1, <2>2, <2>3, <2>4 DEF HandlesOK, NewestHolds
    <2>6. frame.kind \in {"none", "shown", "unshown"}
      BY <2>1 DEF WindowOK, Images
    <2>7. wronged \in BOOLEAN
      BY <2>1 DEF HandlesOK
    <2> QED BY <2>1, <2>5, <2>6, <2>7 DEF HandlesOK, WindowOK, FramesOK, SurfaceTypeOK
  <1>2. SurfaceInv => WindowsKept
    BY <1>1 DEF SurfaceInv, HandlesOK, WindowOK, FramesOK, WindowsKept
  <1> QED BY <1>2, AlwaysSurface, PTL
-----------------------------------------------------------------------------
(***************************************************************************)
(* The encoder.  A turn's records are run against what the host keeps, one *)
(* at a time; so the invariant says, of each record yet to run and of each *)
(* object the guest holds, what the host will keep when it comes to it.    *)
(***************************************************************************)

\* Record k of s makes or lets go what `id` names.
Touches(s, k, id) == s[k].id = id /\ s[k].op # "call"

Untouched(s, a, b, id) == \A k \in a .. b : ~ Touches(s, k, id)

(***************************************************************************)
(* Before record n of s is run, by a host that has run the first a and now *)
(* keeps h, `id` is what an op made: one of the records between, with no   *)
(* later one that touches it, or what the host keeps, untouched since.     *)
(***************************************************************************)
Will(s, a, h, n, id, op) ==
  \/ \E j \in a + 1 .. n - 1 :
       s[j].op = op /\ s[j].id = id /\ Untouched(s, j + 1, n - 1, id)
  \/ id \in DOMAIN h /\ h[id] = op /\ Untouched(s, a + 1, n - 1, id)

LEMMA KindsTouch ==
  ASSUME EncoderAssumption, NEW rec \in GpuRecord
  PROVE  /\ rec.op \in ObjectKinds => rec.op \notin {"call", "destroy", "end", "submit"}
         /\ rec.op \notin ObjectKinds => rec.op \in {"call", "destroy", "end", "submit"}
         /\ rec.id \in Slots
  BY DEF EncoderAssumption, GpuRecord, ObjectKinds

\* Before the next record, what the host keeps is what it keeps.
LEMMA WillNow ==
  ASSUME NEW s, NEW a \in Nat, NEW h, NEW id, NEW op
  PROVE  Will(s, a, h, a + 1, id, op) <=> id \in DOMAIN h /\ h[id] = op
  <1>1. a + 1 .. (a + 1) - 1 = {}
    OBVIOUS
  <1> QED BY <1>1 DEF Will, Untouched

\* Only the records before it say what will be kept.
LEMMA WillSame ==
  ASSUME NEW s, NEW t, NEW a \in Nat, NEW h, NEW n \in Nat, NEW id, NEW op,
         \A k \in a + 1 .. n - 1 : s[k] = t[k],
         Will(s, a, h, n, id, op)
  PROVE  Will(t, a, h, n, id, op)
  <1>1. ASSUME NEW i \in Nat, a + 1 <= i, Untouched(s, i, n - 1, id)
        PROVE  Untouched(t, i, n - 1, id)
    BY <1>1 DEF Untouched, Touches
  <1>2. ASSUME NEW j \in a + 1 .. n - 1,
               s[j].op = op /\ s[j].id = id /\ Untouched(s, j + 1, n - 1, id)
        PROVE  Will(t, a, h, n, id, op)
    BY <1>1, <1>2 DEF Will
  <1>3. CASE id \in DOMAIN h /\ h[id] = op /\ Untouched(s, a + 1, n - 1, id)
    BY <1>1, <1>3 DEF Will
  <1> QED BY <1>2, <1>3 DEF Will

\* One record more: it makes the id anew, lets it go, or leaves it as it was.
LEMMA WillNext ==
  ASSUME NEW s, NEW a \in Nat, NEW h, NEW n \in Nat, a < n, NEW id, NEW op,
         op # "call"
  PROVE  Will(s, a, h, n + 1, id, op) <=>
           IF Touches(s, n, id) THEN s[n].op = op ELSE Will(s, a, h, n, id, op)
  <1>1. ASSUME NEW i \in Nat, i <= n
        PROVE  Untouched(s, i, n, id) <=> ~ Touches(s, n, id) /\ Untouched(s, i, n - 1, id)
    BY <1>1 DEF Untouched
  <1>2. n + 1 - 1 = n /\ n \in a + 1 .. n /\ Untouched(s, n + 1, n, id)
    BY DEF Untouched
  <1>3. CASE Touches(s, n, id)
    <2>1. ASSUME s[n].op = op PROVE Will(s, a, h, n + 1, id, op)
      BY <1>2, <1>3, <2>1 DEF Will, Touches
    <2>2. ASSUME Will(s, a, h, n + 1, id, op) PROVE s[n].op = op
      <3>1. ~ Untouched(s, a + 1, n, id)
        BY <1>1, <1>3
      <3>2. PICK j \in a + 1 .. n : s[j].op = op /\ s[j].id = id /\ Untouched(s, j + 1, n, id)
        BY <1>2, <2>2, <3>1 DEF Will
      <3>3. j = n
        BY <1>1, <1>3, <3>2
      <3> QED BY <3>2, <3>3
    <2> QED BY <1>3, <2>1, <2>2
  <1>4. CASE ~ Touches(s, n, id)
    <2>1. ASSUME Will(s, a, h, n, id, op) PROVE Will(s, a, h, n + 1, id, op)
      <3>1. ASSUME NEW j \in a + 1 .. n - 1,
                   s[j].op = op /\ s[j].id = id /\ Untouched(s, j + 1, n - 1, id)
            PROVE  Will(s, a, h, n + 1, id, op)
        <4>1. j \in a + 1 .. n /\ j + 1 \in Nat /\ j + 1 <= n
          OBVIOUS
        <4>2. Untouched(s, j + 1, n, id)
          BY <1>1, <1>4, <3>1, <4>1
        <4> QED BY <1>2, <3>1, <4>1, <4>2 DEF Will
      <3>2. CASE id \in DOMAIN h /\ h[id] = op /\ Untouched(s, a + 1, n - 1, id)
        BY <1>1, <1>2, <1>4, <3>2 DEF Will
      <3> QED BY <2>1, <3>1, <3>2 DEF Will
    <2>2. ASSUME Will(s, a, h, n + 1, id, op) PROVE Will(s, a, h, n, id, op)
      <3>1. ASSUME NEW j \in a + 1 .. n,
                   s[j].op = op /\ s[j].id = id /\ Untouched(s, j + 1, n, id)
            PROVE  Will(s, a, h, n, id, op)
        <4>1. j # n
          BY <1>4, <3>1 DEF Touches
        <4>2. j \in a + 1 .. n - 1 /\ j + 1 \in Nat /\ j + 1 <= n
          BY <4>1
        <4> QED BY <1>1, <3>1, <4>2 DEF Will
      <3>2. CASE id \in DOMAIN h /\ h[id] = op /\ Untouched(s, a + 1, n, id)
        BY <1>1, <3>2 DEF Will
      <3> QED BY <1>2, <2>2, <3>1, <3>2 DEF Will
    <2> QED BY <1>4, <2>1, <2>2
  <1> QED BY <1>3, <1>4

\* What no record since touches was as it will be.
LEMMA WillBefore ==
  ASSUME NEW s, NEW a \in Nat, NEW h, NEW m \in Nat, NEW n \in Nat, a < m, m <= n, NEW id, NEW op,
         op # "call", \A k \in m .. n - 1 : ~ Touches(s, k, id),
         Will(s, a, h, n, id, op)
  PROVE  Will(s, a, h, m, id, op)
  <1>1. ASSUME NEW i \in Nat, Untouched(s, i, n - 1, id) PROVE Untouched(s, i, m - 1, id)
    BY <1>1 DEF Untouched
  <1>2. ASSUME NEW j \in a + 1 .. n - 1,
               s[j].op = op /\ s[j].id = id /\ Untouched(s, j + 1, n - 1, id)
        PROVE  Will(s, a, h, m, id, op)
    <2>1. j \in a + 1 .. m - 1 /\ j + 1 \in Nat
      BY <1>2 DEF Touches
    <2> QED BY <1>1, <1>2, <2>1 DEF Will
  <1>3. CASE id \in DOMAIN h /\ h[id] = op /\ Untouched(s, a + 1, n - 1, id)
    BY <1>1, <1>3 DEF Will
  <1> QED BY <1>2, <1>3 DEF Will

\* Running a record changes nothing of what will be kept.
LEMMA WillRun ==
  ASSUME EncoderAssumption, NEW s, NEW a \in Nat, NEW h, NEW n \in Nat, a + 1 < n,
         s[a + 1] \in GpuRecord, NEW id, NEW op \in ObjectKinds
  PROVE  Will(s, a, h, n, id, op) <=> Will(s, a + 1, Ran(h, s[a + 1]), n, id, op)
  <1> DEFINE r == s[a + 1]
             g == Ran(h, r)
  <1>1. Untouched(s, a + 1, n - 1, id) <=> ~ Touches(s, a + 1, id) /\ Untouched(s, a + 2, n - 1, id)
    BY DEF Untouched
  <1>2. a + 1 + 1 = a + 2 /\ a + 1 \in a + 1 .. n - 1
        /\ a + 1 .. n - 1 = {a + 1} \cup (a + 2 .. n - 1)
    OBVIOUS
  <1>3. /\ r.op \in ObjectKinds => DOMAIN g = DOMAIN h \cup {r.id}
                             /\ \A x \in DOMAIN g : g[x] = IF x = r.id THEN r.op ELSE h[x]
        /\ r.op = "call" => g = h
        /\ r.op \notin ObjectKinds \cup {"call"} => DOMAIN g = DOMAIN h \ {r.id}
                                              /\ \A x \in DOMAIN g : g[x] = h[x]
    <2>1. ASSUME r.op \in ObjectKinds
          PROVE  DOMAIN g = DOMAIN h \cup {r.id}
                 /\ \A x \in DOMAIN g : g[x] = IF x = r.id THEN r.op ELSE h[x]
      BY <2>1 DEF Ran
    <2>2. ASSUME r.op = "call" PROVE g = h
      BY <2>2, KindsTouch DEF Ran
    <2>3. ASSUME r.op \notin ObjectKinds \cup {"call"}
          PROVE  DOMAIN g = DOMAIN h \ {r.id} /\ \A x \in DOMAIN g : g[x] = h[x]
      BY <2>3 DEF Ran
    <2> QED BY <2>1, <2>2, <2>3
  <1>4. op # "call"
    BY DEF EncoderAssumption, ObjectKinds
  <1>5. id \in DOMAIN g /\ g[id] = op <=>
          IF Touches(s, a + 1, id) THEN r.op = op ELSE id \in DOMAIN h /\ h[id] = op
    <2> HIDE DEF g
    <2> QED BY <1>3, <1>4, KindsTouch DEF Touches
  <1> HIDE DEF g
  <1>6. (\E j \in a + 1 .. n - 1 : s[j].op = op /\ s[j].id = id /\ Untouched(s, j + 1, n - 1, id))
        <=> \/ r.op = op /\ r.id = id /\ Untouched(s, a + 2, n - 1, id)
            \/ \E j \in a + 2 .. n - 1 : s[j].op = op /\ s[j].id = id /\ Untouched(s, j + 1, n - 1, id)
    BY <1>2
  <1>7. r.op = op /\ r.id = id => Touches(s, a + 1, id)
    BY <1>4 DEF Touches
  <1>8. Will(s, a, h, n, id, op) <=>
          \/ (id \in DOMAIN g /\ g[id] = op) /\ Untouched(s, a + 2, n - 1, id)
          \/ \E j \in a + 2 .. n - 1 : s[j].op = op /\ s[j].id = id /\ Untouched(s, j + 1, n - 1, id)
    BY <1>1, <1>5, <1>6, <1>7 DEF Will, Touches
  <1>9. Will(s, a + 1, g, n, id, op) <=>
          \/ \E j \in a + 2 .. n - 1 : s[j].op = op /\ s[j].id = id /\ Untouched(s, j + 1, n - 1, id)
          \/ id \in DOMAIN g /\ g[id] = op /\ Untouched(s, a + 2, n - 1, id)
    BY <1>2 DEF Will
  <1> QED BY <1>8, <1>9 DEF g
-----------------------------------------------------------------------------
\* The records the host has still to run: the guest's, or those it was handed.
ToRun == IF turn = "guest" THEN log ELSE given

EncoderTypes ==
  /\ DOMAIN held \subseteq Slots /\ own \subseteq DOMAIN held
  /\ \A id \in DOMAIN held : held[id] \in ObjectKinds
  /\ log \in Seq(GpuRecord) /\ given \in Seq(GpuRecord)
  /\ from \in -1 .. Len(log)
  /\ lost \in BOOLEAN /\ missing \in BOOLEAN
  /\ left \in {"none", "perhaps", "left"}
  /\ DOMAIN named \subseteq Slots /\ ran \in 0 .. Len(given)
  /\ \A id \in DOMAIN named : named[id] \in ObjectKinds
  /\ turn \in {"guest", "left", "host", "stopped"}

\* The guest and the host take turns, and no transaction outlasts one.
TurnsOK ==
  /\ turn = "guest" => ran = 0 /\ given = <<>>
  /\ turn # "guest" => log = <<>> /\ from = -1
  /\ turn = "host" => ran = Len(given)
  /\ from = -1 => ~ lost /\ left # "perhaps"

\* What is held will be kept once the records are run,
HeldWillBe == \A id \in DOMAIN held : Will(ToRun, ran, named, Len(ToRun) + 1, id, held[id])

\* and what a record is of is kept before it.
AskedIsKept ==
  \A n \in ran + 1 .. Len(ToRun) :
    ToRun[n].op \notin ObjectKinds => \E op \in ObjectKinds : Will(ToRun, ran, named, n, ToRun[n].id, op)

\* What a transaction's records touched and is held, the transaction took.
OwnIsTouched ==
  from # -1 =>
    \A k \in from + 1 .. Len(log) :
      log[k].op # "call" /\ log[k].id \in DOMAIN held => log[k].id \in own

\* Where no object of before the transaction was let go in one that was
\* dropped, nor yet in this, what will be kept without its records is held
\* without what it took,
EarlierIsHeld ==
  from # -1 /\ left = "none" =>
    \A id \in Slots, op \in ObjectKinds : Will(ToRun, ran, named, from + 1, id, op) => id \in DOMAIN held \ own

\* and what will be kept with them, where each of them fits, is held.
NothingElse ==
  (IF from = -1 THEN left = "none" ELSE left # "left" /\ ~ lost) =>
    \A id \in Slots, op \in ObjectKinds :
      Will(ToRun, ran, named, Len(ToRun) + 1, id, op) => id \in DOMAIN held

KeptOK == HeldWillBe /\ AskedIsKept /\ OwnIsTouched /\ EarlierIsHeld /\ NothingElse

OfKind(op) == {id \in DOMAIN held : held[id] = op}

CountsOK == objects = [op \in Lasting |-> Cardinality(OfKind(op))]

EncoderInv == EncoderTypes /\ TurnsOK /\ KeptOK /\ ~ missing /\ CountsOK
-----------------------------------------------------------------------------
(* The counts.                                                             *)

LEMMA KindsFinite ==
  ASSUME EncoderAssumption, EncoderTypes, NEW op
  PROVE  /\ IsFiniteSet(OfKind(op)) /\ Cardinality(OfKind(op)) \in 0 .. Cardinality(Slots)
         /\ IsFiniteSet(OwnOf(op))
  <1>1. OfKind(op) \in SUBSET Slots /\ OwnOf(op) \in SUBSET Slots /\ IsFiniteSet(Slots)
    BY DEF EncoderTypes, OfKind, OwnOf, EncoderAssumption
  <1> QED BY <1>1, FS_Subset, FS_CardinalityType

LEMMA TakeCounts ==
  ASSUME EncoderAssumption, EncoderTypes, CountsOK, NEW id \in Slots, NEW op \in ObjectKinds,
         T!Take(id, op),
         objects' = IF op \in Lasting THEN [objects EXCEPT ![op] = @ + 1] ELSE objects
  PROVE  CountsOK'
  <1>1. /\ id \notin DOMAIN held
        /\ held' = [n \in DOMAIN held \cup {id} |-> IF n = id THEN op ELSE held[n]]
    BY DEF T!Take
  <1>2. OfKind(op)' = OfKind(op) \cup {id} /\ id \notin OfKind(op)
    BY <1>1 DEF OfKind
  <1>3. ASSUME NEW o, o # op PROVE OfKind(o)' = OfKind(o)
    BY <1>1, <1>3 DEF OfKind
  <1>4. Cardinality(OfKind(op)') = Cardinality(OfKind(op)) + 1
    BY <1>2, KindsFinite, FS_AddElement
  <1>5. objects' = [o \in Lasting |-> Cardinality(OfKind(o)')]
    BY <1>3, <1>4 DEF CountsOK
  <1> QED BY <1>5 DEF CountsOK

LEMMA GiveCounts ==
  ASSUME EncoderAssumption, EncoderTypes, CountsOK, NEW id \in DOMAIN held,
         T!Give(id), objects' = Counted(id, -1)
  PROVE  CountsOK'
  <1>0. PICK op : op = held[id]
    OBVIOUS
  <1>1. held' = [n \in DOMAIN held \ {id} |-> held[n]]
    BY DEF T!Give, T!Only
  <1>2. OfKind(op)' = OfKind(op) \ {id} /\ id \in OfKind(op)
    BY <1>0, <1>1 DEF OfKind
  <1>3. ASSUME NEW o, o # op PROVE OfKind(o)' = OfKind(o)
    BY <1>0, <1>1, <1>3 DEF OfKind
  <1>4. Cardinality(OfKind(op)') = Cardinality(OfKind(op)) - 1
    BY <1>2, KindsFinite, FS_RemoveElement
  <1>5. objects' = IF op \in Lasting THEN [objects EXCEPT ![op] = @ + -1] ELSE objects
    BY <1>0 DEF Counted
  <1>6. Cardinality(OfKind(op)) + -1 = Cardinality(OfKind(op)) - 1
    BY KindsFinite
  <1>7. objects' = [o \in Lasting |-> Cardinality(OfKind(o)')]
    BY <1>3, <1>4, <1>5, <1>6 DEF CountsOK
  <1> QED BY <1>7 DEF CountsOK

LEMMA GiveOwnCounts ==
  ASSUME EncoderAssumption, EncoderTypes, CountsOK, T!GiveOwn,
         objects' = [op \in Lasting |-> objects[op] - Cardinality(OwnOf(op))]
  PROVE  CountsOK'
  <1>1. held' = [n \in DOMAIN held \ own |-> held[n]] /\ own \subseteq DOMAIN held
    BY DEF T!GiveOwn, T!Only, EncoderTypes
  <1>2. ASSUME NEW op
        PROVE  Cardinality(OfKind(op)') = Cardinality(OfKind(op)) - Cardinality(OwnOf(op))
    <2>1. OfKind(op)' = OfKind(op) \ OwnOf(op) /\ OfKind(op) \cap OwnOf(op) = OwnOf(op)
      BY <1>1 DEF OfKind, OwnOf
    <2> QED BY <2>1, KindsFinite, FS_Difference
  <1>3. objects' = [op \in Lasting |-> Cardinality(OfKind(op)')]
    BY <1>2 DEF CountsOK
  <1> QED BY <1>3 DEF CountsOK
-----------------------------------------------------------------------------
(* What will be kept, as the guest records and the host runs.              *)

\* t is s, of L records, and rec after them.
OneMore(s, L, rec, t, h) ==
  /\ L \in Nat /\ Len(t) = L + 1 /\ t \in Seq(GpuRecord)
  /\ \A n \in 1 .. L : t[n] = s[n] /\ s[n] \in GpuRecord
  /\ t[L + 1] = rec
  /\ \A n \in 1 .. L + 1 : \A id, op : Will(t, 0, h, n, id, op) <=> Will(s, 0, h, n, id, op)
  /\ \A id : \A op \in ObjectKinds :
       Will(t, 0, h, L + 2, id, op) <=>
         IF rec.id = id /\ rec.op # "call" THEN rec.op = op ELSE Will(s, 0, h, L + 1, id, op)

LEMMA Appends ==
  ASSUME EncoderAssumption, NEW s \in Seq(GpuRecord), NEW rec \in GpuRecord,
         NEW t, t = Append(s, rec), NEW L, L = Len(s), NEW h
  PROVE  OneMore(s, L, rec, t, h)
  <1>1. /\ L \in Nat /\ Len(t) = L + 1 /\ t \in Seq(GpuRecord)
        /\ \A n \in 1 .. L : t[n] = s[n] /\ s[n] \in GpuRecord
        /\ t[L + 1] = rec
    OBVIOUS
  <1>2. ASSUME NEW n \in 1 .. L + 1, NEW id, NEW op
        PROVE  Will(t, 0, h, n, id, op) <=> Will(s, 0, h, n, id, op)
    <2>1. (\A k \in 0 + 1 .. n - 1 : t[k] = s[k]) /\ n \in Nat
      BY <1>1
    <2> QED BY <2>1, WillSame
  <1>3. ASSUME NEW id, NEW op \in ObjectKinds
        PROVE  Will(t, 0, h, L + 2, id, op) <=>
                 IF rec.id = id /\ rec.op # "call" THEN rec.op = op ELSE Will(s, 0, h, L + 1, id, op)
    <2>1. op # "call"
      BY DEF EncoderAssumption, ObjectKinds
    <2>2. Will(t, 0, h, (L + 1) + 1, id, op) <=>
            IF Touches(t, L + 1, id) THEN t[L + 1].op = op ELSE Will(t, 0, h, L + 1, id, op)
      <3>1. L + 1 \in Nat /\ 0 < L + 1 /\ 0 \in Nat
        BY <1>1
      <3> QED BY <2>1, <3>1, WillNext
    <2>3. (L + 1) + 1 = L + 2 /\ L + 1 \in 1 .. L + 1
      BY <1>1
    <2>4. Touches(t, L + 1, id) <=> rec.id = id /\ rec.op # "call"
      BY <1>1 DEF Touches
    <2> QED BY <1>1, <1>2, <2>2, <2>3, <2>4
  <1> QED BY <1>1, <1>2, <1>3 DEF OneMore

\* A record more: what it is of was held, but for one that makes; and what it
\* lets go is held no longer.
LEMMA EmitKeeps ==
  ASSUME EncoderInv, EncoderAssumption, turn = "guest", NEW rec \in GpuRecord, Emitted(rec),
         UNCHANGED <<named, ran, turn>>,
         rec.op \notin ObjectKinds => rec.id \in DOMAIN held,
         rec.op \in ObjectKinds => /\ rec.id \notin DOMAIN held
                             /\ DOMAIN held' = DOMAIN held \cup {rec.id} /\ held'[rec.id] = rec.op
                             /\ own' = own \cup {rec.id} /\ left' = left,
         rec.op = "call" => UNCHANGED <<held, own, left>>,
         rec.op \notin ObjectKinds \cup {"call"} =>
           /\ DOMAIN held' = DOMAIN held \ {rec.id} /\ own' = own \ {rec.id}
           /\ left' = IF from # -1 /\ rec.id \notin own /\ left = "none" THEN "perhaps" ELSE left,
         \A id \in DOMAIN held' \ {rec.id} : held'[id] = held[id]
  PROVE  KeptOK'
  <1>1. log' = Append(log, rec) /\ UNCHANGED <<from, lost, given, gone>> /\ ~ lost
    BY DEF Emitted, S!Put
  <1>2. PICK L : L = Len(log)
    OBVIOUS
  <1>0. PICK t : t = log'
    OBVIOUS
  <1> DEFINE Now(n, id, op)  == Will(log, 0, named, n, id, op)
             Then(n, id, op) == Will(t, 0, named, n, id, op)
  <1>3. /\ L \in Nat /\ Len(t) = L + 1 /\ t \in Seq(GpuRecord)
        /\ \A n \in 1 .. L : t[n] = log[n] /\ log[n] \in GpuRecord
        /\ t[L + 1] = rec
        /\ \A n \in 1 .. L + 1 : \A id, op : Then(n, id, op) <=> Now(n, id, op)
        /\ \A id : \A op \in ObjectKinds :
             Then(L + 2, id, op) <=>
               IF rec.id = id /\ rec.op # "call" THEN rec.op = op ELSE Now(L + 1, id, op)
    <2>1. log \in Seq(GpuRecord) /\ t = Append(log, rec)
      BY <1>0, <1>1 DEF EncoderInv, EncoderTypes
    <2>2. OneMore(log, L, rec, t, named)
      BY <1>2, <2>1, Appends
    <2> QED BY <2>2 DEF OneMore
  <1>t. /\ ToRun = log /\ ran = 0 /\ ToRun' = t /\ ran' = 0 /\ named' = named /\ log' = t
        /\ Len(ToRun) = L /\ Len(ToRun') + 1 = L + 2
    BY <1>0, <1>1, <1>2, <1>3 DEF EncoderInv, TurnsOK, ToRun
  <1> HIDE DEF Now, Then
  <1>4. "call" \notin ObjectKinds /\ L + 1 + 1 = L + 2
    BY <1>3 DEF EncoderAssumption, ObjectKinds
  <1>5. /\ \A id \in DOMAIN held : held[id] \in ObjectKinds
        /\ own \subseteq DOMAIN held /\ from \in -1 .. L
    BY <1>2 DEF EncoderInv, EncoderTypes
  <1>6. /\ \A id \in DOMAIN held : Now(L + 1, id, held[id])
        /\ \A n \in 1 .. L :
             log[n].op \notin ObjectKinds => \E op \in ObjectKinds : Now(n, log[n].id, op)
        /\ from # -1 =>
             \A k \in from + 1 .. L :
               log[k].op # "call" /\ log[k].id \in DOMAIN held => log[k].id \in own
        /\ from # -1 /\ left = "none" =>
             \A id \in Slots, op \in ObjectKinds : Now(from + 1, id, op) => id \in DOMAIN held \ own
        /\ (IF from = -1 THEN left = "none" ELSE left # "left" /\ ~ lost) =>
             \A id \in Slots, op \in ObjectKinds : Now(L + 1, id, op) => id \in DOMAIN held
    BY <1>2, <1>t DEF Now, EncoderInv, KeptOK, HeldWillBe, AskedIsKept, OwnIsTouched, EarlierIsHeld, NothingElse
  <1>7. ASSUME NEW id \in DOMAIN held'
        PROVE  Then(L + 2, id, held'[id])
    <2>1. CASE id = rec.id /\ rec.op \in ObjectKinds
      BY <1>3, <1>4, <2>1
    <2>2. CASE id = rec.id /\ rec.op = "call"
      BY <1>3, <1>5, <1>6, <2>2
    <2>3. CASE id # rec.id
      <3>1. id \in DOMAIN held /\ held'[id] = held[id]
        BY <2>3
      <3> QED BY <1>3, <1>5, <1>6, <2>3, <3>1
    <2> QED BY <2>1, <2>2, <2>3
  <1>8. HeldWillBe'
    BY <1>7, <1>t DEF HeldWillBe, Then
  <1>9. AskedIsKept'
    <2>1. ASSUME NEW n \in 1 .. L + 1, t[n].op \notin ObjectKinds
          PROVE  \E op \in ObjectKinds : Then(n, t[n].id, op)
      <3>1. CASE n \in 1 .. L
        BY <1>3, <1>6, <2>1, <3>1
      <3>2. CASE n = L + 1
        BY <1>3, <1>5, <1>6, <2>1, <3>2
      <3> QED BY <1>3, <3>1, <3>2
    <2> QED BY <1>3, <1>t, <2>1 DEF AskedIsKept, Then
  <1>10. OwnIsTouched'
    <2>1. ASSUME from # -1, NEW k \in from + 1 .. L + 1, t[k].op # "call", t[k].id \in DOMAIN held'
          PROVE  t[k].id \in own'
      <3>1. CASE k = L + 1
        BY <1>3, <2>1, <3>1
      <3>2. CASE k # L + 1
        <4>1. k \in from + 1 .. L /\ t[k] = log[k] /\ k \in 1 .. L
          BY <1>3, <1>5, <3>2, <2>1
        <4>2. t[k].id \in DOMAIN held => t[k].id \in own
          BY <1>6, <2>1, <4>1
        <4> QED BY <2>1, <4>2, KindsTouch
      <3> QED BY <3>1, <3>2
    <2> QED BY <1>1, <1>3, <1>t, <2>1 DEF OwnIsTouched
  <1>11. EarlierIsHeld'
    <2>1. ASSUME from # -1, left' = "none", NEW id \in Slots, NEW op \in ObjectKinds, Then(from + 1, id, op)
          PROVE  id \in DOMAIN held' \ own'
      <3>1. from + 1 \in 1 .. L + 1
        BY <1>3, <1>5, <2>1
      <3>2. left = "none" /\ id \in DOMAIN held \ own
        BY <1>3, <1>6, <2>1, <3>1, KindsTouch
      <3> QED BY <2>1, <3>2, KindsTouch
    <2> QED BY <1>1, <1>t, <2>1 DEF EarlierIsHeld, Then
  <1>12. NothingElse'
    <2>1. ASSUME IF from = -1 THEN left' = "none" ELSE left' # "left" /\ ~ lost,
                 NEW id \in Slots, NEW op \in ObjectKinds, Then(L + 2, id, op)
          PROVE  id \in DOMAIN held'
      <3>1. IF from = -1 THEN left = "none" ELSE left # "left" /\ ~ lost
        BY <1>1, <2>1, KindsTouch
      <3>2. CASE rec.id = id /\ rec.op # "call"
        BY <1>3, <2>1, <3>2
      <3>3. CASE ~ (rec.id = id /\ rec.op # "call")
        <4>1. id \in DOMAIN held
          BY <1>3, <1>6, <2>1, <3>1, <3>3
        <4> QED BY <3>3, <4>1, KindsTouch
      <3> QED BY <3>2, <3>3
    <2> QED BY <1>1, <1>t, <2>1 DEF NothingElse, Then
  <1> QED BY <1>8, <1>9, <1>10, <1>11, <1>12 DEF KeptOK

\* A record of the transaction that finds no room: what is held may shrink.
LEMMA UnsentKeeps ==
  ASSUME EncoderInv, NEW rec, Unsent(rec), UNCHANGED <<named, ran, turn>>,
         \/ UNCHANGED <<held, own, left>>
         \/ \E id \in DOMAIN held :
              /\ held' = [n \in DOMAIN held \ {id} |-> held[n]] /\ own' = own \ {id}
              /\ left' = IF from # -1 /\ id \notin own /\ left = "none" THEN "perhaps" ELSE left
  PROVE  KeptOK'
  <1>1. from # -1 /\ lost' = TRUE /\ UNCHANGED <<log, from, given, gone>>
    BY DEF Unsent
  <1>2. ToRun' = ToRun /\ ran' = ran /\ named' = named
    BY <1>1 DEF ToRun
  <1>3. /\ \A n \in DOMAIN held' : n \in DOMAIN held /\ held'[n] = held[n]
        /\ \A n \in DOMAIN held' : n \in own => n \in own'
        /\ left' = "none" => left = "none" /\ DOMAIN held \ own \subseteq DOMAIN held' \ own'
    BY <1>1 DEF EncoderInv, EncoderTypes
  <1>4. HeldWillBe'
    BY <1>2, <1>3 DEF EncoderInv, KeptOK, HeldWillBe
  <1>5. AskedIsKept'
    BY <1>2 DEF EncoderInv, KeptOK, AskedIsKept
  <1>6. OwnIsTouched'
    BY <1>1, <1>3 DEF EncoderInv, KeptOK, OwnIsTouched
  <1>7. EarlierIsHeld'
    BY <1>1, <1>2, <1>3 DEF EncoderInv, KeptOK, EarlierIsHeld
  <1>8. NothingElse'
    BY <1>1 DEF NothingElse
  <1> QED BY <1>4, <1>5, <1>6, <1>7, <1>8 DEF KeptOK

LEMMA BeginKeeps ==
  ASSUME EncoderInv, BeginRecords
  PROVE  KeptOK'
  <1>1. /\ turn = "guest" /\ from = -1 /\ from' = Len(log) /\ own' = {}
        /\ UNCHANGED <<log, lost, given, gone, held, objects, named, ran, missing, left, turn>>
    BY DEF BeginRecords, keptVars, S!Open, T!BeginOwn
  <1>2. ToRun' = ToRun /\ ToRun = log
    BY <1>1 DEF ToRun
  <1>3. log \in Seq(GpuRecord) /\ left # "perhaps"
    BY <1>1 DEF EncoderInv, EncoderTypes, TurnsOK
  <1>4. HeldWillBe' /\ AskedIsKept'
    BY <1>1, <1>2 DEF EncoderInv, KeptOK, HeldWillBe, AskedIsKept
  <1>5. OwnIsTouched'
    BY <1>1, <1>3 DEF OwnIsTouched
  <1>6. EarlierIsHeld'
    BY <1>1, <1>2 DEF EncoderInv, KeptOK, EarlierIsHeld, NothingElse
  <1>7. left' # "left" => left = "none"
    BY <1>1, <1>3 DEF EncoderInv, EncoderTypes
  <1>8. NothingElse'
    BY <1>1, <1>2, <1>3, <1>7 DEF EncoderInv, KeptOK, NothingElse
  <1> QED BY <1>4, <1>5, <1>6, <1>8 DEF KeptOK

\* The dropped records are of what the transaction took and gives back.
LEMMA DropKeeps ==
  ASSUME EncoderInv, EncoderAssumption, Commit, Dropped
  PROVE  KeptOK'
  <1>1. /\ turn = "guest" /\ lost /\ log' = SubSeq(log, 1, from) /\ from' = -1 /\ lost' = FALSE
        /\ held' = [n \in DOMAIN held \ own |-> held[n]] /\ own' = {}
        /\ left' = IF left # "perhaps" THEN left ELSE "left"
        /\ UNCHANGED <<given, gone, named, ran, missing, turn>>
    BY DEF Commit, keptVars, Dropped, S!Drop, T!GiveOwn, T!Only
  <1>2. from # -1 /\ from \in 0 .. Len(log) /\ log \in Seq(GpuRecord) /\ own \subseteq DOMAIN held
    BY <1>1 DEF EncoderInv, EncoderTypes, TurnsOK
  <1>3. PICK L, t : L = Len(log) /\ t = log'
    OBVIOUS
  <1>4. /\ L \in Nat /\ from \in 0 .. L /\ Len(t) = from
        /\ \A n \in 1 .. from : t[n] = log[n]
    BY <1>1, <1>2, <1>3
  <1>5. ToRun = log /\ ToRun' = t /\ ran = 0 /\ ran' = 0 /\ named' = named
    BY <1>1, <1>3 DEF ToRun, EncoderInv, TurnsOK
  <1>6. ASSUME NEW n \in 1 .. from + 1, NEW id, NEW op
        PROVE  Will(t, 0, named, n, id, op) <=> Will(log, 0, named, n, id, op)
    <2>1. (\A k \in 0 + 1 .. n - 1 : t[k] = log[k]) /\ n \in Nat
      BY <1>4
    <2> QED BY <2>1, WillSame
  <1>7. ASSUME NEW id \in DOMAIN held'
        PROVE  Will(t, 0, named, from + 1, id, held'[id])
    <2>1. id \in DOMAIN held /\ id \notin own /\ held'[id] = held[id] /\ held[id] \in ObjectKinds
      BY <1>1 DEF EncoderInv, EncoderTypes
    <2>2. Will(log, 0, named, L + 1, id, held[id])
      BY <1>3, <1>5, <2>1 DEF EncoderInv, KeptOK, HeldWillBe
    <2>3. \A k \in from + 1 .. L : ~ Touches(log, k, id)
      BY <1>2, <1>3, <2>1 DEF EncoderInv, KeptOK, OwnIsTouched, Touches
    <2>4. Will(log, 0, named, from + 1, id, held[id])
      <3>1. PICK z, m, n : z = 0 /\ m = from + 1 /\ n = L + 1
        OBVIOUS
      <3>3. z \in Nat /\ m \in Nat /\ n \in Nat /\ z < m /\ m <= n /\ n - 1 = L
        BY <1>4, <3>1
      <3>4. (\A k \in m .. n - 1 : ~ Touches(log, k, id)) /\ Will(log, z, named, n, id, held[id])
        BY <2>2, <2>3, <3>1, <3>3
      <3>2. held[id] # "call"
        BY <2>1 DEF EncoderAssumption, ObjectKinds
      <3>5. Will(log, z, named, m, id, held[id])
        BY <3>2, <3>3, <3>4, WillBefore
      <3> QED BY <3>1, <3>5
    <2> QED BY <1>4, <1>6, <2>1, <2>4
  <1>8. HeldWillBe'
    BY <1>4, <1>5, <1>7 DEF HeldWillBe
  <1>9. AskedIsKept'
    <2>1. ASSUME NEW n \in 1 .. from, t[n].op \notin ObjectKinds
          PROVE  \E op \in ObjectKinds : Will(t, 0, named, n, t[n].id, op)
      <3>1. PICK op \in ObjectKinds : Will(log, 0, named, n, log[n].id, op)
        BY <1>3, <1>4, <1>5, <2>1 DEF EncoderInv, KeptOK, AskedIsKept
      <3> QED BY <1>4, <1>6, <3>1
    <2> QED BY <1>4, <1>5, <2>1 DEF AskedIsKept
  <1>10. OwnIsTouched' /\ EarlierIsHeld'
    BY <1>1 DEF OwnIsTouched, EarlierIsHeld
  <1>11. NothingElse'
    <2>1. ASSUME left' = "none", NEW id \in Slots, NEW op \in ObjectKinds, Will(t, 0, named, from + 1, id, op)
          PROVE  id \in DOMAIN held'
      <3>1. left = "none"
        BY <1>1, <2>1
      <3>2. Will(log, 0, named, from + 1, id, op)
        BY <1>4, <1>6, <2>1
      <3>3. id \in DOMAIN held \ own
        BY <1>2, <1>5, <3>1, <3>2 DEF EncoderInv, KeptOK, EarlierIsHeld
      <3> QED BY <1>1, <3>3
    <2> QED BY <1>1, <1>4, <1>5, <2>1 DEF NothingElse
  <1> QED BY <1>8, <1>9, <1>10, <1>11 DEF KeptOK

LEMMA CommitKeeps ==
  ASSUME EncoderInv, Commit, Kept
  PROVE  KeptOK'
  <1>1. /\ turn = "guest" /\ from # -1 /\ ~ lost /\ from' = -1
        /\ left' = IF left # "perhaps" THEN left ELSE "none"
        /\ UNCHANGED <<log, lost, given, gone, held, own, named, ran, missing, turn>>
    BY DEF Commit, keptVars, Kept, S!Keep
  <1>2. ToRun' = ToRun
    BY <1>1 DEF ToRun
  <1>3. HeldWillBe' /\ AskedIsKept'
    BY <1>1, <1>2 DEF EncoderInv, KeptOK, HeldWillBe, AskedIsKept
  <1>4. OwnIsTouched' /\ EarlierIsHeld'
    BY <1>1 DEF OwnIsTouched, EarlierIsHeld
  <1>5. NothingElse'
    BY <1>1, <1>2 DEF EncoderInv, KeptOK, NothingElse
  <1> QED BY <1>3, <1>4, <1>5 DEF KeptOK

\* What goes on beside the turns.
Aside == BindCanvas \/ UnbindCanvas \/ DeviceGoes

\* From one side to the other the records still to run are the same.
LEMMA TurnKeeps ==
  ASSUME EncoderInv, EncoderFall \/ EncoderRise \/ HostDone \/ Aside \/ HostThrows
  PROVE  KeptOK'
  <1>1. UNCHANGED <<held, own, named, left>> /\ from' = from /\ lost' = lost
    BY DEF EncoderFall, EncoderRise, HostDone, Aside, BindCanvas, UnbindCanvas, DeviceGoes, HostThrows,
           tableVars, streamVars, keptVars, S!Hand, S!Rise
  <1>2. CASE EncoderFall \/ HostDone \/ Aside \/ HostThrows
    <2>1. ToRun' = ToRun /\ ran' = ran
      BY <1>2 DEF EncoderFall, HostDone, Aside, BindCanvas, UnbindCanvas, DeviceGoes, HostThrows,
                  streamVars, keptVars, S!Hand, ToRun
    <2>2. from = -1
      BY <1>2 DEF EncoderFall, HostDone, Aside, BindCanvas, UnbindCanvas, DeviceGoes, HostThrows,
                  S!Hand, EncoderInv, TurnsOK
    <2> QED BY <1>1, <2>1, <2>2
         DEF EncoderInv, KeptOK, HeldWillBe, AskedIsKept, OwnIsTouched, EarlierIsHeld, NothingElse
  <1>3. CASE EncoderRise
    <2>1. /\ turn = "host" /\ from = -1 /\ ToRun = given /\ ran = Len(given) /\ given \in Seq(GpuRecord)
          /\ ToRun' = <<>> /\ ran' = 0 /\ Len(ToRun') = 0
      BY <1>3 DEF EncoderRise, S!Rise, EncoderInv, EncoderTypes, TurnsOK, ToRun
    <2>2. PICK L : L = Len(given) /\ L \in Nat
      BY <2>1
    <2>3. ASSUME NEW id, NEW op
          PROVE  Will(ToRun', ran', named', Len(ToRun') + 1, id, op) <=>
                   Will(ToRun, ran, named, Len(ToRun) + 1, id, op)
      <3>1. Will(given, L, named, L + 1, id, op) <=> id \in DOMAIN named /\ named[id] = op
        BY <2>2, WillNow
      <3>2. Will(<<>>, 0, named, 0 + 1, id, op) <=> id \in DOMAIN named /\ named[id] = op
        <4>1. PICK z \in Nat : z = 0
          OBVIOUS
        <4>2. Will(<<>>, z, named, z + 1, id, op) <=> id \in DOMAIN named /\ named[id] = op
          BY WillNow
        <4> QED BY <4>1, <4>2
      <3> QED BY <1>1, <2>1, <2>2, <3>1, <3>2
    <2>4. HeldWillBe'
      BY <1>1, <2>3 DEF EncoderInv, KeptOK, HeldWillBe
    <2>5. AskedIsKept'
      BY <2>1 DEF AskedIsKept
    <2>6. OwnIsTouched' /\ EarlierIsHeld'
      BY <1>1, <2>1 DEF OwnIsTouched, EarlierIsHeld
    <2>7. NothingElse'
      BY <1>1, <2>1, <2>3 DEF EncoderInv, KeptOK, NothingElse
    <2> QED BY <2>4, <2>5, <2>6, <2>7 DEF KeptOK
  <1> QED BY <1>2, <1>3

\* What the next record is of has been named to the host.
LEMMA NextNamed ==
  ASSUME EncoderInv, EncoderAssumption, turn = "left", ran < Len(given)
  PROVE  NextRecord \in GpuRecord /\ ~ Unnamed(NextRecord)
  <1>1. PICK a, r : a = ran /\ r = given[a + 1]
    OBVIOUS
  <1>2. /\ a \in Nat /\ a + 1 \in a + 1 .. Len(given) /\ r \in GpuRecord /\ ToRun = given /\ NextRecord = r
        /\ ToRun[a + 1] = r
    BY <1>1 DEF EncoderInv, EncoderTypes, ToRun, NextRecord
  <1>3. ASSUME r.op \notin ObjectKinds PROVE r.id \in DOMAIN named
    <2>1. PICK op \in ObjectKinds : Will(given, a, named, a + 1, r.id, op)
      BY <1>1, <1>2, <1>3 DEF EncoderInv, KeptOK, AskedIsKept
    <2>2. Will(given, a, named, a + 1, r.id, op) <=> r.id \in DOMAIN named /\ named[r.id] = op
      BY <1>2, WillNow
    <2> QED BY <2>1, <2>2
  <1> QED BY <1>2, <1>3 DEF Unnamed

\* What is named once a record is run is as foretold.
LEMMA RunKeeps ==
  ASSUME EncoderInv, EncoderAssumption, HostRun
  PROVE  KeptOK' /\ ~ missing'
  <1>1. /\ turn = "left" /\ ran < Len(given)
        /\ named' = Ran(named, given[ran + 1]) /\ ran' = ran + 1
        /\ missing' = (missing \/ Unnamed(NextRecord))
        /\ UNCHANGED <<held, own, log, from, lost, given, gone, objects, left, turn>>
    BY DEF HostRun, NextRecord, tableVars, streamVars
  <1>2. PICK s, a, L : s = given /\ a = ran /\ L = Len(given)
    OBVIOUS
  <1>3. /\ s \in Seq(GpuRecord) /\ a \in Nat /\ a < L /\ L \in Nat /\ L = Len(s)
        /\ ToRun = s /\ ToRun' = s /\ ran = a /\ ran' = a + 1 /\ from = -1 /\ from' = -1 /\ lost' = lost
        /\ s[a + 1] \in GpuRecord /\ named' = Ran(named, s[a + 1])
    BY <1>1, <1>2 DEF EncoderInv, EncoderTypes, TurnsOK, ToRun
  <1>4. ASSUME NEW n \in a + 2 .. L + 1, NEW id, NEW op \in ObjectKinds
        PROVE  Will(s, a + 1, named', n, id, op) <=> Will(s, a, named, n, id, op)
    <2>1. n \in Nat /\ a + 1 < n
      BY <1>3
    <2> QED BY <1>3, <2>1, WillRun
  <1>5. \A id \in DOMAIN held : held[id] \in ObjectKinds
    BY DEF EncoderInv, EncoderTypes
  <1>6. HeldWillBe'
    BY <1>1, <1>3, <1>4, <1>5 DEF EncoderInv, KeptOK, HeldWillBe
  <1>7. AskedIsKept'
    <2>1. ASSUME NEW n \in a + 2 .. L, s[n].op \notin ObjectKinds
          PROVE  \E op \in ObjectKinds : Will(s, a + 1, named', n, s[n].id, op)
      <3>1. n \in a + 1 .. L /\ n \in a + 2 .. L + 1
        BY <1>3
      <3>2. PICK op \in ObjectKinds : Will(s, a, named, n, s[n].id, op)
        BY <1>3, <2>1, <3>1 DEF EncoderInv, KeptOK, AskedIsKept
      <3> QED BY <1>4, <3>1, <3>2
    <2>2. (a + 1) + 1 = a + 2
      BY <1>3
    <2> QED BY <1>3, <2>1, <2>2 DEF AskedIsKept
  <1>8. OwnIsTouched' /\ EarlierIsHeld'
    BY <1>3 DEF OwnIsTouched, EarlierIsHeld
  <1>9. NothingElse'
    BY <1>1, <1>3, <1>4 DEF EncoderInv, KeptOK, NothingElse
  <1>10. ~ missing'
    BY <1>1, NextNamed DEF EncoderInv
  <1> QED BY <1>6, <1>7, <1>8, <1>9, <1>10 DEF KeptOK
-----------------------------------------------------------------------------
LEMMA RecordsTyped ==
  ASSUME NEW op \in ObjectKinds \cup {"call", "destroy", "end", "submit"}, NEW id \in Slots
  PROVE  [op |-> op, id |-> id] \in GpuRecord
  BY DEF GpuRecord

LEMMA EncoderStarts ==
  ASSUME EncoderAssumption, EncoderInit
  PROVE  EncoderInv
  <1>1. /\ held = << >> /\ own = {} /\ log = <<>> /\ from = -1 /\ lost = FALSE /\ given = <<>>
        /\ objects = [k \in Lasting |-> 0] /\ named = << >> /\ ran = 0 /\ missing = FALSE
        /\ left = "none" /\ turn = "host" /\ DOMAIN held = {} /\ DOMAIN named = {}
    BY DEF EncoderInit, T!Init, S!Init
  <1>2. EncoderTypes /\ TurnsOK
    <2>1. <<>> \in Seq(GpuRecord) /\ Len(<<>>) = 0
      OBVIOUS
    <2>2. log \in Seq(GpuRecord) /\ given \in Seq(GpuRecord) /\ from \in -1 .. Len(log) /\ ran \in 0 .. Len(given)
      BY <1>1, <2>1
    <2> QED BY <1>1, <2>2 DEF EncoderTypes, TurnsOK
  <1>3. ToRun = <<>>
    BY <1>1 DEF ToRun
  <1>4. HeldWillBe /\ AskedIsKept /\ OwnIsTouched /\ EarlierIsHeld
    BY <1>1, <1>3 DEF HeldWillBe, AskedIsKept, OwnIsTouched, EarlierIsHeld
  <1>5. NothingElse
    <2>1. PICK z \in Nat : z = 0
      OBVIOUS
    <2>2. ASSUME NEW id, NEW op PROVE ~ Will(<<>>, z, named, z + 1, id, op)
      BY <1>1, WillNow
    <2> QED BY <1>1, <1>3, <2>1, <2>2 DEF NothingElse
  <1>6. CountsOK
    <2>1. \A op : OfKind(op) = {}
      BY <1>1 DEF OfKind
    <2> QED BY <1>1, <2>1, FS_EmptySet DEF CountsOK
  <1> QED BY <1>1, <1>2, <1>4, <1>5, <1>6 DEF EncoderInv, KeptOK

LEMMA MakeSteps ==
  ASSUME EncoderInv, EncoderAssumption, NEW op \in ObjectKinds, NEW id \in Slots, Make(op, id)
  PROVE  EncoderInv'
  <1> DEFINE rec == [op |-> op, id |-> id]
  <1>1. turn = "guest" /\ UNCHANGED <<named, ran, missing, left, turn>> /\ rec \in GpuRecord
        /\ rec.op = op /\ rec.id = id
    BY RecordsTyped DEF Make, keptVars
  <1> HIDE DEF rec
  <1>2. EncoderTypes /\ TurnsOK /\ ~ missing /\ CountsOK /\ ran = 0 /\ given = <<>>
    BY <1>1 DEF EncoderInv, TurnsOK
  <1>3. CASE /\ Emitted(rec)
             /\ T!Take(id, op)
             /\ objects' = IF op \in Lasting THEN [objects EXCEPT ![op] = @ + 1] ELSE objects
    <2>1. /\ log' = Append(log, rec) /\ UNCHANGED <<from, lost, given, gone>> /\ id \notin DOMAIN held
          /\ held' = [n \in DOMAIN held \cup {id} |-> IF n = id THEN op ELSE held[n]]
          /\ own' = own \cup {id}
      BY <1>3 DEF Emitted, S!Put, T!Take
    <2>2. CountsOK'
      BY <1>2, <1>3, TakeCounts
    <2>3. EncoderTypes' /\ TurnsOK'
      BY <1>1, <1>2, <2>1 DEF EncoderTypes, TurnsOK
    <2>4. op \notin {"call", "destroy", "end", "submit"}
      BY DEF EncoderAssumption, ObjectKinds
    <2>5. KeptOK'
      BY <1>1, <1>3, <2>1, <2>4, EmitKeeps
    <2> QED BY <1>1, <1>2, <2>2, <2>3, <2>5 DEF EncoderInv
  <1>4. CASE MakeUnsent(op, id)
    <2>1. Unsent(rec) /\ UNCHANGED <<held, own, objects>>
      BY <1>4 DEF MakeUnsent, rec
    <2>2. from # -1 /\ lost' = TRUE /\ UNCHANGED <<log, from, given, gone>>
      BY <2>1 DEF Unsent
    <2>3. KeptOK'
      BY <1>1, <2>1, UnsentKeeps
    <2>4. EncoderTypes' /\ TurnsOK'
      BY <1>1, <1>2, <2>1, <2>2 DEF EncoderTypes, TurnsOK
    <2>5. CountsOK'
      BY <1>2, <2>1 DEF CountsOK, OfKind
    <2> QED BY <1>1, <1>2, <2>3, <2>4, <2>5 DEF EncoderInv
  <1> QED BY <1>3, <1>4 DEF Make, rec

LEMMA CallSteps ==
  ASSUME EncoderInv, EncoderAssumption, NEW id \in Slots, Call(id)
  PROVE  EncoderInv'
  <1> DEFINE rec == [op |-> "call", id |-> id]
  <1>1. /\ turn = "guest" /\ UNCHANGED <<held, own, objects, named, ran, missing, left, turn>>
        /\ rec \in GpuRecord /\ rec.op = "call" /\ rec.id = id /\ id \in DOMAIN held
    BY RecordsTyped DEF Call, tableVars, keptVars
  <1>2. Emitted(rec) \/ Unsent(rec)
    BY DEF Call
  <1> HIDE DEF rec
  <1>3. EncoderTypes /\ TurnsOK /\ ~ missing /\ CountsOK /\ "call" \notin ObjectKinds
    BY DEF EncoderInv, EncoderAssumption, ObjectKinds
  <1>4. CASE Emitted(rec)
    <2>1. log' = Append(log, rec) /\ UNCHANGED <<from, lost, given, gone>>
      BY <1>4 DEF Emitted, S!Put
    <2>2. EncoderTypes' /\ TurnsOK'
      BY <1>1, <1>3, <2>1 DEF EncoderTypes, TurnsOK
    <2>3. KeptOK'
      BY <1>1, <1>3, <1>4, EmitKeeps
    <2> QED BY <1>1, <1>3, <2>2, <2>3 DEF EncoderInv, CountsOK, OfKind
  <1>5. CASE Unsent(rec)
    <2>1. from # -1 /\ lost' = TRUE /\ UNCHANGED <<log, from, given, gone>>
      BY <1>5 DEF Unsent
    <2>2. EncoderTypes' /\ TurnsOK'
      BY <1>1, <1>3, <2>1 DEF EncoderTypes, TurnsOK
    <2>3. KeptOK'
      BY <1>1, <1>5, UnsentKeeps
    <2> QED BY <1>1, <1>3, <2>2, <2>3 DEF EncoderInv, CountsOK, OfKind
  <1> QED BY <1>2, <1>4, <1>5

LEMMA ReleaseSteps ==
  ASSUME EncoderInv, EncoderAssumption, NEW op \in {"destroy", "end", "submit"}, NEW id \in Slots,
         Release(op, id)
  PROVE  EncoderInv'
  <1> DEFINE rec == [op |-> op, id |-> id]
  <1>1. /\ turn = "guest" /\ UNCHANGED <<named, ran, missing, turn>>
        /\ rec \in GpuRecord /\ rec.op = op /\ rec.id = id /\ id \in DOMAIN held
        /\ T!Give(id) /\ objects' = Counted(id, -1)
        /\ left' = IF from # -1 /\ id \notin own /\ left = "none" THEN "perhaps" ELSE left
    BY RecordsTyped DEF Release, LetGo, keptVars
  <1>2. Emitted(rec) \/ Unsent(rec)
    BY DEF Release, LetGo
  <1> HIDE DEF rec
  <1>3. /\ EncoderTypes /\ TurnsOK /\ ~ missing /\ CountsOK
        /\ op \notin ObjectKinds \cup {"call"}
    BY DEF EncoderInv, EncoderAssumption, ObjectKinds
  <1>4. held' = [n \in DOMAIN held \ {id} |-> held[n]] /\ own' = own \ {id}
    BY <1>1 DEF T!Give, T!Only
  <1>5. CountsOK'
    BY <1>1, <1>3, GiveCounts
  <1>6. CASE Emitted(rec)
    <2>1. log' = Append(log, rec) /\ UNCHANGED <<from, lost, given, gone>>
      BY <1>6 DEF Emitted, S!Put
    <2>2. EncoderTypes' /\ TurnsOK'
      BY <1>1, <1>3, <1>4, <2>1 DEF EncoderTypes, TurnsOK
    <2>3. KeptOK'
      BY <1>1, <1>3, <1>4, <1>6, EmitKeeps
    <2> QED BY <1>1, <1>3, <1>5, <2>2, <2>3 DEF EncoderInv
  <1>7. CASE Unsent(rec)
    <2>1. from # -1 /\ lost' = TRUE /\ UNCHANGED <<log, from, given, gone>>
      BY <1>7 DEF Unsent
    <2>2. EncoderTypes' /\ TurnsOK'
      BY <1>1, <1>3, <1>4, <2>1 DEF EncoderTypes, TurnsOK
    <2>3. KeptOK'
      BY <1>1, <1>4, <1>7, UnsentKeeps
    <2> QED BY <1>1, <1>3, <1>5, <2>2, <2>3 DEF EncoderInv
  <1> QED BY <1>2, <1>6, <1>7

LEMMA TransactionSteps ==
  ASSUME EncoderInv, EncoderAssumption, BeginRecords \/ Commit
  PROVE  EncoderInv'
  <1>1. EncoderTypes /\ TurnsOK /\ ~ missing /\ CountsOK /\ log \in Seq(GpuRecord)
    BY DEF EncoderInv, EncoderTypes
  <1>2. CASE BeginRecords
    <2>1. /\ turn = "guest" /\ from = -1 /\ from' = Len(log) /\ own' = {}
          /\ UNCHANGED <<log, lost, given, gone, held, objects, named, ran, missing, left, turn>>
      BY <1>2 DEF BeginRecords, keptVars, S!Open, T!BeginOwn
    <2>2. EncoderTypes' /\ TurnsOK'
      BY <1>1, <2>1 DEF EncoderTypes, TurnsOK
    <2>3. KeptOK'
      BY <1>2, BeginKeeps
    <2> QED BY <1>1, <2>1, <2>2, <2>3 DEF EncoderInv, CountsOK, OfKind
  <1>3. CASE Commit /\ Dropped
    <2>1. /\ turn = "guest" /\ lost /\ log' = SubSeq(log, 1, from) /\ from' = -1 /\ lost' = FALSE
          /\ held' = [n \in DOMAIN held \ own |-> held[n]] /\ own' = {}
          /\ left' = IF left # "perhaps" THEN left ELSE "left"
          /\ UNCHANGED <<given, gone, named, ran, missing, turn>>
      BY <1>3 DEF Commit, keptVars, Dropped, S!Drop, T!GiveOwn, T!Only
    <2>2. from \in 0 .. Len(log)
      BY <1>1, <2>1 DEF EncoderTypes, TurnsOK
    <2>3. log' \in Seq(GpuRecord) /\ from' \in -1 .. Len(log')
      BY <1>1, <2>1, <2>2
    <2>4. EncoderTypes' /\ TurnsOK'
      BY <1>1, <2>1, <2>3 DEF EncoderTypes, TurnsOK
    <2>5. CountsOK'
      BY <1>1, <1>3, GiveOwnCounts DEF Dropped
    <2>6. KeptOK'
      BY <1>3, DropKeeps
    <2> QED BY <1>1, <2>1, <2>4, <2>5, <2>6 DEF EncoderInv
  <1>4. CASE Commit /\ Kept
    <2>1. /\ turn = "guest" /\ from # -1 /\ ~ lost /\ from' = -1
          /\ left' = IF left # "perhaps" THEN left ELSE "none"
          /\ UNCHANGED <<log, lost, given, gone, held, own, objects, named, ran, missing, turn>>
      BY <1>4 DEF Commit, keptVars, Kept, S!Keep
    <2>2. EncoderTypes' /\ TurnsOK'
      BY <1>1, <2>1 DEF EncoderTypes, TurnsOK
    <2>3. KeptOK'
      BY <1>4, CommitKeeps
    <2> QED BY <1>1, <2>1, <2>2, <2>3 DEF EncoderInv, CountsOK, OfKind
  <1> QED BY <1>2, <1>3, <1>4 DEF Commit

LEMMA TurnSteps ==
  ASSUME EncoderInv, EncoderAssumption,
         EncoderFall \/ EncoderRise \/ HostRun \/ HostDone \/ Aside \/ HostThrows
  PROVE  EncoderInv'
  <1>1. EncoderTypes /\ TurnsOK /\ ~ missing /\ CountsOK
    BY DEF EncoderInv
  <1>2. UNCHANGED <<held, own, objects>>
    BY DEF EncoderFall, EncoderRise, HostRun, HostDone, Aside, BindCanvas, UnbindCanvas, DeviceGoes,
           HostThrows, tableVars
  <1>3. CountsOK'
    BY <1>1, <1>2 DEF CountsOK, OfKind
  <1>4. CASE EncoderFall
    <2>1. EncoderTypes' /\ TurnsOK' /\ missing' = missing
      BY <1>1, <1>4 DEF EncoderFall, tableVars, keptVars, S!Hand, EncoderTypes, TurnsOK
    <2> QED BY <1>1, <1>3, <1>4, <2>1, TurnKeeps DEF EncoderInv
  <1>5. CASE EncoderRise
    <2>1. EncoderTypes' /\ TurnsOK' /\ missing' = missing
      BY <1>1, <1>5 DEF EncoderRise, tableVars, S!Rise, EncoderTypes, TurnsOK
    <2> QED BY <1>1, <1>3, <1>5, <2>1, TurnKeeps DEF EncoderInv
  <1>6. CASE HostDone
    <2>1. EncoderTypes' /\ TurnsOK' /\ missing' = missing
      BY <1>1, <1>6 DEF HostDone, tableVars, streamVars, keptVars, EncoderTypes, TurnsOK
    <2> QED BY <1>1, <1>3, <1>6, <2>1, TurnKeeps DEF EncoderInv
  <1>7. CASE HostRun
    <2>1. PICK rec : rec = given[ran + 1]
      OBVIOUS
    <2>2. /\ turn = "left" /\ ran < Len(given) /\ named' = Ran(named, rec) /\ ran' = ran + 1
          /\ missing' \in BOOLEAN
          /\ UNCHANGED <<held, own, log, from, lost, given, gone, objects, left, turn>>
      BY <1>7, <2>1 DEF HostRun, NextRecord, tableVars, streamVars
    <2>3. rec \in GpuRecord /\ ran' \in 0 .. Len(given)
      BY <1>1, <2>1, <2>2 DEF EncoderTypes
    <2>4. DOMAIN named' \subseteq Slots /\ \A id \in DOMAIN named' : named'[id] \in ObjectKinds
      BY <1>1, <2>2, <2>3, KindsTouch DEF Ran, EncoderTypes
    <2>5. EncoderTypes' /\ TurnsOK'
      BY <1>1, <2>2, <2>3, <2>4 DEF EncoderTypes, TurnsOK
    <2> QED BY <1>3, <1>7, <2>5, RunKeeps DEF EncoderInv
  <1>8. CASE Aside
    <2>1. EncoderTypes' /\ TurnsOK' /\ missing' = missing
      BY <1>1, <1>8 DEF Aside, BindCanvas, UnbindCanvas, DeviceGoes, tableVars, streamVars, EncoderTypes, TurnsOK
    <2> QED BY <1>1, <1>3, <1>8, <2>1, TurnKeeps DEF EncoderInv
  <1>9. CASE HostThrows
    <2>1. EncoderTypes' /\ TurnsOK' /\ ~ missing'
      BY <1>1, <1>9, NextNamed DEF HostThrows, tableVars, streamVars, EncoderTypes, TurnsOK
    <2> QED BY <1>3, <1>9, <2>1, TurnKeeps DEF EncoderInv
  <1> QED BY <1>4, <1>5, <1>6, <1>7, <1>8, <1>9

LEMMA EncoderSteps ==
  ASSUME EncoderInv, EncoderAssumption, [EncoderNext]_encoderVars
  PROVE  EncoderInv'
  <1>1. CASE UNCHANGED encoderVars
    BY <1>1 DEF encoderVars, EncoderInv, EncoderTypes, TurnsOK, KeptOK, HeldWillBe, AskedIsKept,
                OwnIsTouched, EarlierIsHeld, NothingElse, CountsOK, OfKind, ToRun
  <1> QED BY <1>1, MakeSteps, CallSteps, ReleaseSteps, TransactionSteps, TurnSteps DEF EncoderNext, Aside

(***************************************************************************)
(* What the host keeps was named to it; and what was named it keeps, but   *)
(* views, as long as the device stands.                                    *)
(***************************************************************************)
KeepsNamed ==
  /\ DOMAIN host \subseteq DOMAIN named
  /\ ~ emptied =>
       \A id \in DOMAIN named : named[id] \notin Views => id \in DOMAIN host /\ host[id] = named[id]
  /\ canvas \in BOOLEAN /\ emptied \in BOOLEAN

\* A record that throws is of a view, or the device went.
StoppedFor == turn = "stopped" => emptied \/ named[NextRecord.id] \in Views

\* A record puts, or lets go, in both alike, but a view with no canvas.
LEMMA RunKeepsNamed ==
  ASSUME EncoderInv, EncoderAssumption, KeepsNamed, HostRun
  PROVE  KeepsNamed'
  <1>1. PICK r : r = NextRecord
    OBVIOUS
  <1>2. /\ host' = IF IsPut(r) THEN Ran(host, r) ELSE host
        /\ named' = Ran(named, r) /\ canvas' = canvas /\ emptied' = emptied /\ r \in GpuRecord
    BY <1>1, NextNamed DEF HostRun
  <1>3. CASE r.op \in ObjectKinds
    <2>1. /\ DOMAIN named' = DOMAIN named \cup {r.id}
          /\ \A id \in DOMAIN named' : named'[id] = IF id = r.id THEN r.op ELSE named[id]
      BY <1>2, <1>3 DEF Ran
    <2>2. CASE IsPut(r)
      <3>1. /\ DOMAIN host' = DOMAIN host \cup {r.id}
            /\ \A id \in DOMAIN host' : host'[id] = IF id = r.id THEN r.op ELSE host[id]
        BY <1>2, <1>3, <2>2 DEF Ran
      <3> QED BY <1>2, <2>1, <3>1 DEF KeepsNamed
    <2>3. CASE ~ IsPut(r)
      <3>1. host' = host /\ r.op \in Views
        BY <1>2, <2>3 DEF IsPut
      <3> QED BY <1>2, <2>1, <3>1 DEF KeepsNamed
    <2> QED BY <2>2, <2>3
  <1>4. CASE r.op \notin ObjectKinds
    <2>1. IsPut(r)
      BY <1>4 DEF IsPut, ObjectKinds, Passing
    <2>2. CASE r.op = "call"
      <3>1. host' = host /\ named' = named
        BY <1>2, <1>4, <2>1, <2>2 DEF Ran
      <3> QED BY <1>2, <3>1 DEF KeepsNamed
    <2>3. CASE r.op # "call"
      <3>1. /\ DOMAIN host' = DOMAIN host \ {r.id} /\ DOMAIN named' = DOMAIN named \ {r.id}
            /\ \A id \in DOMAIN host' : host'[id] = host[id]
            /\ \A id \in DOMAIN named' : named'[id] = named[id]
        BY <1>2, <1>4, <2>1, <2>3 DEF Ran
      <3> QED BY <1>2, <3>1 DEF KeepsNamed
    <2> QED BY <2>2, <2>3
  <1> QED BY <1>3, <1>4

LEMMA NamedSteps ==
  ASSUME EncoderInv, EncoderAssumption, KeepsNamed, StoppedFor, [EncoderNext]_encoderVars
  PROVE  KeepsNamed' /\ StoppedFor'
  <1>1. CASE HostRun
    <2>1. turn' # "stopped"
      BY <1>1 DEF HostRun
    <2> QED BY <1>1, <2>1, RunKeepsNamed DEF StoppedFor
  <1>2. CASE HostThrows
    <2>1. PICK r : r = NextRecord
      OBVIOUS
    <2>2. /\ UNCHANGED <<host, named, canvas, emptied, given, ran>> /\ Throws(r)
          /\ r \in GpuRecord /\ ~ Unnamed(r) /\ NextRecord' = r
      BY <1>2, <2>1, NextNamed DEF HostThrows, NextRecord, streamVars
    <2>3. r.id \in DOMAIN named
      BY <2>2 DEF Throws, Unnamed
    <2>4. emptied \/ named[r.id] \in Views
      BY <2>2, <2>3 DEF Throws, KeepsNamed
    <2>5. KeepsNamed'
      BY <2>2 DEF KeepsNamed
    <2> QED BY <2>2, <2>4, <2>5 DEF StoppedFor
  <1>3. CASE DeviceGoes
    <2>1. turn' = "host" /\ host' = << >> /\ emptied' = TRUE /\ UNCHANGED <<named, canvas>>
      BY <1>3 DEF DeviceGoes
    <2> QED BY <2>1 DEF KeepsNamed, StoppedFor
  <1>4. CASE BindCanvas \/ UnbindCanvas
    <2>1. turn' = "host" /\ canvas' \in BOOLEAN /\ UNCHANGED <<host, named, emptied>>
      BY <1>4 DEF BindCanvas, UnbindCanvas
    <2> QED BY <2>1 DEF KeepsNamed, StoppedFor
  <1>5. CASE UNCHANGED encoderVars
    BY <1>5 DEF encoderVars, KeepsNamed, StoppedFor, NextRecord
  <1>6. ASSUME UNCHANGED <<host, named, canvas, emptied>>, turn' # "stopped"
        PROVE  KeepsNamed' /\ StoppedFor'
    BY <1>6 DEF KeepsNamed, StoppedFor
  <1>7. ASSUME NEW op \in ObjectKinds, NEW id \in Slots, Make(op, id)
        PROVE  UNCHANGED <<host, named, canvas, emptied>> /\ turn' # "stopped"
    BY <1>7 DEF Make, keptVars
  <1>8. ASSUME NEW id \in Slots, Call(id)
        PROVE  UNCHANGED <<host, named, canvas, emptied>> /\ turn' # "stopped"
    BY <1>8 DEF Call, keptVars
  <1>9. ASSUME NEW op \in {"destroy", "end", "submit"}, NEW id \in Slots, Release(op, id)
        PROVE  UNCHANGED <<host, named, canvas, emptied>> /\ turn' # "stopped"
    BY <1>9 DEF Release, LetGo, keptVars
  <1>10. ASSUME BeginRecords \/ Commit \/ EncoderFall \/ EncoderRise \/ HostDone
         PROVE  UNCHANGED <<host, named, canvas, emptied>> /\ turn' # "stopped"
    BY <1>10 DEF BeginRecords, Commit, EncoderFall, EncoderRise, HostDone, keptVars
  <1> QED BY <1>1, <1>2, <1>3, <1>4, <1>5, <1>6, <1>7, <1>8, <1>9, <1>10 DEF EncoderNext

LEMMA EncoderHolds ==
  ASSUME EncoderAssumption
  PROVE  EncoderSpec => [](EncoderInv /\ KeepsNamed /\ StoppedFor)
  <1>1. EncoderInit => EncoderInv
    BY EncoderStarts
  <1>2. EncoderInit => KeepsNamed /\ StoppedFor
    BY DEF EncoderInit, KeepsNamed, StoppedFor
  <1>3. EncoderInv /\ [EncoderNext]_encoderVars => EncoderInv'
    BY EncoderSteps
  <1>4. EncoderInv /\ KeepsNamed /\ StoppedFor /\ [EncoderNext]_encoderVars => KeepsNamed' /\ StoppedFor'
    BY NamedSteps
  <1> QED BY <1>1, <1>2, <1>3, <1>4, PTL DEF EncoderSpec

\* What the invariant says once the host has run the turn's records.
LEMMA PaceKept ==
  ASSUME EncoderAssumption, EncoderInv, KeepsNamed, StoppedFor
  PROVE  HostKeepsPace
  <1>1. EncoderTypes /\ CountsOK /\ ~ missing
    BY DEF EncoderInv
  <1>2. EncoderTypeOK
    <2>1. objects \in [Lasting -> 0 .. Cardinality(Slots)]
      BY <1>1, KindsFinite DEF CountsOK
    <2> QED BY <1>1, <2>1 DEF EncoderTypes, KeepsNamed, EncoderTypeOK
  <1>3. CountsAgree
    BY <1>1 DEF CountsOK, CountsAgree, OfKind
  <1>4. ASSUME turn = "host"
        PROVE  /\ \A id \in DOMAIN held : id \in DOMAIN named /\ named[id] = held[id]
               /\ left = "none" => DOMAIN named \subseteq DOMAIN held
    <2>1. PICK L : L = Len(given)
      OBVIOUS
    <2>2. ToRun = given /\ ran = L /\ from = -1 /\ L \in Nat /\ Len(ToRun) = L
      BY <1>1, <1>4, <2>1 DEF ToRun, EncoderInv, TurnsOK, EncoderTypes
    <2>3. ASSUME NEW id, NEW op
          PROVE  Will(given, L, named, L + 1, id, op) <=> id \in DOMAIN named /\ named[id] = op
      BY <2>2, WillNow
    <2>4. ASSUME NEW id \in DOMAIN held PROVE id \in DOMAIN named /\ named[id] = held[id]
      BY <2>2, <2>3 DEF EncoderInv, KeptOK, HeldWillBe
    <2>5. ASSUME left = "none", NEW id \in DOMAIN named PROVE id \in DOMAIN held
      <3>1. id \in Slots /\ named[id] \in ObjectKinds
        BY <1>1 DEF EncoderTypes
      <3>2. Will(given, L, named, L + 1, id, named[id])
        BY <2>3
      <3> QED BY <2>2, <2>5, <3>1, <3>2 DEF EncoderInv, KeptOK, NothingElse
    <2> QED BY <2>4, <2>5
  <1>5. HostKnowsHeld /\ HostKeepsOnlyHeld
    BY <1>1, <1>4 DEF KeepsNamed, StoppedFor, HostKnowsHeld, HostKeepsOnlyHeld
  <1> QED BY <1>2, <1>3, <1>5 DEF HostKeepsPace

(***************************************************************************)
(* However transactions are dropped and canvases let go, no record of a    *)
(* turn is of an object not named to the host; once its records have run,  *)
(* what the guest holds the host keeps under that name, but for views and  *)
(* a device that went, and nothing else where only what a dropped          *)
(* transaction made was let go in it; a record throws for no other reason; *)
(* and the counts are the table's (gpu/encode.hpp, ts gpu/host.ts).        *)
(***************************************************************************)
THEOREM KeepsPace ==
  ASSUME EncoderAssumption
  PROVE  EncoderSpec => []HostKeepsPace
  <1>1. EncoderInv /\ KeepsNamed /\ StoppedFor => HostKeepsPace
    BY PaceKept
  <1>2. EncoderSpec => [](EncoderInv /\ KeepsNamed /\ StoppedFor)
    BY EncoderHolds
  <1> QED BY <1>1, <1>2, PTL
-----------------------------------------------------------------------------
(***************************************************************************)
(* What an ask passes through: the turn's records, then the host's list of *)
(* its kind.  A record that asks, and the tickets at each place.           *)
(***************************************************************************)
TicketsOf(s) == {s[i].t : i \in DOMAIN s}
Distinct(s)  == \A i, j \in DOMAIN s : s[i].t = s[j].t => i = j
Among(u, s)  == \A i \in DOMAIN u : \E j \in DOMAIN s : u[i] = s[j]

Asked(i) == records[i].op \in Kinds
Unrun    == {records[i].t : i \in {j \in DOMAIN records : Asked(j)}}
Pended   == TicketsOf(pending)
Decoded  == TicketsOf(decoding)

\* What a turn's records may be, and what the host keeps of them.
DeviceRecs  == [op : {"device"}]
TextureRecs == [op : {"texture"}, to : 0 .. MaxTextures]
DestroyRecs == [op : {"destroy"}]
AskRecs     == [op : Kinds, t : Tickets]
Recs        == DeviceRecs \cup TextureRecs \cup DestroyRecs \cup AskRecs
Pendings    == [kind : {"done", "map"}, t : Tickets, state : {"waiting", "answered", "refused"}]
Decodings   == [job : Nat, to : 0 .. MaxTextures, t : Tickets]
JobAnswers  == [job : Nat, ok : BOOLEAN]

(***************************************************************************)
(* The inductive invariant.  Each ask is at one place, of a word that      *)
(* names it, if one does, of its own kind and not done; a mapping's word   *)
(* names no other.  Until the device is asked for nothing else is.         *)
(***************************************************************************)
GuestTypes ==
  /\ status \in {"none", "ready", "lost"}
  /\ texture \in 0 .. MaxTextures /\ textures \in 0 .. MaxTextures
  /\ ticket \in 0 .. MaxAsks
  /\ word \in [Kinds -> [t : {0} \cup Tickets, done : BOOLEAN]]
  /\ want \in [Kinds -> {0} \cup Tickets]
  /\ records \in Seq(Recs) /\ Len(records) <= MostOps

HostTypes ==
  /\ object \in 0 .. MaxTextures
  /\ work \in Nat /\ finished \in Nat /\ finished <= work
  /\ pending \in Seq(Pendings)
  /\ decoding \in Seq(Decodings)
  /\ next \in Nat
  /\ jobs \in Seq(Nat) /\ answers \in Seq(JobAnswers)
  /\ due \in [Tickets -> Nat]
  /\ landed \in [Tickets -> Nat]
  /\ ended \in [Tickets -> {"no", "left", "lost"}]

LoopTypes ==
  /\ stage \in Stages
  /\ toPoll \in 0 .. Len(pending)
  /\ toPoll # 0 => stage = "polls"
  /\ calling \subseteq {"wgpu", "decoder"}

Waits(t, kind) == t <= ticket /\ \A k \in Kinds : want[k] = t => k = kind /\ ~ word[k].done

AskOK(r) ==
  /\ Waits(r.t, r.op)
  /\ landed[r.t] = 0
  /\ r.t \notin Pended \cup Decoded
  /\ r.op = "map" => want["map"] = r.t

RecordsOK ==
  /\ stage \in {"idle", "polls"} => records = <<>>
  /\ \A i \in DOMAIN records : records[i].op = "device" <=> i = 1 /\ status = "none"
  /\ \A i, j \in DOMAIN records : Asked(i) /\ Asked(j) /\ records[i].t = records[j].t => i = j
  /\ \A i \in DOMAIN records : Asked(i) => AskOK(records[i])

PendOK(p) ==
  /\ Waits(p.t, p.kind)
  /\ p.t \notin Decoded
  /\ p.kind = "map" => want["map"] = p.t
  /\ p.state = "answered" => due[p.t] <= finished
  /\ status # "none"

PendingOK == Distinct(pending) /\ \A i \in DOMAIN pending : PendOK(pending[i])

DecOK(d) ==
  /\ Waits(d.t, "image")
  /\ d.job = due[d.t] /\ d.job < next
  /\ status # "none"

DecodingOK == Distinct(decoding) /\ \A i \in DOMAIN decoding : DecOK(decoding[i])

WordsOK ==
  /\ \A k \in Kinds : word[k].t = want[k] /\ want[k] <= ticket /\ (word[k].done => want[k] # 0)
  /\ \A k, l \in Kinds : want[k] = want[l] /\ want[k] # 0 => k = l
  /\ \A t \in Tickets : t > ticket => landed[t] = 0

JobsOK ==
  /\ \A i \in DOMAIN jobs : jobs[i] < next
  /\ \A i \in DOMAIN answers : answers[i].job < next

HeldOpen == texture # 0 => DeviceAsked

AnswersInv ==
  /\ GuestTypes /\ HostTypes /\ LoopTypes
  /\ RecordsOK /\ HeldOpen
  /\ PendingOK
  /\ DecodingOK
  /\ WordsOK
  /\ JobsOK
  /\ DoneIsTrue
  /\ ImageInPlace
  /\ NothingForgotten
  /\ WakeFollows
-----------------------------------------------------------------------------
(***************************************************************************)
(* A sequence of asks as one is put to its end, taken from its head, or    *)
(* turned from its head to its end.                                        *)
(***************************************************************************)
LEMMA AtEnd ==
  ASSUME NEW Vals, NEW s \in Seq(Vals), NEW e, NEW u, u = Append(s, e)
  PROVE  /\ Len(s) \in Nat /\ Len(u) = Len(s) + 1
         /\ \A i \in DOMAIN u : (i \in DOMAIN s /\ u[i] = s[i]) \/ (i = Len(s) + 1 /\ u[i] = e)
         /\ \A i \in DOMAIN s : i \in DOMAIN u /\ u[i] = s[i] /\ i # Len(s) + 1
         /\ Len(s) + 1 \in DOMAIN u /\ u[Len(s) + 1] = e
  OBVIOUS

LEMMA FromHead ==
  ASSUME NEW Vals, NEW s \in Seq(Vals), s # <<>>, NEW u, u = Tail(s)
  PROVE  /\ u \in Seq(Vals) /\ Len(s) \in Nat \ {0} /\ Len(u) = Len(s) - 1
         /\ Head(s) = s[1] /\ 1 \in DOMAIN s /\ Head(s) \in Vals
         /\ \A i \in DOMAIN u : i \in Nat \ {0} /\ i + 1 \in DOMAIN s /\ u[i] = s[i + 1]
         /\ \A i \in DOMAIN s \ {1} : i - 1 \in DOMAIN u /\ u[i - 1] = s[i]
  <1>1. /\ u \in Seq(Vals) /\ Len(s) \in Nat \ {0} /\ Len(u) = Len(s) - 1
        /\ Head(s) = s[1] /\ 1 \in DOMAIN s /\ Head(s) \in Vals
        /\ \A i \in DOMAIN u : i \in Nat \ {0} /\ i + 1 \in DOMAIN s /\ u[i] = s[i + 1]
    OBVIOUS
  <1>2. ASSUME NEW i \in DOMAIN s \ {1} PROVE i - 1 \in DOMAIN u /\ u[i - 1] = s[i]
    <2>1. i - 1 \in DOMAIN u /\ (i - 1) + 1 = i
      BY <1>1
    <2> QED BY <1>1, <2>1
  <1> QED BY <1>1, <1>2

Puts(u, s, e) ==
  /\ \A i \in DOMAIN u : (i \in DOMAIN s /\ u[i] = s[i]) \/ (i = Len(s) + 1 /\ u[i] = e)
  /\ \A i \in DOMAIN s : i \in DOMAIN u /\ u[i] = s[i] /\ i # Len(s) + 1
  /\ Len(s) + 1 \in DOMAIN u /\ u[Len(s) + 1] = e

LEMMA PutAtEnd ==
  ASSUME NEW Vals, NEW s \in Seq(Vals), NEW e, NEW u, u = Append(s, e)
  PROVE  Puts(u, s, e)
  BY AtEnd DEF Puts

LEMMA TicketsPut ==
  ASSUME NEW s, NEW e, NEW u, Puts(u, s, e), Distinct(s), e.t \notin TicketsOf(s)
  PROVE  /\ Distinct(u) /\ TicketsOf(u) = TicketsOf(s) \cup {e.t}
         /\ \A i \in DOMAIN u : u[i] = e \/ \E j \in DOMAIN s : u[i] = s[j]
  <1>1. Distinct(u)
    BY DEF Puts, Distinct, TicketsOf
  <1>2. TicketsOf(u) \subseteq TicketsOf(s) \cup {e.t}
    BY DEF Puts, TicketsOf
  <1>3. TicketsOf(s) \cup {e.t} \subseteq TicketsOf(u)
    BY DEF Puts, TicketsOf
  <1> QED BY <1>1, <1>2, <1>3 DEF Puts

LEMMA TicketsTail ==
  ASSUME NEW Vals, NEW s \in Seq(Vals), s # <<>>, Distinct(s), NEW u, u = Tail(s)
  PROVE  /\ Distinct(u) /\ TicketsOf(u) = TicketsOf(s) \ {Head(s).t} /\ Among(u, s)
         /\ Head(s).t \in TicketsOf(s) /\ \E j \in DOMAIN s : Head(s) = s[j]
  <1>1. /\ Head(s) = s[1] /\ 1 \in DOMAIN s
        /\ \A i \in DOMAIN u : i \in Nat \ {0} /\ i + 1 \in DOMAIN s /\ u[i] = s[i + 1]
        /\ \A i \in DOMAIN s \ {1} : i - 1 \in DOMAIN u /\ u[i - 1] = s[i]
    BY FromHead
  <1>2. Among(u, s)
    BY <1>1 DEF Among
  <1>3. Distinct(u)
    <2>1. ASSUME NEW i \in DOMAIN u, NEW j \in DOMAIN u, u[i].t = u[j].t PROVE i = j
      <3>1. i + 1 = j + 1
        BY <1>1, <2>1 DEF Distinct
      <3> QED BY <1>1, <3>1
    <2> QED BY <2>1 DEF Distinct
  <1>4. ASSUME NEW i \in DOMAIN u PROVE u[i].t # Head(s).t
    <2>1. i + 1 \in DOMAIN s /\ i + 1 # 1 /\ u[i] = s[i + 1]
      BY <1>1
    <2> QED BY <1>1, <2>1 DEF Distinct
  <1>5. TicketsOf(u) \subseteq TicketsOf(s) \ {Head(s).t}
    BY <1>1, <1>4 DEF TicketsOf
  <1>6. ASSUME NEW i \in DOMAIN s, s[i].t # Head(s).t PROVE s[i].t \in TicketsOf(u)
    <2>1. i \in DOMAIN s \ {1}
      BY <1>1, <1>6
    <2> QED BY <1>1, <2>1 DEF TicketsOf
  <1>7. TicketsOf(s) \ {Head(s).t} \subseteq TicketsOf(u)
    BY <1>6 DEF TicketsOf
  <1>8. Head(s).t \in TicketsOf(s)
    BY <1>1 DEF TicketsOf
  <1> QED BY <1>1, <1>2, <1>3, <1>5, <1>7, <1>8

LEMMA TicketsTurn ==
  ASSUME NEW Vals, NEW s \in Seq(Vals), s # <<>>, Distinct(s), NEW u, u = Append(Tail(s), Head(s))
  PROVE  /\ u \in Seq(Vals) /\ Len(u) = Len(s)
         /\ Distinct(u) /\ TicketsOf(u) = TicketsOf(s) /\ Among(u, s)
  <1>1. PICK v : v = Tail(s)
    OBVIOUS
  <1>2. PICK h : h = Head(s)
    OBVIOUS
  <1>3. v \in Seq(Vals) /\ h \in Vals /\ u \in Seq(Vals) /\ Len(u) = Len(s) /\ u = Append(v, h)
    BY <1>1, <1>2
  <1>4. /\ Distinct(v) /\ TicketsOf(v) = TicketsOf(s) \ {h.t} /\ Among(v, s)
        /\ h.t \in TicketsOf(s) /\ \E j \in DOMAIN s : h = s[j]
    BY <1>1, <1>2, TicketsTail
  <1>5. h.t \notin TicketsOf(v)
    BY <1>4
  <1>6. /\ Distinct(u) /\ TicketsOf(u) = TicketsOf(v) \cup {h.t}
        /\ \A i \in DOMAIN u : u[i] = h \/ \E j \in DOMAIN v : u[i] = v[j]
    <2>1. Puts(u, v, h)
      BY <1>3, PutAtEnd
    <2>2. Distinct(v)
      BY <1>4
    <2>3. Distinct(u)
      BY <1>5, <2>1, <2>2, TicketsPut
    <2>4. TicketsOf(u) = TicketsOf(v) \cup {h.t}
      BY <1>5, <2>1, <2>2, TicketsPut
    <2>5. \A i \in DOMAIN u : u[i] = h \/ \E j \in DOMAIN v : u[i] = v[j]
      BY <2>1 DEF Puts
    <2> QED BY <2>3, <2>4, <2>5
  <1>7. Among(u, s)
    BY <1>4, <1>6 DEF Among
  <1> QED BY <1>3, <1>4, <1>6, <1>7
-----------------------------------------------------------------------------
LEMMA InitAnswers ==
  ASSUME AnswersAssumption, AnswersInit
  PROVE  AnswersInv
  <1>1. MaxAsks \in Nat /\ MaxTextures \in Nat /\ MostOps \in Nat
    BY DEF AnswersAssumption
  <1>2. /\ records = <<>> /\ pending = <<>> /\ decoding = <<>> /\ jobs = <<>> /\ answers = <<>>
        /\ Len(records) = 0 /\ Len(pending) = 0
        /\ DOMAIN records = {} /\ DOMAIN pending = {} /\ DOMAIN decoding = {}
        /\ DOMAIN jobs = {} /\ DOMAIN answers = {}
    BY DEF AnswersInit
  <1>3. \A k \in Kinds : word[k] = Blank /\ word[k].t = 0 /\ word[k].done = FALSE /\ want[k] = 0
    BY DEF AnswersInit, Blank
  <1>4. GuestTypes
    <2>1. word \in [Kinds -> [t : {0} \cup Tickets, done : BOOLEAN]]
      BY DEF AnswersInit, Blank
    <2> QED BY <1>1, <1>2, <2>1 DEF AnswersInit, GuestTypes
  <1>5. HostTypes
    BY <1>1, <1>2 DEF AnswersInit, HostTypes
  <1>6. LoopTypes
    BY <1>2 DEF AnswersInit, LoopTypes, Stages
  <1>7. RecordsOK /\ PendingOK /\ DecodingOK /\ JobsOK /\ HeldOpen
    BY <1>2 DEF RecordsOK, PendingOK, DecodingOK, JobsOK, Distinct, HeldOpen, AnswersInit
  <1>8. WordsOK /\ DoneIsTrue /\ NothingForgotten
    BY <1>1, <1>3 DEF WordsOK, DoneIsTrue, NothingForgotten, AnswersInit
  <1>9. ImageInPlace
    BY DEF AnswersInit, ImageInPlace
  <1>10. WakeFollows
    BY <1>2 DEF AnswersInit, WakeFollows
  <1> QED BY <1>4, <1>5, <1>6, <1>7, <1>8, <1>9, <1>10 DEF AnswersInv
-----------------------------------------------------------------------------
(***************************************************************************)
(* Other threads: none of them changes what is asked and where it is.      *)
(***************************************************************************)
LEMMA FinishSteps ==
  ASSUME AnswersInv, DeviceFinishes
  PROVE  AnswersInv'
  <1>1. /\ finished' = finished + 1 /\ finished < work
        /\ UNCHANGED <<stage, toPoll, turnAsked, status, texture, textures, ticket, word, records, object, work, pending,
                       decoding, next, jobs, answers, deviceGone, calling, want, due, landed, ended>>
    BY DEF DeviceFinishes, Elsewhere, guestVars, pastVars
  <1>2. work \in Nat /\ finished \in Nat /\ due \in [Tickets -> Nat] /\ finished <= finished'
    BY <1>1 DEF AnswersInv, HostTypes
  <1>3. Pended' = Pended /\ Decoded' = Decoded /\ Asks' = Asks
    BY <1>1 DEF Pended, Decoded, Asks
  <1>4. GuestTypes' /\ LoopTypes'
    BY <1>1 DEF AnswersInv, GuestTypes, LoopTypes
  <1>5. HostTypes'
    BY <1>1, <1>2 DEF AnswersInv, HostTypes
  <1>6. \A t, kind : Waits(t, kind)' <=> Waits(t, kind)
    BY <1>1 DEF Waits
  <1>7. RecordsOK' /\ HeldOpen'
    BY <1>1, <1>3, <1>6 DEF AnswersInv, RecordsOK, AskOK, Asked, HeldOpen, DeviceAsked
  <1>8. PendingOK'
    <2>1. ASSUME NEW i \in DOMAIN pending PROVE PendOK(pending[i])'
      <3>1. PendOK(pending[i])
        BY DEF AnswersInv, PendingOK
      <3>2. pending[i] \in Pendings
        BY DEF AnswersInv, HostTypes
      <3>3. due[pending[i].t] \in Nat
        BY <1>2, <3>2 DEF Pendings
      <3> QED BY <1>1, <1>2, <1>3, <1>6, <3>1, <3>3 DEF PendOK
    <2> QED BY <1>1, <2>1 DEF AnswersInv, PendingOK
  <1>9. DecodingOK' /\ WordsOK' /\ JobsOK'
    BY <1>1, <1>6 DEF AnswersInv, DecodingOK, DecOK, WordsOK, JobsOK
  <1>10. DoneIsTrue'
    <2>1. ASSUME NEW k \in Kinds, word[k].done PROVE due[want[k]] \in Nat
      <3>1. want[k] \in Tickets
        BY <2>1 DEF AnswersInv, WordsOK, GuestTypes
      <3> QED BY <1>2, <3>1
    <2> QED BY <1>1, <1>2, <2>1 DEF AnswersInv, DoneIsTrue
  <1>11. ImageInPlace' /\ NothingForgotten' /\ WakeFollows'
    BY <1>1, <1>3 DEF AnswersInv, ImageInPlace, NothingForgotten, WakeFollows, CameBack
  <1> QED BY <1>4, <1>5, <1>7, <1>8, <1>9, <1>10, <1>11 DEF AnswersInv

LEMMA AnswerSteps ==
  ASSUME AnswersInv, NEW i \in DOMAIN pending, NEW st \in {"answered", "refused"}, CallBack(i, st)
  PROVE  AnswersInv'
  <1>1. /\ pending[i].state = "waiting"
        /\ st = "answered" => finished >= due[pending[i].t]
        /\ pending' = [pending EXCEPT ![i].state = st]
        /\ UNCHANGED <<stage, toPoll, turnAsked, status, texture, textures, ticket, word, records, object, work, finished,
                       decoding, next, jobs, answers, deviceGone, calling, want, due, landed, ended>>
    BY DEF CallBack, Elsewhere, guestVars, pastVars
  <1>2. pending \in Seq(Pendings) /\ toPoll \in 0 .. Len(pending)
    BY DEF AnswersInv, HostTypes, LoopTypes
  <1>3. \A j \in DOMAIN pending : pending[j] \in Pendings
    BY <1>2
  <1>4. /\ DOMAIN pending' = DOMAIN pending /\ Len(pending') = Len(pending)
        /\ \A j \in DOMAIN pending : j # i => pending'[j] = pending[j]
        /\ pending'[i] = [pending[i] EXCEPT !.state = st]
    BY <1>1, <1>2
  <1>5. /\ pending'[i] \in Pendings /\ pending'[i].t = pending[i].t
        /\ pending'[i].kind = pending[i].kind /\ pending'[i].state = st
    BY <1>3, <1>4 DEF Pendings
  <1>6. \A j \in DOMAIN pending : pending'[j] \in Pendings /\ pending'[j].t = pending[j].t
    BY <1>3, <1>4, <1>5
  <1>7. pending' \in Seq(Pendings)
    BY <1>1, <1>2, <1>4, <1>6
  <1>8. Pended' = Pended /\ Decoded' = Decoded /\ Asks' = Asks
    BY <1>1, <1>4, <1>6 DEF Pended, Decoded, TicketsOf, Asks
  <1>9. GuestTypes' /\ HostTypes' /\ LoopTypes'
    BY <1>1, <1>4, <1>7 DEF AnswersInv, GuestTypes, HostTypes, LoopTypes
  <1>10. \A t, kind : Waits(t, kind)' <=> Waits(t, kind)
    BY <1>1 DEF Waits
  <1>11. RecordsOK' /\ HeldOpen'
    BY <1>1, <1>8, <1>10 DEF AnswersInv, RecordsOK, AskOK, Asked, HeldOpen, DeviceAsked
  <1>12. PendingOK'
    <2>1. Distinct(pending)'
      BY <1>4, <1>6 DEF AnswersInv, PendingOK, Distinct
    <2>2. ASSUME NEW j \in DOMAIN pending PROVE PendOK(pending[j])'
      <3>1. PendOK(pending[j])
        BY DEF AnswersInv, PendingOK
      <3>2. CASE j = i
        BY <1>1, <1>5, <1>8, <1>10, <3>1, <3>2 DEF PendOK
      <3>3. CASE j # i
        BY <1>1, <1>4, <1>8, <1>10, <3>1, <3>3 DEF PendOK
      <3> QED BY <3>2, <3>3
    <2> QED BY <1>4, <2>1, <2>2 DEF PendingOK
  <1>13. DecodingOK' /\ WordsOK' /\ JobsOK'
    BY <1>1, <1>10 DEF AnswersInv, DecodingOK, DecOK, WordsOK, JobsOK
  <1>14. DoneIsTrue' /\ ImageInPlace' /\ NothingForgotten' /\ WakeFollows'
    BY <1>1, <1>8 DEF AnswersInv, DoneIsTrue, ImageInPlace, NothingForgotten, WakeFollows, CameBack
  <1> QED BY <1>9, <1>11, <1>12, <1>13, <1>14 DEF AnswersInv

\* Of the answers, only the wakes, what the decoder was sent and what it sent change.
LEMMA CallsSteps ==
  ASSUME AnswersInv, UNCHANGED <<finished, pending>>, Elsewhere,
         calling' \subseteq {"wgpu", "decoder"},
         jobs' \in Seq(Nat), answers' \in Seq(JobAnswers), JobsOK', WakeFollows'
  PROVE  AnswersInv'
  <1>1. UNCHANGED <<stage, toPoll, status, texture, textures, ticket, word, records, object, work, finished, pending,
                    decoding, next, want, due, landed, ended>>
    BY DEF Elsewhere, guestVars, pastVars
  <1>2. Pended' = Pended /\ Decoded' = Decoded /\ Asks' = Asks
    BY <1>1 DEF Pended, Decoded, Asks
  <1>3. GuestTypes' /\ HostTypes' /\ LoopTypes'
    BY <1>1 DEF AnswersInv, GuestTypes, HostTypes, LoopTypes
  <1>4. \A t, kind : Waits(t, kind)' <=> Waits(t, kind)
    BY <1>1 DEF Waits
  <1>5. RecordsOK' /\ HeldOpen'
    BY <1>1, <1>2, <1>4 DEF AnswersInv, RecordsOK, AskOK, Asked, HeldOpen, DeviceAsked
  <1>6. PendingOK'
    BY <1>1, <1>2, <1>4 DEF AnswersInv, PendingOK, PendOK
  <1>7. DecodingOK' /\ WordsOK'
    BY <1>1, <1>4 DEF AnswersInv, DecodingOK, DecOK, WordsOK
  <1>8. DoneIsTrue' /\ ImageInPlace' /\ NothingForgotten'
    BY <1>1, <1>2 DEF AnswersInv, DoneIsTrue, ImageInPlace, NothingForgotten
  <1> QED BY <1>3, <1>5, <1>6, <1>7, <1>8 DEF AnswersInv

LEMMA LossSteps ==
  ASSUME AnswersInv, DeviceLost
  PROVE  AnswersInv'
  <1>1. /\ calling' = calling \cup {"wgpu"}
        /\ UNCHANGED <<turnAsked, finished, pending, jobs, answers, stage, next, decoding>> /\ Elsewhere
    BY DEF DeviceLost, Elsewhere
  <1>2. /\ calling \subseteq {"wgpu", "decoder"} /\ jobs \in Seq(Nat) /\ answers \in Seq(JobAnswers)
        /\ JobsOK /\ WakeFollows
    BY DEF AnswersInv, LoopTypes, HostTypes
  <1>3. JobsOK' /\ WakeFollows'
    BY <1>1, <1>2 DEF JobsOK, WakeFollows, CameBack
  <1> QED BY <1>1, <1>2, <1>3, CallsSteps

LEMMA DecodeSteps ==
  ASSUME AnswersInv, NEW ok \in BOOLEAN, Decode(ok)
  PROVE  AnswersInv'
  <1>1. /\ jobs # <<>> /\ jobs' = Tail(jobs)
        /\ answers' = Append(answers, [job |-> Head(jobs), ok |-> ok])
        /\ calling' = calling \cup {"decoder"}
        /\ UNCHANGED <<turnAsked, finished, pending, deviceGone, stage, next, decoding>> /\ Elsewhere
    BY DEF Decode, Elsewhere
  <1>2. /\ calling \subseteq {"wgpu", "decoder"} /\ jobs \in Seq(Nat) /\ answers \in Seq(JobAnswers)
        /\ JobsOK /\ WakeFollows
    BY DEF AnswersInv, LoopTypes, HostTypes
  <1>3. PICK a : a = [job |-> Head(jobs), ok |-> ok]
    OBVIOUS
  <1>4. /\ jobs' \in Seq(Nat) /\ 1 \in DOMAIN jobs /\ Head(jobs) = jobs[1] /\ Head(jobs) \in Nat
        /\ \A i \in DOMAIN jobs' : i + 1 \in DOMAIN jobs /\ jobs'[i] = jobs[i + 1]
    BY <1>1, <1>2, FromHead
  <1>5. a \in JobAnswers /\ a.job = jobs[1] /\ answers' = Append(answers, a)
    BY <1>1, <1>3, <1>4 DEF JobAnswers
  <1>6. /\ answers' \in Seq(JobAnswers)
        /\ \A i \in DOMAIN answers' : (i \in DOMAIN answers /\ answers'[i] = answers[i]) \/ answers'[i] = a
    BY <1>2, <1>5, AtEnd
  <1>7. JobsOK'
    <2>1. \A i \in DOMAIN jobs' : jobs'[i] < next
      BY <1>2, <1>4 DEF JobsOK
    <2>2. \A i \in DOMAIN answers' : answers'[i].job < next
      BY <1>2, <1>4, <1>5, <1>6 DEF JobsOK
    <2> QED BY <1>1, <2>1, <2>2 DEF JobsOK
  <1>8. WakeFollows'
    BY <1>1, <1>2 DEF WakeFollows
  <1> QED BY <1>1, <1>2, <1>4, <1>6, <1>7, <1>8, CallsSteps

LEMMA WakeSteps ==
  ASSUME AnswersInv, NEW by, Wake(by)
  PROVE  AnswersInv'
  <1>1. /\ calling' = calling \ {by} /\ turnAsked' = TRUE
        /\ UNCHANGED <<finished, pending, jobs, answers, next>> /\ Elsewhere
    BY DEF Wake, Elsewhere
  <1>2. /\ calling \subseteq {"wgpu", "decoder"} /\ jobs \in Seq(Nat) /\ answers \in Seq(JobAnswers)
        /\ JobsOK
    BY DEF AnswersInv, LoopTypes, HostTypes
  <1>3. JobsOK' /\ WakeFollows'
    BY <1>1, <1>2 DEF JobsOK, WakeFollows
  <1> QED BY <1>1, <1>2, <1>3, CallsSteps
-----------------------------------------------------------------------------
(***************************************************************************)
(* The guest's turn.  A record put that asks nothing changes no word; one  *)
(* that asks has a new ticket, which nothing names yet.                    *)
(***************************************************************************)
LEMMA AsksAre ==
  /\ Asks = Unrun \cup Pended \cup Decoded
  /\ Asks' = Unrun' \cup Pended' \cup Decoded'
  BY DEF Asks, Unrun, Pended, Decoded, TicketsOf, Asked

LEMMA PutRecord ==
  ASSUME AnswersAssumption, AnswersInv, NEW r \in Recs, Records(r)
  PROVE  /\ stage = "guest" /\ records' \in Seq(Recs) /\ Len(records') <= MostOps
         /\ \A i \in DOMAIN records' : \/ i \in DOMAIN records /\ records'[i] = records[i]
                                       \/ i = Len(records) + 1 /\ records'[i] = r
         /\ Len(records) \in Nat
         /\ \A i \in DOMAIN records : i \in DOMAIN records' /\ records'[i] = records[i] /\ i # Len(records) + 1
         /\ Len(records) + 1 \in DOMAIN records' /\ records'[Len(records) + 1] = r
         /\ UNCHANGED <<stage, toPoll, turnAsked, finished, answers, deviceGone, calling>>
         /\ UNCHANGED <<object, work, pending, decoding, next, jobs, due, landed, ended>>
  <1>1. /\ stage = "guest" /\ Len(records) < MostOps /\ records' = Append(records, r)
        /\ UNCHANGED <<stage, toPoll, turnAsked, finished, answers, deviceGone, calling>>
        /\ UNCHANGED <<object, work, pending, decoding, next, jobs, due, landed, ended>>
    BY DEF Records, hostVars, pastVars
  <1>2. records \in Seq(Recs)
    BY DEF AnswersInv, GuestTypes
  <1>3. /\ Len(records) \in Nat /\ Len(records') = Len(records) + 1
        /\ \A i \in DOMAIN records' : \/ i \in DOMAIN records /\ records'[i] = records[i]
                                      \/ i = Len(records) + 1 /\ records'[i] = r
        /\ \A i \in DOMAIN records : i \in DOMAIN records' /\ records'[i] = records[i] /\ i # Len(records) + 1
        /\ Len(records) + 1 \in DOMAIN records' /\ records'[Len(records) + 1] = r
    BY <1>1, <1>2, AtEnd
  <1>4. records' \in Seq(Recs)
    BY <1>1, <1>2
  <1>5. Len(records') <= MostOps
    BY <1>1, <1>3 DEF AnswersAssumption
  <1> QED BY <1>1, <1>3, <1>4, <1>5

\* The device's record comes first, and only where there is no block.
LEMMA DeviceFirst ==
  ASSUME AnswersAssumption, AnswersInv, NEW r \in Recs, Records(r), r.op = "device" <=> ~ DeviceAsked
  PROVE  \A i \in DOMAIN records' : records'[i].op = "device" <=> i = 1 /\ status = "none"
  <1>1. \A i \in DOMAIN records : records[i].op = "device" <=> i = 1 /\ status = "none"
    BY DEF AnswersInv, RecordsOK
  <1>2. ASSUME NEW i \in DOMAIN records' PROVE records'[i].op = "device" <=> i = 1 /\ status = "none"
    <2>1. CASE i \in DOMAIN records /\ records'[i] = records[i]
      BY <1>1, <2>1
    <2>2. CASE i = Len(records) + 1 /\ records'[i] = r
      <3>1. Len(records) \in Nat /\ DOMAIN records = 1 .. Len(records)
        BY DEF AnswersInv, GuestTypes
      <3>2. CASE DeviceAsked
        <4>1. status # "none" \/ 1 \in DOMAIN records
          BY <1>1, <3>2 DEF DeviceAsked
        <4> QED BY <2>2, <3>1, <3>2, <4>1
      <3>3. CASE ~ DeviceAsked
        <4>1. status = "none" /\ 1 \notin DOMAIN records
          BY <1>1, <3>3 DEF DeviceAsked
        <4> QED BY <2>2, <3>1, <3>3, <4>1
      <3> QED BY <3>2, <3>3
    <2> QED BY <2>1, <2>2, PutRecord
  <1> QED BY <1>2

LEMMA SilentSteps ==
  ASSUME AnswersAssumption, AnswersInv, NEW r \in Recs, r.op \notin Kinds, Records(r), r.op = "device" <=> ~ DeviceAsked,
         texture' \in 0 .. MaxTextures, textures' \in 0 .. MaxTextures, texture' # 0 => DeviceAsked,
         UNCHANGED <<status, ticket, word, want>>
  PROVE  AnswersInv'
  <1>1. /\ stage = "guest" /\ records' \in Seq(Recs) /\ Len(records') <= MostOps
        /\ \A i \in DOMAIN records' : \/ i \in DOMAIN records /\ records'[i] = records[i]
                                      \/ i = Len(records) + 1 /\ records'[i] = r
        /\ \A i \in DOMAIN records : i \in DOMAIN records' /\ records'[i] = records[i] /\ i # Len(records) + 1
        /\ UNCHANGED <<stage, toPoll, turnAsked, finished, answers, deviceGone, calling>>
        /\ UNCHANGED <<object, work, pending, decoding, next, jobs, due, landed, ended>>
    BY PutRecord
  <1>2. \A i \in DOMAIN records' : Asked(i)' => i \in DOMAIN records /\ records'[i] = records[i] /\ Asked(i)
    BY <1>1 DEF Asked
  <1>3. Unrun' = Unrun
    BY <1>1, <1>2 DEF Unrun, Asked
  <1>4. Pended' = Pended /\ Decoded' = Decoded
    BY <1>1 DEF Pended, Decoded
  <1>5. Asks' = Asks
    BY <1>3, <1>4, AsksAre
  <1>6. GuestTypes' /\ HostTypes' /\ LoopTypes'
    BY <1>1 DEF AnswersInv, GuestTypes, HostTypes, LoopTypes
  <1>7. \A t, kind : Waits(t, kind)' <=> Waits(t, kind)
    BY DEF Waits
  <1>8. RecordsOK' /\ HeldOpen'
    <2>1. \A i \in DOMAIN records' : records'[i].op = "device" <=> i = 1 /\ status' = "none"
      BY DeviceFirst
    <2>2. \A i, j \in DOMAIN records' : Asked(i)' /\ Asked(j)' /\ records'[i].t = records'[j].t => i = j
      BY <1>2 DEF AnswersInv, RecordsOK
    <2>3. \A i \in DOMAIN records' : Asked(i)' => AskOK(records[i])'
      BY <1>1, <1>2, <1>4, <1>7 DEF AnswersInv, RecordsOK, AskOK
    <2>4. HeldOpen'
      BY <1>1 DEF HeldOpen, DeviceAsked
    <2> QED BY <1>1, <2>1, <2>2, <2>3, <2>4 DEF RecordsOK
  <1>9. PendingOK'
    BY <1>1, <1>4, <1>7 DEF AnswersInv, PendingOK, PendOK
  <1>10. DecodingOK' /\ WordsOK' /\ JobsOK'
    BY <1>1, <1>7 DEF AnswersInv, DecodingOK, DecOK, WordsOK, JobsOK
  <1>11. DoneIsTrue' /\ ImageInPlace' /\ NothingForgotten' /\ WakeFollows'
    BY <1>1, <1>5 DEF AnswersInv, DoneIsTrue, ImageInPlace, NothingForgotten, WakeFollows, CameBack
  <1> QED BY <1>6, <1>8, <1>9, <1>10, <1>11 DEF AnswersInv

LEMMA AskDeviceSteps ==
  ASSUME AnswersAssumption, AnswersInv, AskDevice
  PROVE  AnswersInv'
  <1>1. PICK r : r = [op |-> "device"]
    OBVIOUS
  <1>2. r \in Recs /\ r.op = "device" /\ r.op \notin Kinds
    BY <1>1 DEF Recs, DeviceRecs, Kinds
  <1>3. Records(r) /\ ~ DeviceAsked /\ UNCHANGED <<status, texture, textures, ticket, word, want>>
    BY <1>1 DEF AskDevice
  <1>4. texture' \in 0 .. MaxTextures /\ textures' \in 0 .. MaxTextures /\ texture' = 0
    BY <1>3 DEF AnswersInv, GuestTypes, HeldOpen
  <1> QED BY <1>2, <1>3, <1>4, SilentSteps

LEMMA MakeTextureSteps ==
  ASSUME AnswersAssumption, AnswersInv, MakeTexture
  PROVE  AnswersInv'
  <1>1. MaxTextures \in Nat /\ textures \in 0 .. MaxTextures /\ textures < MaxTextures
    BY DEF AnswersAssumption, AnswersInv, GuestTypes, MakeTexture
  <1>2. PICK r : r = [op |-> "texture", to |-> textures + 1]
    OBVIOUS
  <1>3. r \in TextureRecs /\ r.op = "texture" /\ r.op \notin Kinds
    BY <1>1, <1>2 DEF TextureRecs, Kinds
  <1>4. /\ Records(r) /\ DeviceAsked /\ UNCHANGED <<status, ticket, word, want>>
        /\ texture' = textures + 1 /\ textures' = textures + 1
    BY <1>2 DEF MakeTexture
  <1>5. texture' \in 0 .. MaxTextures /\ textures' \in 0 .. MaxTextures
    BY <1>1, <1>4
  <1>6. r \in Recs
    BY <1>3 DEF Recs
  <1> QED BY <1>3, <1>4, <1>5, <1>6, SilentSteps

\* A texture is held only of an open device.
LEMMA DestroySteps ==
  ASSUME AnswersAssumption, AnswersInv, Destroy
  PROVE  AnswersInv'
  <1>1. PICK r : r = [op |-> "destroy"]
    OBVIOUS
  <1>2. r \in Recs /\ r.op = "destroy" /\ r.op \notin Kinds
    BY <1>1 DEF Recs, DestroyRecs, Kinds
  <1>3. Records(r) /\ texture # 0 /\ texture' = 0 /\ UNCHANGED <<status, textures, ticket, word, want>>
    BY <1>1 DEF Destroy
  <1>4. texture' \in 0 .. MaxTextures /\ textures' \in 0 .. MaxTextures
    BY <1>3 DEF AnswersInv, GuestTypes, AnswersAssumption
  <1>5. DeviceAsked
    BY <1>3 DEF AnswersInv, HeldOpen, DeviceAsked
  <1> QED BY <1>2, <1>3, <1>4, <1>5, SilentSteps

\* A new ticket: nothing that waits names it, and nothing that names the word's
\* old one is of a mapping.
LEMMA AnswerAskSteps ==
  ASSUME AnswersAssumption, AnswersInv, NEW k \in Kinds, Ask(k)
  PROVE  AnswersInv'
  <1>1. PICK n : n = ticket + 1
    OBVIOUS
  <1>2. PICK r : r = [op |-> k, t |-> n]
    OBVIOUS
  <1>3. /\ DeviceAsked
        /\ k = "map" => word[k].t = 0 \/ word[k].done
        /\ ticket < MaxAsks /\ ticket' = n
        /\ word' = [word EXCEPT ![k] = [t |-> n, done |-> FALSE]]
        /\ want' = [want EXCEPT ![k] = n]
        /\ Records(r) /\ UNCHANGED <<status, texture, textures>>
    BY <1>1, <1>2 DEF Ask
  <1>4. /\ MaxAsks \in Nat /\ ticket \in 0 .. MaxAsks
        /\ word \in [Kinds -> [t : {0} \cup Tickets, done : BOOLEAN]]
        /\ want \in [Kinds -> {0} \cup Tickets]
    BY DEF AnswersAssumption, AnswersInv, GuestTypes
  <1>5. n \in Tickets /\ n # 0 /\ n > ticket /\ ticket' \in 0 .. MaxAsks
    BY <1>1, <1>3, <1>4 DEF Tickets
  <1>6. r \in AskRecs /\ r.op = k /\ r.t = n /\ k # "device"
    BY <1>2, <1>5 DEF AskRecs, Kinds
  <1>7. r \in Recs
    BY <1>6 DEF Recs
  <1>8. /\ word'[k].t = n /\ word'[k].done = FALSE /\ want'[k] = n
        /\ \A l \in Kinds : l # k => word'[l] = word[l] /\ want'[l] = want[l]
    BY <1>3, <1>4
  <1>9. /\ stage = "guest" /\ records' \in Seq(Recs) /\ Len(records') <= MostOps
        /\ \A i \in DOMAIN records' : \/ i \in DOMAIN records /\ records'[i] = records[i]
                                      \/ i = Len(records) + 1 /\ records'[i] = r
        /\ \A i \in DOMAIN records : i \in DOMAIN records' /\ records'[i] = records[i] /\ i # Len(records) + 1
        /\ Len(records) + 1 \in DOMAIN records' /\ records'[Len(records) + 1] = r
        /\ UNCHANGED <<stage, toPoll, turnAsked, finished, answers, deviceGone, calling>>
        /\ UNCHANGED <<object, work, pending, decoding, next, jobs, due, landed, ended>>
    BY <1>3, <1>7, PutRecord
  <1>10. /\ \A l \in Kinds : word[l].t = want[l] /\ want[l] <= ticket /\ (word[l].done => want[l] # 0)
         /\ \A l, m \in Kinds : want[l] = want[m] /\ want[l] # 0 => l = m
         /\ \A t \in Tickets : t > ticket => landed[t] = 0
    BY DEF AnswersInv, WordsOK
  <1>11. ASSUME NEW t \in Tickets, NEW kind \in Kinds, Waits(t, kind) PROVE Waits(t, kind)' /\ t # n /\ t < n
    <2>1. t <= ticket /\ \A l \in Kinds : want[l] = t => l = kind /\ ~ word[l].done
      BY <1>11 DEF Waits
    <2>2. t < n /\ t # n
      BY <1>1, <1>4, <2>1 DEF Tickets
    <2>3. t <= ticket'
      BY <1>1, <1>3, <1>4, <2>1 DEF Tickets
    <2> QED BY <1>8, <2>1, <2>2, <2>3 DEF Waits
  <1>12. Waits(n, k)'
    <2>1. \A l \in Kinds : l # k => want[l] # n
      BY <1>1, <1>4, <1>10
    <2> QED BY <1>1, <1>3, <1>4, <1>8, <2>1 DEF Waits
  <1>13. ASSUME NEW t \in Tickets, Waits(t, "map"), want["map"] = t PROVE want'["map"] = t
    <2>1. ~ word["map"].done /\ word["map"].t # 0
      BY <1>10, <1>13 DEF Waits, Kinds, Tickets
    <2> QED BY <1>3, <1>8, <1>13, <2>1 DEF Kinds
  <1>14. \A i \in DOMAIN pending : pending[i] \in Pendings /\ PendOK(pending[i])
    BY DEF AnswersInv, HostTypes, PendingOK
  <1>15. \A i \in DOMAIN decoding : decoding[i] \in Decodings /\ DecOK(decoding[i])
    BY DEF AnswersInv, HostTypes, DecodingOK
  <1>16. Pended' = Pended /\ Decoded' = Decoded
    BY <1>9 DEF Pended, Decoded
  <1>17. n \notin Pended \cup Decoded
    <2>1. \A i \in DOMAIN pending : pending[i].t # n
      BY <1>11, <1>14 DEF Pendings, PendOK, Kinds
    <2>2. \A i \in DOMAIN decoding : decoding[i].t # n
      BY <1>11, <1>15 DEF Decodings, DecOK, Kinds
    <2> QED BY <2>1, <2>2 DEF Pended, Decoded, TicketsOf
  <1>18. GuestTypes'
    <2>1. word' \in [Kinds -> [t : {0} \cup Tickets, done : BOOLEAN]] /\ want' \in [Kinds -> {0} \cup Tickets]
      BY <1>3, <1>4, <1>5
    <2> QED BY <1>3, <1>5, <1>9, <2>1 DEF AnswersInv, GuestTypes
  <1>19. HostTypes' /\ LoopTypes' /\ JobsOK' /\ ImageInPlace' /\ WakeFollows'
    BY <1>9 DEF AnswersInv, HostTypes, LoopTypes, JobsOK, ImageInPlace, WakeFollows, CameBack
  <1>20. ASSUME NEW i \in DOMAIN records, Asked(i)
         PROVE  AskOK(records[i]) /\ records[i].t \in Tickets /\ records[i].t # n /\ AskOK(records[i])'
    <2>1. records[i] \in Recs
      BY DEF AnswersInv, GuestTypes
    <2>2. records[i].t \in Tickets
      BY <1>20, <2>1 DEF Asked, Recs, DeviceRecs, TextureRecs, DestroyRecs, AskRecs, Kinds
    <2>3. AskOK(records[i])
      BY <1>20 DEF AnswersInv, RecordsOK
    <2>4. Waits(records[i].t, records[i].op)' /\ records[i].t # n
      <3>1. records[i].op \in Kinds /\ Waits(records[i].t, records[i].op)
        BY <1>20, <2>3 DEF Asked, AskOK
      <3> QED BY <1>9, <1>11, <2>2, <3>1
    <2>5. records[i].op = "map" => want'["map"] = records[i].t
      BY <1>13, <2>2, <2>3 DEF AskOK
    <2>6. AskOK(records[i])'
      BY <1>9, <1>16, <2>3, <2>4, <2>5 DEF AskOK
    <2> QED BY <2>2, <2>3, <2>4, <2>6
  <1>21. RecordsOK'
    <2>1. \A i \in DOMAIN records' : records'[i].op = "device" <=> i = 1 /\ status' = "none"
      BY <1>3, <1>6, <1>7, DeviceFirst
    <2>2. AskOK(r)'
      <3>1. landed[n] = 0
        BY <1>5, <1>10
      <3> QED BY <1>6, <1>8, <1>9, <1>12, <1>16, <1>17, <3>1 DEF AskOK
    <2>3. ASSUME NEW i \in DOMAIN records', Asked(i)' PROVE AskOK(records[i])'
      BY <1>9, <1>20, <2>2, <2>3 DEF Asked
    <2>4. ASSUME NEW i \in DOMAIN records', NEW j \in DOMAIN records', Asked(i)', Asked(j)',
                 records'[i].t = records'[j].t
          PROVE  i = j
      <3>1. CASE i \in DOMAIN records /\ j \in DOMAIN records
        BY <1>9, <2>4, <3>1 DEF Asked, AnswersInv, RecordsOK
      <3>2. CASE i \notin DOMAIN records /\ j \in DOMAIN records
        BY <1>6, <1>9, <1>20, <2>4, <3>2 DEF Asked
      <3>3. CASE i \in DOMAIN records /\ j \notin DOMAIN records
        BY <1>6, <1>9, <1>20, <2>4, <3>3 DEF Asked
      <3>4. CASE i \notin DOMAIN records /\ j \notin DOMAIN records
        BY <1>9, <3>4
      <3> QED BY <3>1, <3>2, <3>3, <3>4
    <2> QED BY <1>9, <2>1, <2>3, <2>4 DEF RecordsOK
  <1>22. HeldOpen'
    BY <1>3, <1>9 DEF AnswersInv, HeldOpen, DeviceAsked
  <1>23. PendingOK'
    <2>1. ASSUME NEW i \in DOMAIN pending PROVE PendOK(pending[i])'
      <3>1. pending[i].t \in Tickets /\ PendOK(pending[i])
        BY <1>14 DEF Pendings
      <3>2. Waits(pending[i].t, pending[i].kind)'
        <4>1. pending[i].kind \in Kinds /\ Waits(pending[i].t, pending[i].kind)
          BY <1>14, <3>1 DEF Pendings, Kinds, PendOK
        <4> QED BY <1>9, <1>11, <3>1, <4>1
      <3>3. pending[i].kind = "map" => want'["map"] = pending[i].t
        BY <1>13, <3>1 DEF PendOK
      <3> QED BY <1>3, <1>9, <1>16, <3>1, <3>2, <3>3 DEF PendOK
    <2> QED BY <1>9, <2>1 DEF AnswersInv, PendingOK
  <1>24. DecodingOK'
    <2>1. ASSUME NEW i \in DOMAIN decoding PROVE DecOK(decoding[i])'
      <3>1. Waits(decoding[i].t, "image")'
        <4>1. decoding[i].t \in Tickets /\ "image" \in Kinds /\ Waits(decoding[i].t, "image")
          BY <1>15 DEF Decodings, Kinds, DecOK
        <4> QED BY <1>9, <1>11, <4>1
      <3> QED BY <1>3, <1>9, <1>15, <3>1 DEF DecOK
    <2> QED BY <1>9, <2>1 DEF AnswersInv, DecodingOK
  <1>25. WordsOK'
    <2>1. ASSUME NEW l \in Kinds
          PROVE  word'[l].t = want'[l] /\ want'[l] <= ticket' /\ (word'[l].done => want'[l] # 0)
      <3>1. CASE l = k
        BY <1>3, <1>5, <1>8, <3>1
      <3>2. CASE l # k
        <4>1. word[l].t = want[l] /\ want[l] <= ticket /\ (word[l].done => want[l] # 0)
          BY <1>10
        <4>2. want[l] <= n
          BY <1>1, <1>4, <4>1 DEF Tickets
        <4> QED BY <1>3, <1>8, <3>2, <4>1, <4>2
      <3> QED BY <3>1, <3>2
    <2>2. ASSUME NEW l \in Kinds, NEW m \in Kinds, want'[l] = want'[m], want'[l] # 0 PROVE l = m
      <3>1. \A j \in Kinds : want[j] # n
        BY <1>1, <1>4, <1>10
      <3> QED BY <1>8, <1>10, <2>2, <3>1
    <2>3. \A t \in Tickets : t > ticket' => landed'[t] = 0
      BY <1>1, <1>3, <1>4, <1>9, <1>10 DEF Tickets
    <2> QED BY <2>1, <2>2, <2>3 DEF WordsOK
  <1>26. DoneIsTrue'
    BY <1>8, <1>9 DEF AnswersInv, DoneIsTrue
  <1>27. NothingForgotten'
    <2>1. n \in Unrun'
      BY <1>6, <1>9 DEF Unrun, Asked
    <2>2. Unrun \subseteq Unrun'
      BY <1>9 DEF Unrun, Asked
    <2>3. Asks \subseteq Asks' /\ n \in Asks'
      BY <1>16, <2>1, <2>2, AsksAre
    <2> QED BY <1>3, <1>8, <1>9, <2>3 DEF AnswersInv, NothingForgotten
  <1> QED BY <1>18, <1>19, <1>21, <1>22, <1>23, <1>24, <1>25, <1>26, <1>27 DEF AnswersInv
-----------------------------------------------------------------------------
(***************************************************************************)
(* The turn as it goes on, and the edge's begin.                           *)
(***************************************************************************)
LEMMA AnswerTurnSteps ==
  ASSUME AnswersInv, LoopTypes', WakeFollows', stage' \in {"idle", "polls"} => records = <<>>,
         UNCHANGED <<status, texture, textures, ticket, word, records, object, work, finished, pending, decoding, next,
                     jobs, answers, want, due, landed, ended>>
  PROVE  AnswersInv'
  <1>1. Pended' = Pended /\ Decoded' = Decoded /\ Asks' = Asks
    BY DEF Pended, Decoded, Asks
  <1>2. GuestTypes' /\ HostTypes'
    BY DEF AnswersInv, GuestTypes, HostTypes
  <1>3. \A t, kind : Waits(t, kind)' <=> Waits(t, kind)
    BY DEF Waits
  <1>4. RecordsOK' /\ HeldOpen'
    BY <1>1, <1>3 DEF AnswersInv, RecordsOK, AskOK, Asked, HeldOpen, DeviceAsked
  <1>5. PendingOK'
    BY <1>1, <1>3 DEF AnswersInv, PendingOK, PendOK
  <1>6. DecodingOK' /\ WordsOK' /\ JobsOK'
    BY <1>3 DEF AnswersInv, DecodingOK, DecOK, WordsOK, JobsOK
  <1>7. DoneIsTrue' /\ ImageInPlace' /\ NothingForgotten'
    BY <1>1 DEF AnswersInv, DoneIsTrue, ImageInPlace, NothingForgotten
  <1> QED BY <1>2, <1>4, <1>5, <1>6, <1>7 DEF AnswersInv

LEMMA GoesOnSteps ==
  ASSUME AnswersInv, AnswersFall \/ End \/ EndPoll
  PROVE  AnswersInv'
  <1>1. /\ \/ stage = "guest" /\ stage' = "runs"
           \/ stage = "runs" /\ stage' = "idle" /\ records = <<>>
           \/ stage = "polls" /\ stage' = "guest" /\ toPoll = 0 /\ answers = <<>>
        /\ UNCHANGED <<toPoll, turnAsked, deviceGone, calling>>
        /\ UNCHANGED <<status, texture, textures, ticket, word, records, object, work, finished, pending, decoding, next,
                       jobs, answers, want, due, landed, ended>>
    <2>1. CASE AnswersFall
      BY <2>1 DEF AnswersFall, guestVars, hostVars, pastVars
    <2>2. CASE End
      BY <2>2 DEF End, guestVars, hostVars, pastVars
    <2>3. CASE EndPoll
      BY <2>3 DEF EndPoll, guestVars, hostVars, pastVars
    <2> QED BY <2>1, <2>2, <2>3
  <1>2. LoopTypes'
    BY <1>1 DEF AnswersInv, LoopTypes, Stages
  <1>3. WakeFollows'
    <2>1. CASE stage = "polls"
      <3>1. DOMAIN answers = {}
        BY <1>1, <2>1
      <3> QED BY <1>1, <3>1 DEF AnswersInv, WakeFollows, CameBack
    <2>2. CASE stage # "polls"
      BY <1>1, <2>2 DEF AnswersInv, WakeFollows, CameBack
    <2> QED BY <2>1, <2>2
  <1> QED BY <1>1, <1>2, <1>3, AnswerTurnSteps

LEMMA BeginPollSteps ==
  ASSUME AnswersInv, AnswersRise, BeginPoll
  PROVE  AnswersInv'
  <1>1. /\ stage = "idle" /\ stage' = "polls" /\ deviceGone = deviceGone' /\ ~ deviceGone /\ toPoll' = Len(pending)
        /\ UNCHANGED calling
        /\ UNCHANGED <<status, texture, textures, ticket, word, records, object, work, finished, pending, decoding, next,
                       jobs, answers, want, due, landed, ended>>
    BY DEF AnswersRise, BeginPoll
  <1>2. records = <<>>
    BY <1>1 DEF AnswersInv, RecordsOK
  <1>3. LoopTypes'
    <2>1. Len(pending) \in Nat
      BY DEF AnswersInv, HostTypes
    <2> QED BY <1>1, <2>1 DEF AnswersInv, LoopTypes, Stages
  <1>4. WakeFollows'
    BY <1>1 DEF WakeFollows
  <1> QED BY <1>1, <1>2, <1>3, <1>4, AnswerTurnSteps

\* A loss is told the guest that has a block, and nothing waits of one that has none.
LEMMA LoseSteps ==
  ASSUME AnswersAssumption, AnswersInv, AnswersRise, Lose
  PROVE  AnswersInv'
  <1>1. /\ stage = "idle" /\ stage' = "guest" /\ deviceGone' = FALSE /\ object' = 0 /\ texture' = 0
        /\ pending' = <<>> /\ decoding' = <<>> /\ status' = Told
        /\ ended' = Ends(Pended \cup Decoded, "lost")
        /\ UNCHANGED <<toPoll, calling>>
        /\ UNCHANGED <<textures, ticket, word, records, work, finished, next, jobs, answers, want, due, landed>>
    BY DEF AnswersRise, Lose, Pended, Decoded, TicketsOf
  <1>2. records = <<>> /\ DOMAIN records = {} /\ DOMAIN records' = {}
    BY <1>1 DEF AnswersInv, RecordsOK
  <1>3. DOMAIN pending' = {} /\ DOMAIN decoding' = {} /\ Len(pending') = 0
    BY <1>1
  <1>4. ended \in [Tickets -> {"no", "left", "lost"}] /\ status \in {"none", "ready", "lost"}
    BY DEF AnswersInv, HostTypes, GuestTypes
  <1>5. /\ ended' \in [Tickets -> {"no", "left", "lost"}]
        /\ \A t \in Tickets : ended'[t] = IF t \in Pended \cup Decoded THEN "lost" ELSE ended[t]
    BY <1>1, <1>4 DEF Ends
  <1>6. status' \in {"none", "ready", "lost"} /\ (status # "none" => status' = "lost")
    BY <1>1, <1>4 DEF Told
  <1>7. GuestTypes'
    BY <1>1, <1>6 DEF AnswersInv, GuestTypes, AnswersAssumption
  <1>8. HostTypes'
    <2>1. object' \in 0 .. MaxTextures /\ pending' \in Seq(Pendings) /\ decoding' \in Seq(Decodings)
      BY <1>1 DEF AnswersAssumption
    <2> QED BY <1>1, <1>5, <2>1 DEF AnswersInv, HostTypes
  <1>9. LoopTypes'
    BY <1>1, <1>3 DEF AnswersInv, LoopTypes, Stages
  <1>10. RecordsOK' /\ HeldOpen'
    BY <1>1, <1>2 DEF RecordsOK, HeldOpen
  <1>11. PendingOK' /\ DecodingOK' /\ WakeFollows'
    BY <1>1, <1>3 DEF PendingOK, DecodingOK, Distinct, WakeFollows
  <1>12. WordsOK' /\ JobsOK' /\ DoneIsTrue' /\ ImageInPlace'
    BY <1>1 DEF AnswersInv, WordsOK, JobsOK, DoneIsTrue, ImageInPlace
  <1>13. NothingForgotten'
    <2>1. ASSUME NEW k \in Kinds, word[k].t # 0, ~ word[k].done
          PROVE  ended'[word[k].t] = "left" \/ (ended'[word[k].t] = "lost" /\ status' = "lost")
      <3>1. word[k].t \in Tickets
        BY <2>1 DEF AnswersInv, GuestTypes
      <3>2. CASE word[k].t \in Pended \cup Decoded
        <4>1. status # "none"
          BY <3>2 DEF Pended, Decoded, TicketsOf, AnswersInv, PendingOK, PendOK, DecodingOK, DecOK
        <4> QED BY <1>5, <1>6, <3>1, <3>2, <4>1
      <3>3. CASE word[k].t \notin Pended \cup Decoded
        <4>1. Unrun = {}
          BY <1>2 DEF Unrun
        <4>2. word[k].t \notin Asks
          BY <3>3, <4>1, AsksAre
        <4>3. ended[word[k].t] = "left" \/ (ended[word[k].t] = "lost" /\ status = "lost")
          BY <2>1, <4>2 DEF AnswersInv, NothingForgotten
        <4> QED BY <1>5, <1>6, <3>1, <3>3, <4>3
      <3> QED BY <3>2, <3>3
    <2> QED BY <1>1, <2>1 DEF NothingForgotten
  <1> QED BY <1>7, <1>8, <1>9, <1>10, <1>11, <1>12, <1>13 DEF AnswersInv
-----------------------------------------------------------------------------
(***************************************************************************)
(* A record run.  The device's is the first to be, and after it there is   *)
(* a block; an ask's leaves the records, its ticket named by no other.     *)
(***************************************************************************)
LEMMA RunsRecord ==
  ASSUME AnswersAssumption, AnswersInv, NEW op, Runs(op)
  PROVE  /\ stage = "runs" /\ Head(records) \in Recs /\ Head(records).op = op
         /\ records' \in Seq(Recs) /\ Len(records') <= MostOps
         /\ status = "none" <=> op = "device"
         /\ \A i \in DOMAIN records' : /\ i + 1 \in DOMAIN records /\ records'[i] = records[i + 1]
                                       /\ records'[i].op # "device"
         /\ \A i, j \in DOMAIN records' :
              records'[i].op \in Kinds /\ records'[j].op \in Kinds /\ records'[i].t = records'[j].t => i = j
         /\ UNCHANGED <<stage, toPoll, turnAsked, texture, textures, ticket, word, finished, answers, deviceGone, calling, want,
                        landed, ended>>
  <1>1. /\ stage = "runs" /\ records # <<>> /\ Head(records).op = op /\ records' = Tail(records)
        /\ UNCHANGED <<stage, toPoll, turnAsked, texture, textures, ticket, word, finished, answers, deviceGone, calling, want,
                       landed, ended>>
    BY DEF Runs, pastVars
  <1>2. records \in Seq(Recs) /\ Len(records) <= MostOps
    BY DEF AnswersInv, GuestTypes
  <1>3. /\ records' \in Seq(Recs) /\ Len(records) \in Nat \ {0} /\ Len(records') = Len(records) - 1
        /\ Head(records) = records[1] /\ 1 \in DOMAIN records /\ Head(records) \in Recs
        /\ \A i \in DOMAIN records' : i \in Nat \ {0} /\ i + 1 \in DOMAIN records /\ records'[i] = records[i + 1]
    BY <1>1, <1>2, FromHead
  <1>4. /\ \A i \in DOMAIN records : records[i].op = "device" <=> i = 1 /\ status = "none"
        /\ \A i, j \in DOMAIN records : records[i].op \in Kinds /\ records[j].op \in Kinds
                                          /\ records[i].t = records[j].t => i = j
    BY DEF AnswersInv, RecordsOK, Asked
  <1>5. status = "none" <=> op = "device"
    BY <1>1, <1>3, <1>4
  <1>6. \A i \in DOMAIN records' : i + 1 # 1 /\ records'[i].op # "device"
    BY <1>3, <1>4
  <1>7. ASSUME NEW i \in DOMAIN records', NEW j \in DOMAIN records', records'[i].op \in Kinds,
               records'[j].op \in Kinds, records'[i].t = records'[j].t
        PROVE  i = j
    <2>1. i + 1 = j + 1
      BY <1>3, <1>4, <1>7
    <2> QED BY <1>3, <2>1
  <1>8. Len(records') <= MostOps
    <2>1. Len(records') <= Len(records)
      BY <1>3
    <2> QED BY <1>2, <1>3, <2>1 DEF AnswersAssumption
  <1> QED BY <1>1, <1>3, <1>5, <1>6, <1>7, <1>8

\* What asks nothing leaves what waits as it is.
LEMMA PlainRunSteps ==
  ASSUME AnswersAssumption, AnswersInv, NEW op, op \notin Kinds, Runs(op),
         status' \in {"ready", "lost"}, status' = "ready" \/ UNCHANGED status, status = "lost" => status' = "lost",
         object' \in 0 .. MaxTextures, UNCHANGED <<work, pending, decoding, next, jobs, due>>
  PROVE  AnswersInv'
  <1>1. /\ stage = "runs" /\ Head(records) \in Recs /\ Head(records).op = op
        /\ records' \in Seq(Recs) /\ Len(records') <= MostOps
        /\ \A i \in DOMAIN records' : /\ i + 1 \in DOMAIN records /\ records'[i] = records[i + 1]
                                      /\ records'[i].op # "device"
        /\ \A i, j \in DOMAIN records' :
             records'[i].op \in Kinds /\ records'[j].op \in Kinds /\ records'[i].t = records'[j].t => i = j
        /\ UNCHANGED <<stage, toPoll, turnAsked, texture, textures, ticket, word, finished, answers, deviceGone, calling, want,
                       landed, ended>>
    BY RunsRecord
  <1>2. Pended' = Pended /\ Decoded' = Decoded
    BY DEF Pended, Decoded
  <1>3. Unrun' = Unrun
    <2>1. /\ records \in Seq(Recs) /\ records # <<>> /\ records' = Tail(records)
      BY DEF AnswersInv, GuestTypes, Runs
    <2>2. /\ Head(records) = records[1]
          /\ \A i \in DOMAIN records \ {1} : i - 1 \in DOMAIN records' /\ records'[i - 1] = records[i]
      BY <2>1, FromHead
    <2>3. \A i \in DOMAIN records : Asked(i) => i # 1
      BY <1>1, <2>2 DEF Asked
    <2>4. Unrun \subseteq Unrun'
      BY <2>2, <2>3 DEF Unrun, Asked
    <2>5. Unrun' \subseteq Unrun
      BY <1>1 DEF Unrun, Asked
    <2> QED BY <2>4, <2>5
  <1>4. Asks' = Asks
    BY <1>2, <1>3, AsksAre
  <1>5. GuestTypes' /\ HostTypes' /\ LoopTypes'
    BY <1>1 DEF AnswersInv, GuestTypes, HostTypes, LoopTypes
  <1>6. \A t, kind : Waits(t, kind)' <=> Waits(t, kind)
    BY <1>1 DEF Waits
  <1>7. RecordsOK'
    <2>1. ASSUME NEW i \in DOMAIN records', Asked(i)' PROVE AskOK(records[i])'
      <3>1. AskOK(records[i + 1])
        BY <1>1, <2>1 DEF Asked, AnswersInv, RecordsOK
      <3> QED BY <1>1, <1>2, <1>6, <3>1 DEF AskOK
    <2> QED BY <1>1, <2>1 DEF RecordsOK, Asked
  <1>8. HeldOpen'
    BY DEF HeldOpen, DeviceAsked
  <1>9. PendingOK'
    BY <1>1, <1>2, <1>6 DEF AnswersInv, PendingOK, PendOK
  <1>10. DecodingOK' /\ WordsOK' /\ JobsOK'
    BY <1>1, <1>6 DEF AnswersInv, DecodingOK, DecOK, WordsOK, JobsOK
  <1>11. DoneIsTrue' /\ ImageInPlace' /\ NothingForgotten' /\ WakeFollows'
    BY <1>1, <1>4 DEF AnswersInv, DoneIsTrue, ImageInPlace, NothingForgotten, WakeFollows, CameBack
  <1> QED BY <1>5, <1>7, <1>8, <1>9, <1>10, <1>11 DEF AnswersInv

LEMMA RunPlainSteps ==
  ASSUME AnswersAssumption, AnswersInv, RunDevice \/ RunTexture \/ RunDestroy
  PROVE  AnswersInv'
  <1>1. status \in {"none", "ready", "lost"} /\ object \in 0 .. MaxTextures
    BY DEF AnswersInv, GuestTypes, HostTypes
  <1>2. CASE RunDevice
    <2>1. /\ Runs("device") /\ status' = "ready" /\ UNCHANGED <<object, work, pending, decoding, next, jobs, due>>
      BY <1>2 DEF RunDevice, hostVars
    <2>2. status = "none"
      BY <2>1, RunsRecord
    <2>3. "device" \notin Kinds
      BY DEF Kinds
    <2> QED BY <1>1, <2>1, <2>2, <2>3, PlainRunSteps
  <1>3. CASE RunTexture
    <2>1. /\ Runs("texture") /\ object' = Head(records).to
          /\ UNCHANGED <<status, work, pending, decoding, next, jobs, due>>
      BY <1>3 DEF RunTexture
    <2>2. status # "none" /\ Head(records) \in Recs /\ Head(records).op = "texture"
      BY <2>1, RunsRecord
    <2>3. object' \in 0 .. MaxTextures
      BY <2>1, <2>2 DEF Recs, DeviceRecs, TextureRecs, DestroyRecs, AskRecs, Kinds
    <2>4. "texture" \notin Kinds
      BY DEF Kinds
    <2> QED BY <1>1, <2>1, <2>2, <2>3, <2>4, PlainRunSteps
  <1>4. CASE RunDestroy
    <2>1. Runs("destroy") /\ object' = 0 /\ UNCHANGED <<status, work, pending, decoding, next, jobs, due>>
      BY <1>4 DEF RunDestroy
    <2>2. status # "none"
      BY <2>1, RunsRecord
    <2>3. object' \in 0 .. MaxTextures /\ "destroy" \notin Kinds
      BY <2>1 DEF AnswersAssumption, Kinds
    <2> QED BY <1>1, <2>1, <2>2, <2>3, PlainRunSteps
  <1> QED BY <1>2, <1>3, <1>4

\* An ask that is run: it is of no list of the host's yet, and no word is done of it.
LEMMA RunsAsk ==
  ASSUME AnswersAssumption, AnswersInv, NEW k \in Kinds, Runs(k), NEW t, t = Head(records).t
  PROVE  /\ t \in Tickets /\ Waits(t, k) /\ landed[t] = 0 /\ t \notin Pended \cup Decoded
         /\ k = "map" => want["map"] = t
         /\ status # "none"
         /\ \A i \in DOMAIN records' : records'[i].op \in Kinds =>
              AskOK(records[i + 1]) /\ records'[i].t # t
         /\ Unrun = Unrun' \cup {t}
  <1>1. /\ Head(records) \in Recs /\ Head(records).op = k
        /\ status = "none" <=> k = "device"
        /\ \A i \in DOMAIN records' : i + 1 \in DOMAIN records /\ records'[i] = records[i + 1]
    BY RunsRecord
  <1>2. k # "device" /\ status # "none"
    BY <1>1 DEF Kinds
  <1>3. t \in Tickets
    BY <1>1 DEF Recs, DeviceRecs, TextureRecs, DestroyRecs, AskRecs, Kinds
  <1>4. records \in Seq(Recs) /\ records # <<>> /\ records' = Tail(records)
    BY DEF AnswersInv, GuestTypes, Runs
  <1>5. /\ Head(records) = records[1] /\ 1 \in DOMAIN records
        /\ \A i \in DOMAIN records' : i \in Nat \ {0} /\ i + 1 \in DOMAIN records
        /\ \A i \in DOMAIN records \ {1} : i - 1 \in DOMAIN records' /\ records'[i - 1] = records[i]
    BY <1>4, FromHead
  <1>6. Asked(1) /\ AskOK(records[1]) /\ records[1].t = t /\ records[1].op = k
    BY <1>1, <1>5 DEF Asked, AnswersInv, RecordsOK
  <1>7. ASSUME NEW i \in DOMAIN records', records'[i].op \in Kinds
        PROVE  AskOK(records[i + 1]) /\ records'[i].t # t
    <2>1. i + 1 \in DOMAIN records /\ i + 1 # 1 /\ records'[i] = records[i + 1]
      BY <1>1, <1>5
    <2>2. AskOK(records[i + 1])
      BY <1>7, <2>1 DEF Asked, AnswersInv, RecordsOK
    <2>3. records[i + 1].t # records[1].t
      BY <1>5, <1>6, <1>7, <2>1 DEF Asked, AnswersInv, RecordsOK
    <2> QED BY <1>6, <2>1, <2>2, <2>3
  <1>8. Unrun \subseteq Unrun' \cup {t}
    BY <1>5, <1>6 DEF Unrun, Asked
  <1>9. Unrun' \subseteq Unrun /\ t \in Unrun
    BY <1>1, <1>5, <1>6 DEF Unrun, Asked
  <1>10. Waits(t, k) /\ landed[t] = 0 /\ t \notin Pended \cup Decoded /\ (k = "map" => want["map"] = t)
    BY <1>6 DEF AskOK
  <1> QED BY <1>2, <1>3, <1>7, <1>8, <1>9, <1>10

\* What the lists have in common, whichever an ask goes to.
LEMMA AskRuns ==
  ASSUME AnswersAssumption, AnswersInv, NEW k \in Kinds, Runs(k), NEW t, t = Head(records).t, NEW n \in Nat,
         due' = [due EXCEPT ![t] = n], UNCHANGED <<status, object>>,
         Pended' \cup Decoded' = (Pended \cup Decoded) \cup {t}
  PROVE  /\ GuestTypes' /\ RecordsOK' /\ HeldOpen' /\ WordsOK'
         /\ DoneIsTrue' /\ ImageInPlace' /\ NothingForgotten'
         /\ due' \in [Tickets -> Nat] /\ due'[t] = n /\ \A u \in Tickets : u # t => due'[u] = due[u]
  <1>1. /\ stage = "runs"
        /\ records' \in Seq(Recs) /\ Len(records') <= MostOps
        /\ \A i \in DOMAIN records' : /\ i + 1 \in DOMAIN records /\ records'[i] = records[i + 1]
                                      /\ records'[i].op # "device"
        /\ \A i, j \in DOMAIN records' :
             records'[i].op \in Kinds /\ records'[j].op \in Kinds /\ records'[i].t = records'[j].t => i = j
        /\ UNCHANGED <<stage, toPoll, turnAsked, texture, textures, ticket, word, finished, answers, deviceGone, calling, want,
                       landed, ended>>
    BY RunsRecord
  <1>2. /\ t \in Tickets /\ Waits(t, k) /\ landed[t] = 0 /\ t \notin Pended \cup Decoded
        /\ status # "none"
        /\ \A i \in DOMAIN records' : records'[i].op \in Kinds => AskOK(records[i + 1]) /\ records'[i].t # t
        /\ Unrun = Unrun' \cup {t}
    BY RunsAsk
  <1>3. due \in [Tickets -> Nat] /\ finished \in Nat
    BY DEF AnswersInv, HostTypes
  <1>4. due' \in [Tickets -> Nat] /\ due'[t] = n /\ \A u \in Tickets : u # t => due'[u] = due[u]
    BY <1>2, <1>3
  <1>5. GuestTypes' /\ WordsOK' /\ HeldOpen'
    BY <1>1, <1>2 DEF AnswersInv, GuestTypes, WordsOK, HeldOpen, DeviceAsked
  <1>6. \A u, kind : Waits(u, kind)' <=> Waits(u, kind)
    BY <1>1 DEF Waits
  <1>7. RecordsOK'
    <2>1. ASSUME NEW i \in DOMAIN records', Asked(i)' PROVE AskOK(records[i])'
      <3>1. AskOK(records[i + 1]) /\ records'[i].t # t /\ records'[i] = records[i + 1]
        BY <1>1, <1>2, <2>1 DEF Asked
      <3>2. records'[i].t \notin Pended' \cup Decoded'
        BY <3>1 DEF AskOK
      <3> QED BY <1>1, <1>6, <3>1, <3>2 DEF AskOK
    <2> QED BY <1>1, <1>2, <2>1 DEF RecordsOK, Asked
  <1>8. DoneIsTrue'
    <2>1. ASSUME NEW l \in Kinds, word[l].done PROVE want[l] \in Tickets /\ want[l] # t
      BY <1>2, <2>1 DEF AnswersInv, GuestTypes, WordsOK, Waits
    <2> QED BY <1>1, <1>4, <2>1 DEF AnswersInv, DoneIsTrue
  <1>9. ImageInPlace'
    BY <1>1, <1>2, <1>4 DEF AnswersInv, ImageInPlace
  <1>10. NothingForgotten'
    <2>1. Asks' = Asks
      BY <1>2, AsksAre
    <2> QED BY <1>1, <2>1 DEF AnswersInv, NothingForgotten
  <1> QED BY <1>4, <1>5, <1>7, <1>8, <1>9, <1>10

\* A done or a mapping, pending from now on.
LEMMA PendSteps ==
  ASSUME AnswersAssumption, AnswersInv, NEW k \in {"done", "map"}, Runs(k), NEW t, t = Head(records).t,
         NEW n \in Nat, due' = [due EXCEPT ![t] = n], NEW p, p = [kind |-> k, t |-> t, state |-> "waiting"],
         pending' = Append(pending, p), work' \in Nat, work <= work',
         UNCHANGED <<status, object, decoding, next, jobs>>
  PROVE  AnswersInv'
  <1>1. UNCHANGED <<stage, toPoll, turnAsked, texture, textures, ticket, word, finished, answers, deviceGone, calling, want, landed, ended>>
    BY RunsRecord
  <1>2. k \in Kinds
    BY DEF Kinds
  <1>3. /\ t \in Tickets /\ Waits(t, k) /\ t \notin Pended \cup Decoded /\ (k = "map" => want["map"] = t)
        /\ status # "none"
    BY <1>2, RunsAsk
  <1>4. /\ pending \in Seq(Pendings) /\ decoding \in Seq(Decodings) /\ Distinct(pending)
        /\ work \in Nat /\ finished \in Nat /\ finished <= work
    BY DEF AnswersInv, HostTypes, PendingOK
  <1>5. p \in Pendings /\ p.t = t /\ p.kind = k /\ p.state = "waiting"
    BY <1>3 DEF Pendings
  <1>6. p.t \notin TicketsOf(pending)
    BY <1>3, <1>5 DEF Pended
  <1>7. /\ Distinct(pending)' /\ TicketsOf(pending)' = TicketsOf(pending) \cup {p.t}
        /\ \A i \in DOMAIN pending' : pending'[i] = p \/ \E j \in DOMAIN pending : pending'[i] = pending[j]
    <2>1. PICK u : u = pending'
      OBVIOUS
    <2>2. u = Append(pending, p)
      BY <2>1
    <2>3. Puts(u, pending, p)
      BY <1>4, <2>2, PutAtEnd
    <2>4. /\ Distinct(u) /\ TicketsOf(u) = TicketsOf(pending) \cup {p.t}
          /\ \A i \in DOMAIN u : u[i] = p \/ \E j \in DOMAIN pending : u[i] = pending[j]
      BY <1>4, <1>6, <2>3, TicketsPut
    <2>5. Distinct(pending)'
      BY <2>1, <2>4 DEF Distinct
    <2>6. TicketsOf(pending)' = TicketsOf(pending) \cup {p.t}
      BY <2>1, <2>4 DEF TicketsOf
    <2> QED BY <2>1, <2>4, <2>5, <2>6
  <1>8. Pended' = Pended \cup {t} /\ Decoded' = Decoded
    BY <1>5, <1>7 DEF Pended, Decoded
  <1>9. /\ GuestTypes' /\ RecordsOK' /\ HeldOpen' /\ WordsOK'
        /\ DoneIsTrue' /\ ImageInPlace' /\ NothingForgotten'
        /\ due' \in [Tickets -> Nat] /\ due'[t] = n /\ \A u \in Tickets : u # t => due'[u] = due[u]
    <2>1. Pended' \cup Decoded' = (Pended \cup Decoded) \cup {t}
      BY <1>8
    <2> QED BY <1>2, <2>1, AskRuns
  <1>10. pending' \in Seq(Pendings) /\ Len(pending) \in Nat /\ Len(pending') = Len(pending) + 1
    BY <1>4, <1>5
  <1>11. HostTypes'
    BY <1>1, <1>4, <1>9, <1>10 DEF AnswersInv, HostTypes
  <1>12. LoopTypes' /\ JobsOK' /\ WakeFollows'
    BY <1>1, <1>10 DEF AnswersInv, LoopTypes, JobsOK, WakeFollows, CameBack
  <1>13. \A u, kind : Waits(u, kind)' <=> Waits(u, kind)
    BY <1>1 DEF Waits
  <1>14. PendingOK'
    <2>1. ASSUME NEW i \in DOMAIN pending' PROVE PendOK(pending[i])'
      <3>1. CASE pending'[i] = p
        BY <1>1, <1>3, <1>5, <1>8, <1>13, <3>1 DEF PendOK
      <3>2. ASSUME NEW j \in DOMAIN pending, pending'[i] = pending[j] PROVE PendOK(pending[i])'
        <4>1. PendOK(pending[j])
          BY DEF AnswersInv, PendingOK
        <4>2. pending[j] \in Pendings
          BY <1>4
        <4>3. pending[j].t \in Tickets /\ pending[j].t # t
          BY <1>3, <4>2 DEF Pendings, Pended, TicketsOf
        <4> QED BY <1>1, <1>8, <1>9, <1>13, <3>2, <4>1, <4>3 DEF PendOK
      <3> QED BY <1>7, <3>1, <3>2
    <2> QED BY <1>7, <2>1 DEF PendingOK
  <1>15. DecodingOK'
    <2>1. ASSUME NEW i \in DOMAIN decoding PROVE DecOK(decoding[i])'
      <3>1. DecOK(decoding[i])
        BY DEF AnswersInv, DecodingOK
      <3>2. decoding[i] \in Decodings
        BY <1>4
      <3>3. decoding[i].t \in Tickets /\ decoding[i].t # t
        BY <1>3, <3>2 DEF Decodings, Decoded, TicketsOf
      <3> QED BY <1>1, <1>9, <1>13, <3>1, <3>3 DEF DecOK
    <2> QED BY <2>1 DEF AnswersInv, DecodingOK
  <1> QED BY <1>9, <1>11, <1>12, <1>14, <1>15 DEF AnswersInv

LEMMA RunPendSteps ==
  ASSUME AnswersAssumption, AnswersInv, RunDone \/ RunMap
  PROVE  AnswersInv'
  <1>1. work \in Nat
    BY DEF AnswersInv, HostTypes
  <1>2. PICK t : t = Head(records).t
    OBVIOUS
  <1>3. CASE RunDone
    <2>1. PICK p : p = [kind |-> "done", t |-> t, state |-> "waiting"]
      OBVIOUS
    <2>2. /\ Runs("done") /\ work' = work + 1 /\ due' = [due EXCEPT ![t] = work + 1]
          /\ pending' = Append(pending, p) /\ UNCHANGED <<status, object, decoding, next, jobs>>
      BY <1>2, <1>3, <2>1 DEF RunDone
    <2>3. work + 1 \in Nat /\ work' \in Nat /\ work <= work'
      BY <1>1, <2>2
    <2> QED BY <1>2, <2>1, <2>2, <2>3, PendSteps
  <1>4. CASE RunMap
    <2>1. PICK p : p = [kind |-> "map", t |-> t, state |-> "waiting"]
      OBVIOUS
    <2>2. /\ Runs("map") /\ work' = work /\ due' = [due EXCEPT ![t] = work]
          /\ pending' = Append(pending, p) /\ UNCHANGED <<status, object, decoding, next, jobs>>
      BY <1>2, <1>4, <2>1 DEF RunMap
    <2>3. work' \in Nat /\ work <= work'
      BY <1>1, <2>2
    <2> QED BY <1>1, <1>2, <2>1, <2>2, <2>3, PendSteps
  <1> QED BY <1>3, <1>4

\* An image, being decoded from now on, under a number nothing came back of.
LEMMA RunImageSteps ==
  ASSUME AnswersAssumption, AnswersInv, RunImage
  PROVE  AnswersInv'
  <1>1. PICK t : t = Head(records).t
    OBVIOUS
  <1>2. PICK d : d = [job |-> next, to |-> object, t |-> t]
    OBVIOUS
  <1>3. /\ Runs("image") /\ jobs' = Append(jobs, next) /\ next' = next + 1
        /\ due' = [due EXCEPT ![t] = next] /\ decoding' = Append(decoding, d)
        /\ UNCHANGED <<status, object, work, pending>>
    BY <1>1, <1>2 DEF RunImage
  <1>4. UNCHANGED <<stage, toPoll, turnAsked, texture, textures, ticket, word, finished, answers, deviceGone, calling, want, landed, ended>>
    BY <1>3, RunsRecord
  <1>5. "image" \in Kinds
    BY DEF Kinds
  <1>6. t \in Tickets /\ Waits(t, "image") /\ t \notin Pended \cup Decoded /\ status # "none"
    BY <1>1, <1>3, <1>5, RunsAsk
  <1>7. /\ pending \in Seq(Pendings) /\ decoding \in Seq(Decodings) /\ Distinct(decoding)
        /\ next \in Nat /\ object \in 0 .. MaxTextures /\ jobs \in Seq(Nat) /\ answers \in Seq(JobAnswers)
    BY DEF AnswersInv, HostTypes, DecodingOK
  <1>8. d \in Decodings /\ d.t = t /\ d.job = next
    BY <1>2, <1>6, <1>7 DEF Decodings
  <1>9. /\ Distinct(decoding)' /\ TicketsOf(decoding)' = TicketsOf(decoding) \cup {d.t}
        /\ \A i \in DOMAIN decoding' : decoding'[i] = d \/ \E j \in DOMAIN decoding : decoding'[i] = decoding[j]
    <2>1. PICK u : u = decoding'
      OBVIOUS
    <2>2. u = Append(decoding, d) /\ d.t \notin TicketsOf(decoding)
      BY <1>3, <1>6, <1>8, <2>1 DEF Decoded
    <2>3. Puts(u, decoding, d)
      BY <1>7, <2>2, PutAtEnd
    <2>4. /\ Distinct(u) /\ TicketsOf(u) = TicketsOf(decoding) \cup {d.t}
          /\ \A i \in DOMAIN u : u[i] = d \/ \E j \in DOMAIN decoding : u[i] = decoding[j]
      BY <1>7, <2>2, <2>3, TicketsPut
    <2> QED BY <2>1, <2>4 DEF Distinct, TicketsOf
  <1>10. Decoded' = Decoded \cup {t} /\ Pended' = Pended
    BY <1>3, <1>8, <1>9 DEF Pended, Decoded
  <1>11. /\ GuestTypes' /\ RecordsOK' /\ HeldOpen' /\ WordsOK'
         /\ DoneIsTrue' /\ ImageInPlace' /\ NothingForgotten'
         /\ due' \in [Tickets -> Nat] /\ due'[t] = next /\ \A u \in Tickets : u # t => due'[u] = due[u]
    <2>1. Pended' \cup Decoded' = (Pended \cup Decoded) \cup {t}
      BY <1>10
    <2> QED BY <1>1, <1>3, <1>5, <1>7, <2>1, AskRuns
  <1>12. decoding' \in Seq(Decodings) /\ jobs' \in Seq(Nat) /\ next' \in Nat /\ next < next'
    BY <1>3, <1>7, <1>8
  <1>13. HostTypes' /\ LoopTypes'
    BY <1>3, <1>4, <1>11, <1>12 DEF AnswersInv, HostTypes, LoopTypes
  <1>14. \A u, kind : Waits(u, kind)' <=> Waits(u, kind)
    BY <1>4 DEF Waits
  <1>15. PendingOK'
    <2>1. ASSUME NEW i \in DOMAIN pending PROVE PendOK(pending[i])'
      <3>1. PendOK(pending[i])
        BY DEF AnswersInv, PendingOK
      <3>2. pending[i] \in Pendings
        BY <1>7
      <3>3. pending[i].t \in Tickets /\ pending[i].t # t
        BY <1>6, <3>2 DEF Pendings, Pended, TicketsOf
      <3> QED BY <1>3, <1>4, <1>10, <1>11, <1>14, <3>1, <3>3 DEF PendOK
    <2> QED BY <1>3, <2>1 DEF AnswersInv, PendingOK, Distinct
  <1>16. ASSUME NEW i \in DOMAIN decoding
         PROVE  DecOK(decoding[i]) /\ decoding[i].t \in Tickets /\ decoding[i].t # t /\ decoding[i].job \in Nat
    <2>1. DecOK(decoding[i])
      BY DEF AnswersInv, DecodingOK
    <2>2. decoding[i] \in Decodings
      BY <1>7
    <2> QED BY <1>6, <2>1, <2>2 DEF Decodings, Decoded, TicketsOf
  <1>17. DecodingOK'
    <2>1. ASSUME NEW i \in DOMAIN decoding' PROVE DecOK(decoding[i])'
      <3>1. CASE decoding'[i] = d
        BY <1>3, <1>6, <1>8, <1>11, <1>12, <1>14, <3>1 DEF DecOK
      <3>2. ASSUME NEW j \in DOMAIN decoding, decoding'[i] = decoding[j] PROVE DecOK(decoding[i])'
        BY <1>3, <1>7, <1>11, <1>12, <1>14, <1>16, <3>2 DEF DecOK
      <3> QED BY <1>9, <3>1, <3>2
    <2> QED BY <1>9, <2>1 DEF DecodingOK
  <1>18. JobsOK'
    <2>1. \A i \in DOMAIN jobs : jobs[i] < next /\ jobs[i] \in Nat
      BY <1>7 DEF AnswersInv, JobsOK
    <2>2. \A i \in DOMAIN jobs' : (i \in DOMAIN jobs /\ jobs'[i] = jobs[i]) \/ jobs'[i] = next
      BY <1>3, <1>7, AtEnd
    <2>3. \A i \in DOMAIN jobs' : jobs'[i] < next'
      BY <1>3, <1>7, <2>1, <2>2
    <2>4. \A i \in DOMAIN answers : answers[i] \in JobAnswers /\ answers[i].job < next
      BY <1>7 DEF AnswersInv, JobsOK
    <2>5. \A i \in DOMAIN answers : answers[i].job < next'
      BY <1>3, <1>7, <2>4 DEF JobAnswers
    <2> QED BY <1>4, <2>3, <2>5 DEF JobsOK
  <1>19. WakeFollows'
    <2>1. ASSUME NEW i \in DOMAIN decoding', CameBack(decoding[i])'
          PROVE  turnAsked \/ "decoder" \in calling \/ stage = "polls"
      <3>1. CASE decoding'[i] = d
        <4>1. PICK j \in DOMAIN answers : answers[j].job = next
          BY <1>4, <1>8, <2>1, <3>1 DEF CameBack
        <4>2. answers[j].job < next
          BY DEF AnswersInv, JobsOK
        <4> QED BY <1>7, <4>1, <4>2
      <3>2. ASSUME NEW j \in DOMAIN decoding, decoding'[i] = decoding[j]
            PROVE  turnAsked \/ "decoder" \in calling \/ stage = "polls"
        BY <1>4, <2>1, <3>2 DEF CameBack, AnswersInv, WakeFollows
      <3> QED BY <1>9, <3>1, <3>2
    <2> QED BY <1>4, <2>1 DEF AnswersInv, WakeFollows
  <1> QED BY <1>11, <1>13, <1>15, <1>17, <1>18, <1>19 DEF AnswersInv
-----------------------------------------------------------------------------
(***************************************************************************)
(* The poll.  What waits goes to the end, its ask where it was; what has   *)
(* been answered leaves, and its word, where it names it, holds DONE; what *)
(* is refused leaves, left out.                                            *)
(***************************************************************************)

\* A DONE written to the word of a ticket that asked for what is so.
LEMMA WriteWord ==
  ASSUME AnswersInv, NEW k \in Kinds, NEW t \in Tickets, Waits(t, k),
         want[k] = t, word' = [word EXCEPT ![k] = [t |-> t, done |-> TRUE]],
         UNCHANGED <<status, texture, textures, ticket, want, records>>
  PROVE  /\ GuestTypes' /\ HeldOpen'
         /\ word'[k].t = t /\ word'[k].done /\ \A l \in Kinds : l # k => word'[l] = word[l] /\ want[l] # t
         /\ \A l \in Kinds : word'[l].t = want'[l] /\ want'[l] <= ticket' /\ (word'[l].done => want'[l] # 0)
         /\ \A u, kind : u # t /\ Waits(u, kind) => Waits(u, kind)'
  <1>1. word \in [Kinds -> [t : {0} \cup Tickets, done : BOOLEAN]]
    BY DEF AnswersInv, GuestTypes
  <1>2. word' \in [Kinds -> [t : {0} \cup Tickets, done : BOOLEAN]]
    BY <1>1
  <1>3. /\ word'[k].t = t /\ word'[k].done = TRUE
        /\ \A l \in Kinds : l # k => word'[l] = word[l]
    BY <1>1
  <1>4. t # 0
    BY DEF Tickets
  <1>5. \A l \in Kinds : l # k => want[l] # t
    BY DEF Waits
  <1>6. \A l \in Kinds : word[l].t = want[l] /\ want[l] <= ticket /\ (word[l].done => want[l] # 0)
    BY DEF AnswersInv, WordsOK
  <1>7. \A l \in Kinds : word'[l].t = want'[l] /\ want'[l] <= ticket' /\ (word'[l].done => want'[l] # 0)
    BY <1>3, <1>4, <1>6
  <1>8. \A u, kind : u # t /\ Waits(u, kind) => Waits(u, kind)'
    BY <1>3 DEF Waits
  <1>9. GuestTypes' /\ HeldOpen'
    BY <1>2 DEF AnswersInv, GuestTypes, HeldOpen, DeviceAsked
  <1> QED BY <1>3, <1>5, <1>7, <1>8, <1>9

LEMMA PollWaits ==
  ASSUME AnswersInv, PollNext, Head(pending).state = "waiting"
  PROVE  AnswersInv'
  <1>1. /\ stage = "polls" /\ toPoll > 0 /\ toPoll' = toPoll - 1
        /\ pending' = Append(Tail(pending), Head(pending))
        /\ UNCHANGED <<stage, turnAsked, answers, deviceGone, object, decoding, landed, records, work, finished, next, jobs,
                       calling, due, status, texture, textures, ticket, want, word, ended>>
    BY DEF PollNext
  <1>2. pending \in Seq(Pendings) /\ toPoll \in 0 .. Len(pending) /\ Distinct(pending) /\ pending # <<>>
    BY <1>1 DEF AnswersInv, HostTypes, LoopTypes, PendingOK
  <1>3. /\ pending' \in Seq(Pendings) /\ Len(pending') = Len(pending)
        /\ Distinct(pending)' /\ Pended' = Pended /\ Among(pending', pending)
    <2>1. PICK u : u = pending'
      OBVIOUS
    <2>2. u = Append(Tail(pending), Head(pending))
      BY <1>1, <2>1
    <2>3. /\ u \in Seq(Pendings) /\ Len(u) = Len(pending)
          /\ Distinct(u) /\ TicketsOf(u) = TicketsOf(pending) /\ Among(u, pending)
      BY <1>2, <2>2, TicketsTurn
    <2>4. Distinct(pending)'
      BY <2>1, <2>3 DEF Distinct
    <2>5. Pended' = Pended
      BY <2>1, <2>3 DEF Pended, TicketsOf
    <2> QED BY <2>1, <2>3, <2>4, <2>5
  <1>4. Decoded' = Decoded /\ Unrun' = Unrun
    BY <1>1 DEF Decoded, Unrun, Asked
  <1>5. Asks' = Asks
    BY <1>3, <1>4, AsksAre
  <1>6. GuestTypes' /\ HostTypes'
    BY <1>1, <1>3 DEF AnswersInv, GuestTypes, HostTypes
  <1>7. LoopTypes'
    <2>1. toPoll' \in 0 .. Len(pending')
      BY <1>1, <1>2, <1>3
    <2> QED BY <1>1, <2>1 DEF AnswersInv, LoopTypes
  <1>8. \A t, kind : Waits(t, kind)' <=> Waits(t, kind)
    BY <1>1 DEF Waits
  <1>9. RecordsOK' /\ HeldOpen'
    BY <1>1, <1>3, <1>4, <1>8 DEF AnswersInv, RecordsOK, AskOK, Asked, HeldOpen, DeviceAsked
  <1>10. PendingOK'
    <2>1. ASSUME NEW i \in DOMAIN pending' PROVE PendOK(pending[i])'
      <3>1. PICK j \in DOMAIN pending : pending'[i] = pending[j]
        BY <1>3 DEF Among
      <3>2. PendOK(pending[j])
        BY DEF AnswersInv, PendingOK
      <3> QED BY <1>1, <1>4, <1>8, <3>1, <3>2 DEF PendOK
    <2> QED BY <1>3, <2>1 DEF PendingOK
  <1>11. DecodingOK' /\ WordsOK' /\ JobsOK'
    BY <1>1, <1>8 DEF AnswersInv, DecodingOK, DecOK, WordsOK, JobsOK
  <1>12. DoneIsTrue' /\ ImageInPlace' /\ NothingForgotten' /\ WakeFollows'
    BY <1>1, <1>5 DEF AnswersInv, DoneIsTrue, ImageInPlace, NothingForgotten, WakeFollows, CameBack
  <1> QED BY <1>6, <1>7, <1>9, <1>10, <1>11, <1>12 DEF AnswersInv

\* What leaves the list with what it waited for, or refused.
LEMMA PollLeaves ==
  ASSUME AnswersInv, PollNext, Head(pending).state # "waiting"
  PROVE  AnswersInv'
  <1>1. PICK p : p = Head(pending)
    OBVIOUS
  <1>2. /\ stage = "polls" /\ toPoll > 0 /\ toPoll' = toPoll - 1
        /\ pending' = Tail(pending)
        /\ word' = IF p.state = "answered" /\ Stands(p) THEN Written(p) ELSE word
        /\ ended' = IF p.state = "refused" THEN Ends({p.t}, "left") ELSE ended
        /\ UNCHANGED <<stage, turnAsked, answers, deviceGone, object, decoding, landed, records, work, finished, next, jobs,
                       calling, due, status, texture, textures, ticket, want>>
    BY <1>1 DEF PollNext
  <1>3. pending \in Seq(Pendings) /\ toPoll \in 0 .. Len(pending) /\ Distinct(pending) /\ pending # <<>>
    BY <1>2 DEF AnswersInv, HostTypes, LoopTypes, PendingOK
  <1>4. PICK u : u = pending'
    OBVIOUS
  <1>5. /\ u \in Seq(Pendings) /\ Len(pending) \in Nat \ {0} /\ Len(u) = Len(pending) - 1
        /\ Distinct(u) /\ TicketsOf(u) = TicketsOf(pending) \ {p.t} /\ Among(u, pending)
        /\ \E j \in DOMAIN pending : p = pending[j]
    <2>1. u = Tail(pending)
      BY <1>2, <1>4
    <2>2. u \in Seq(Pendings) /\ Len(pending) \in Nat \ {0} /\ Len(u) = Len(pending) - 1
      BY <1>3, <2>1, FromHead
    <2>3. /\ Distinct(u) /\ TicketsOf(u) = TicketsOf(pending) \ {p.t} /\ Among(u, pending)
          /\ \E j \in DOMAIN pending : p = pending[j]
      BY <1>1, <1>3, <2>1, TicketsTail
    <2> QED BY <2>2, <2>3
  <1>6. PICK t \in Tickets : t = p.t
    <2>1. p \in Pendings
      BY <1>3, <1>5
    <2> QED BY <2>1 DEF Pendings
  <1>7. PICK k \in {"done", "map"} : k = p.kind
    <2>1. p \in Pendings
      BY <1>3, <1>5
    <2> QED BY <2>1 DEF Pendings
  <1>8. k \in Kinds /\ k # "image"
    BY DEF Kinds
  <1>9. /\ Waits(t, k) /\ (k = "map" => want["map"] = t) /\ t \notin Decoded
        /\ p.state = "answered" => due[t] <= finished
    BY <1>5, <1>6, <1>7 DEF AnswersInv, PendingOK, PendOK
  <1>10. p.state \in {"answered", "refused"}
    <2>1. p \in Pendings
      BY <1>3, <1>5
    <2> QED BY <1>1, <2>1 DEF Pendings
  <1>11. Distinct(pending)'
    BY <1>4, <1>5 DEF Distinct
  <1>12. Pended' = Pended \ {t} /\ Decoded' = Decoded /\ Unrun' = Unrun
    <2>1. Pended' = Pended \ {t}
      BY <1>4, <1>5, <1>6 DEF Pended, TicketsOf
    <2> QED BY <1>2, <2>1 DEF Decoded, Unrun, Asked
  <1>13. records = <<>> /\ DOMAIN records = {}
    BY <1>2 DEF AnswersInv, RecordsOK
  <1>14. Asks \ {t} \subseteq Asks'
    BY <1>12, AsksAre
  <1>15. ended \in [Tickets -> {"no", "left", "lost"}] /\ ended' \in [Tickets -> {"no", "left", "lost"}]
    BY <1>2 DEF AnswersInv, HostTypes, Ends
  <1>16. \A v \in Tickets : ended'[v] = ended[v] \/ ended'[v] = "left"
    BY <1>2, <1>15 DEF Ends
  <1>17. p.state = "refused" => ended'[t] = "left"
    BY <1>2, <1>6 DEF Ends
  <1>18. \/ UNCHANGED word /\ (p.state = "answered" => ~ Stands(p))
         \/ word' = [word EXCEPT ![k] = [t |-> t, done |-> TRUE]] /\ p.state = "answered" /\ Stands(p)
    BY <1>2, <1>6, <1>7 DEF Written
  <1>19. \A l \in Kinds : word[l].t = want[l] /\ want[l] <= ticket /\ (word[l].done => want[l] # 0)
    BY DEF AnswersInv, WordsOK
  <1>20. word \in [Kinds -> [t : {0} \cup Tickets, done : BOOLEAN]]
    BY DEF AnswersInv, GuestTypes
  <1>21. Stands(p) => want[k] = t
    BY <1>6, <1>7, <1>8, <1>9, <1>19 DEF Stands
  <1>22. ASSUME NEW l \in Kinds, word[l].t = t, p.state = "answered" PROVE Stands(p) /\ l = k
    <2>1. l = k /\ ~ word[k].done /\ word[k].t = t
      BY <1>9, <1>19, <1>22 DEF Waits
    <2>2. word[k] = [t |-> t, done |-> FALSE]
      BY <1>8, <1>20, <2>1
    <2> QED BY <1>6, <1>7, <2>1, <2>2 DEF Stands
  <1>23. /\ GuestTypes' /\ HeldOpen'
         /\ \A l \in Kinds : word'[l].t = want'[l] /\ want'[l] <= ticket' /\ (word'[l].done => want'[l] # 0)
         /\ \A v, kind : v # t /\ Waits(v, kind) => Waits(v, kind)'
         /\ \A l \in Kinds : word'[l] = word[l] \/ (l = k /\ word'[l].t = t /\ word'[l].done /\ want[l] = t /\ p.state = "answered")
         /\ \A l \in Kinds : word[l].t = t /\ p.state = "answered" => word'[l].done
    <2>1. CASE UNCHANGED word /\ (p.state = "answered" => ~ Stands(p))
      <3>1. GuestTypes' /\ HeldOpen'
        BY <1>2, <2>1 DEF AnswersInv, GuestTypes, HeldOpen, DeviceAsked
      <3>2. \A v, kind : v # t /\ Waits(v, kind) => Waits(v, kind)'
        BY <1>2, <2>1 DEF Waits
      <3> QED BY <1>2, <1>19, <1>22, <2>1, <3>1, <3>2
    <2>2. CASE word' = [word EXCEPT ![k] = [t |-> t, done |-> TRUE]] /\ p.state = "answered" /\ Stands(p)
      <3>1. want[k] = t
        BY <1>21, <2>2
      <3>2. /\ GuestTypes' /\ HeldOpen'
            /\ word'[k].t = t /\ word'[k].done /\ \A l \in Kinds : l # k => word'[l] = word[l] /\ want[l] # t
            /\ \A l \in Kinds : word'[l].t = want'[l] /\ want'[l] <= ticket' /\ (word'[l].done => want'[l] # 0)
            /\ \A v, kind : v # t /\ Waits(v, kind) => Waits(v, kind)'
        BY <1>2, <1>8, <1>9, <2>2, <3>1, WriteWord
      <3> QED BY <1>22, <2>2, <3>1, <3>2
    <2> QED BY <1>18, <2>1, <2>2
  <1>24. HostTypes'
    BY <1>2, <1>4, <1>5, <1>15 DEF AnswersInv, HostTypes
  <1>25. LoopTypes'
    <2>1. toPoll' \in 0 .. Len(pending')
      BY <1>2, <1>3, <1>4, <1>5
    <2> QED BY <1>2, <2>1 DEF AnswersInv, LoopTypes
  <1>26. RecordsOK'
    BY <1>2, <1>13 DEF RecordsOK
  <1>27. PendingOK'
    <2>1. ASSUME NEW i \in DOMAIN pending' PROVE PendOK(pending[i])'
      <3>1. PICK j \in DOMAIN pending : pending'[i] = pending[j]
        BY <1>4, <1>5 DEF Among
      <3>2. PendOK(pending[j])
        BY DEF AnswersInv, PendingOK
      <3>3. pending'[i].t \in Pended'
        BY DEF Pended, TicketsOf
      <3>4. pending[j].t # t
        BY <1>12, <3>1, <3>3
      <3> QED BY <1>2, <1>12, <1>23, <3>1, <3>2, <3>4 DEF PendOK
    <2> QED BY <1>11, <2>1 DEF PendingOK
  <1>28. DecodingOK'
    <2>1. ASSUME NEW i \in DOMAIN decoding PROVE DecOK(decoding[i])'
      <3>1. DecOK(decoding[i])
        BY DEF AnswersInv, DecodingOK
      <3>2. decoding[i].t # t
        BY <1>9 DEF Decoded, TicketsOf
      <3> QED BY <1>2, <1>23, <3>1, <3>2 DEF DecOK
    <2> QED BY <1>2, <2>1 DEF AnswersInv, DecodingOK
  <1>29. WordsOK' /\ JobsOK'
    BY <1>2, <1>23 DEF AnswersInv, WordsOK, JobsOK
  <1>30. DoneIsTrue'
    <2>1. ASSUME NEW l \in Kinds, word'[l].done
          PROVE  /\ word'[l].t = want[l]
                 /\ IF l = "image" THEN landed[want[l]] = due[want[l]] ELSE finished >= due[want[l]]
      <3>1. CASE word'[l] = word[l]
        BY <2>1, <3>1 DEF AnswersInv, DoneIsTrue
      <3>2. CASE l = k /\ word'[l].t = t /\ want[l] = t /\ p.state = "answered"
        <4>1. due[t] \in Nat /\ finished \in Nat
          BY DEF AnswersInv, HostTypes
        <4> QED BY <1>8, <1>9, <3>2, <4>1
      <3> QED BY <1>23, <3>1, <3>2
    <2> QED BY <1>2, <2>1 DEF DoneIsTrue
  <1>31. ImageInPlace' /\ WakeFollows'
    BY <1>2 DEF AnswersInv, ImageInPlace, WakeFollows
  <1>32. NothingForgotten'
    <2>1. ASSUME NEW l \in Kinds, word'[l].t # 0, ~ word'[l].done
          PROVE  \/ word'[l].t \in Asks' \/ ended'[word'[l].t] = "left"
                 \/ ended'[word'[l].t] = "lost" /\ status = "lost"
      <3>1. word'[l] = word[l] /\ word[l].t \in Tickets
        BY <1>20, <1>23, <2>1
      <3>2. CASE word[l].t = t
        <4>1. p.state = "refused"
          BY <1>10, <1>23, <2>1, <3>2
        <4> QED BY <1>17, <3>1, <3>2, <4>1
      <3>3. CASE word[l].t # t
        <4>1. \/ word[l].t \in Asks \/ ended[word[l].t] = "left"
              \/ ended[word[l].t] = "lost" /\ status = "lost"
          BY <2>1, <3>1 DEF AnswersInv, NothingForgotten
        <4> QED BY <1>14, <1>16, <3>1, <3>3, <4>1
      <3> QED BY <3>2, <3>3
    <2> QED BY <1>2, <2>1 DEF NothingForgotten
  <1> QED BY <1>23, <1>24, <1>25, <1>26, <1>27, <1>28, <1>29, <1>30, <1>31, <1>32 DEF AnswersInv

\* What came back and what is decoded, or only what came back.
LEMMA LandTypes ==
  ASSUME AnswersInv, answers # <<>>, answers' = Tail(answers),
         UNCHANGED <<next, jobs>>
  PROVE  answers' \in Seq(JobAnswers) /\ JobsOK'
  <1>1. answers \in Seq(JobAnswers) /\ JobsOK
    BY DEF AnswersInv, HostTypes
  <1>2. answers' \in Seq(JobAnswers) /\ \A i \in DOMAIN answers' : i + 1 \in DOMAIN answers /\ answers'[i] = answers[i + 1]
    BY <1>1, FromHead
  <1> QED BY <1>1, <1>2 DEF JobsOK

LEMMA LandPast ==
  ASSUME AnswersInv, LandNext, UNCHANGED <<decoding, word, landed, ended>>
  PROVE  AnswersInv'
  <1>1. /\ stage = "polls" /\ answers # <<>> /\ answers' = Tail(answers)
        /\ UNCHANGED <<stage, toPoll, turnAsked, deviceGone, object, pending, records, work, finished, next, jobs, calling,
                       due, status, texture, textures, ticket, want>>
    BY DEF LandNext
  <1>2. answers' \in Seq(JobAnswers) /\ JobsOK'
    BY <1>1, LandTypes
  <1>3. Pended' = Pended /\ Decoded' = Decoded /\ Asks' = Asks
    BY <1>1 DEF Pended, Decoded, Asks
  <1>4. GuestTypes' /\ HostTypes' /\ LoopTypes'
    BY <1>1, <1>2 DEF AnswersInv, GuestTypes, HostTypes, LoopTypes
  <1>5. \A t, kind : Waits(t, kind)' <=> Waits(t, kind)
    BY <1>1 DEF Waits
  <1>6. RecordsOK' /\ HeldOpen'
    BY <1>1, <1>3, <1>5 DEF AnswersInv, RecordsOK, AskOK, Asked, HeldOpen, DeviceAsked
  <1>7. PendingOK'
    BY <1>1, <1>3, <1>5 DEF AnswersInv, PendingOK, PendOK
  <1>8. DecodingOK' /\ WordsOK'
    BY <1>1, <1>5 DEF AnswersInv, DecodingOK, DecOK, WordsOK
  <1>9. DoneIsTrue' /\ ImageInPlace' /\ NothingForgotten' /\ WakeFollows'
    BY <1>1, <1>3 DEF AnswersInv, DoneIsTrue, ImageInPlace, NothingForgotten, WakeFollows
  <1> QED BY <1>2, <1>4, <1>6, <1>7, <1>8, <1>9 DEF AnswersInv

\* A decode answered, its image in its texture, or nowhere and left out.
LEMMA LandSteps ==
  ASSUME AnswersInv, LandNext, decoding # <<>>, IsOf(Head(decoding), Head(answers)),
         Land(Head(decoding), Head(answers))
  PROVE  AnswersInv'
  <1>1. PICK d : d = Head(decoding)
    OBVIOUS
  <1>2. PICK a : a = Head(answers)
    OBVIOUS
  <1>3. /\ stage = "polls" /\ answers # <<>> /\ answers' = Tail(answers)
        /\ UNCHANGED <<stage, toPoll, turnAsked, deviceGone, object, pending, records, work, finished, next, jobs, calling,
                       due, status, texture, textures, ticket, want>>
    BY DEF LandNext
  <1>4. PICK p : p = [kind |-> "image", t |-> d.t]
    OBVIOUS
  <1>5. PICK into : into = (a.ok /\ object = d.to)
    OBVIOUS
  <1>6. /\ d.job = a.job /\ decoding' = Tail(decoding)
        /\ word' = IF into /\ Stands(p) THEN Written(p) ELSE word
        /\ landed' = IF into THEN [landed EXCEPT ![d.t] = a.job] ELSE landed
        /\ ended' = IF into THEN ended ELSE Ends({d.t}, "left")
    BY <1>1, <1>2, <1>4, <1>5 DEF Land, IsOf
  <1>7. answers' \in Seq(JobAnswers) /\ JobsOK'
    BY <1>3, LandTypes
  <1>8. decoding \in Seq(Decodings) /\ Distinct(decoding)
    BY DEF AnswersInv, HostTypes, DecodingOK
  <1>9. PICK u : u = decoding'
    OBVIOUS
  <1>10. /\ u \in Seq(Decodings)
         /\ Distinct(u) /\ TicketsOf(u) = TicketsOf(decoding) \ {d.t} /\ Among(u, decoding)
         /\ \E j \in DOMAIN decoding : d = decoding[j]
    <2>1. u = Tail(decoding)
      BY <1>6, <1>9
    <2>2. u \in Seq(Decodings)
      BY <1>8, <2>1, FromHead
    <2>3. /\ Distinct(u) /\ TicketsOf(u) = TicketsOf(decoding) \ {d.t} /\ Among(u, decoding)
          /\ \E j \in DOMAIN decoding : d = decoding[j]
      BY <1>1, <1>8, <2>1, TicketsTail
    <2> QED BY <2>2, <2>3
  <1>11. PICK t \in Tickets : t = d.t
    <2>1. d \in Decodings
      BY <1>8, <1>10
    <2> QED BY <2>1 DEF Decodings
  <1>12. "image" \in Kinds
    BY DEF Kinds
  <1>13. Waits(t, "image") /\ d.job = due[t]
    BY <1>10, <1>11 DEF AnswersInv, DecodingOK, DecOK
  <1>14. t \notin Pended
    BY <1>10, <1>11 DEF AnswersInv, PendingOK, PendOK, Pended, Decoded, TicketsOf
  <1>15. Distinct(decoding)'
    BY <1>9, <1>10 DEF Distinct
  <1>16. Decoded' = Decoded \ {t} /\ Pended' = Pended /\ Unrun' = Unrun
    <2>1. Decoded' = Decoded \ {t}
      BY <1>9, <1>10, <1>11 DEF Decoded, TicketsOf
    <2> QED BY <1>3, <2>1 DEF Pended, Unrun, Asked
  <1>17. records = <<>> /\ DOMAIN records = {}
    BY <1>3 DEF AnswersInv, RecordsOK
  <1>18. Asks \ {t} \subseteq Asks'
    BY <1>16, AsksAre
  <1>19. /\ ended \in [Tickets -> {"no", "left", "lost"}] /\ landed \in [Tickets -> Nat] /\ due \in [Tickets -> Nat]
         /\ word \in [Kinds -> [t : {0} \cup Tickets, done : BOOLEAN]]
    BY DEF AnswersInv, HostTypes, GuestTypes
  <1>20. /\ ended' \in [Tickets -> {"no", "left", "lost"}]
         /\ \A v \in Tickets : ended'[v] = ended[v] \/ ended'[v] = "left"
         /\ ~ into => ended'[t] = "left"
    BY <1>6, <1>11, <1>19 DEF Ends
  <1>21. /\ landed' \in [Tickets -> Nat]
         /\ \A v \in Tickets : v # t => landed'[v] = landed[v]
         /\ IF into THEN landed'[t] = due[t] ELSE landed' = landed
    <2>1. due[t] \in Nat
      BY <1>19
    <2> QED BY <1>6, <1>11, <1>13, <1>19, <2>1
  <1>22. /\ \A l \in Kinds : word[l].t = want[l] /\ want[l] <= ticket /\ (word[l].done => want[l] # 0)
         /\ \A v \in Tickets : v > ticket => landed[v] = 0
    BY DEF AnswersInv, WordsOK
  <1>23. \/ UNCHANGED word /\ (into => ~ Stands(p))
         \/ word' = [word EXCEPT !["image"] = [t |-> t, done |-> TRUE]] /\ into /\ Stands(p)
    <2>1. p.kind = "image" /\ p.t = t
      BY <1>4, <1>11
    <2> QED BY <1>6, <2>1 DEF Written
  <1>24. Stands(p) => want["image"] = t
    BY <1>4, <1>11, <1>12, <1>22 DEF Stands
  <1>25. ASSUME NEW l \in Kinds, word[l].t = t PROVE Stands(p) /\ l = "image"
    <2>1. l = "image" /\ ~ word[l].done
      BY <1>13, <1>22, <1>25 DEF Waits
    <2>2. word["image"] = [t |-> t, done |-> FALSE]
      BY <1>12, <1>19, <1>25, <2>1
    <2> QED BY <1>4, <1>11, <2>1, <2>2 DEF Stands
  <1>26. /\ GuestTypes' /\ HeldOpen'
         /\ \A l \in Kinds : word'[l].t = want'[l] /\ want'[l] <= ticket' /\ (word'[l].done => want'[l] # 0)
         /\ \A v, kind : v # t /\ Waits(v, kind) => Waits(v, kind)'
         /\ \A l \in Kinds : \/ word'[l] = word[l] /\ (word[l].done => want[l] # t)
                             \/ l = "image" /\ word'[l].t = t /\ word'[l].done /\ want[l] = t /\ into
         /\ \A l \in Kinds : word[l].t = t /\ into => word'[l].done
    <2>1. CASE UNCHANGED word /\ (into => ~ Stands(p))
      <3>1. GuestTypes' /\ HeldOpen'
        BY <1>3, <2>1 DEF AnswersInv, GuestTypes, HeldOpen, DeviceAsked
      <3>2. \A v, kind : v # t /\ Waits(v, kind) => Waits(v, kind)'
        BY <1>3, <2>1 DEF Waits
      <3>3. \A l \in Kinds : word[l].done => want[l] # t
        BY <1>13 DEF Waits
      <3> QED BY <1>3, <1>22, <1>25, <2>1, <3>1, <3>2, <3>3
    <2>2. CASE word' = [word EXCEPT !["image"] = [t |-> t, done |-> TRUE]] /\ into /\ Stands(p)
      <3>1. want["image"] = t
        BY <1>24, <2>2
      <3>2. PICK k \in Kinds : k = "image"
        BY <1>12
      <3>3. Waits(t, k) /\ want[k] = t /\ word' = [word EXCEPT ![k] = [t |-> t, done |-> TRUE]]
        BY <1>13, <2>2, <3>1, <3>2
      <3>4. /\ GuestTypes' /\ HeldOpen'
            /\ word'["image"].t = t /\ word'["image"].done
            /\ \A l \in Kinds : l # "image" => word'[l] = word[l] /\ want[l] # t
            /\ \A l \in Kinds : word'[l].t = want'[l] /\ want'[l] <= ticket' /\ (word'[l].done => want'[l] # 0)
            /\ \A v, kind : v # t /\ Waits(v, kind) => Waits(v, kind)'
        BY <1>3, <3>2, <3>3, WriteWord
      <3> QED BY <1>25, <2>2, <3>1, <3>4
    <2> QED BY <1>23, <2>1, <2>2
  <1>27. HostTypes'
    BY <1>3, <1>7, <1>9, <1>10, <1>20, <1>21 DEF AnswersInv, HostTypes
  <1>28. LoopTypes' /\ RecordsOK'
    BY <1>3, <1>17 DEF AnswersInv, LoopTypes, RecordsOK
  <1>29. PendingOK'
    <2>1. ASSUME NEW i \in DOMAIN pending PROVE PendOK(pending[i])'
      <3>1. PendOK(pending[i])
        BY DEF AnswersInv, PendingOK
      <3>2. pending[i].t # t
        BY <1>14 DEF Pended, TicketsOf
      <3> QED BY <1>3, <1>16, <1>26, <3>1, <3>2 DEF PendOK
    <2> QED BY <1>3, <2>1 DEF AnswersInv, PendingOK
  <1>30. DecodingOK'
    <2>1. ASSUME NEW i \in DOMAIN decoding' PROVE DecOK(decoding[i])'
      <3>1. PICK j \in DOMAIN decoding : decoding'[i] = decoding[j]
        BY <1>9, <1>10 DEF Among
      <3>2. DecOK(decoding[j])
        BY DEF AnswersInv, DecodingOK
      <3>3. decoding'[i].t \in Decoded'
        BY DEF Decoded, TicketsOf
      <3>4. decoding[j].t # t
        BY <1>16, <3>1, <3>3
      <3> QED BY <1>3, <1>26, <3>1, <3>2, <3>4 DEF DecOK
    <2> QED BY <1>15, <2>1 DEF DecodingOK
  <1>31. WordsOK'
    <2>1. t <= ticket
      BY <1>13 DEF Waits
    <2>2. \A v \in Tickets : v > ticket => v # t
      <3>1. ticket \in Nat /\ t \in Nat
        BY DEF AnswersInv, GuestTypes, Tickets
      <3> QED BY <2>1, <3>1
    <2>3. \A v \in Tickets : v > ticket' => landed'[v] = 0
      BY <1>3, <1>21, <1>22, <2>2
    <2> QED BY <1>3, <1>26, <2>3 DEF AnswersInv, WordsOK
  <1>32. DoneIsTrue'
    <2>1. ASSUME NEW l \in Kinds, word'[l].done
          PROVE  /\ word'[l].t = want[l]
                 /\ IF l = "image" THEN landed'[want[l]] = due[want[l]] ELSE finished >= due[want[l]]
      <3>1. CASE word'[l] = word[l] /\ (word[l].done => want[l] # t)
        <4>1. word[l].done /\ want[l] # t
          BY <2>1, <3>1
        <4>2. want[l] \in Tickets
          BY <1>22, <4>1 DEF AnswersInv, GuestTypes
        <4>3. landed'[want[l]] = landed[want[l]]
          BY <1>21, <4>1, <4>2
        <4> QED BY <3>1, <4>1, <4>3 DEF AnswersInv, DoneIsTrue
      <3>2. CASE l = "image" /\ word'[l].t = t /\ want[l] = t /\ into
        BY <1>21, <3>2
      <3> QED BY <1>26, <3>1, <3>2
    <2> QED BY <1>3, <2>1 DEF DoneIsTrue
  <1>33. ImageInPlace'
    BY <1>3, <1>21 DEF AnswersInv, ImageInPlace
  <1>34. WakeFollows'
    BY <1>3 DEF AnswersInv, WakeFollows
  <1>35. NothingForgotten'
    <2>1. ASSUME NEW l \in Kinds, word'[l].t # 0, ~ word'[l].done
          PROVE  \/ word'[l].t \in Asks' \/ ended'[word'[l].t] = "left"
                 \/ ended'[word'[l].t] = "lost" /\ status = "lost"
      <3>1. word'[l] = word[l] /\ word[l].t \in Tickets
        BY <1>19, <1>26, <2>1
      <3>2. CASE word[l].t = t
        <4>1. ~ into
          BY <1>26, <2>1, <3>2
        <4> QED BY <1>20, <3>1, <3>2, <4>1
      <3>3. CASE word[l].t # t
        <4>1. \/ word[l].t \in Asks \/ ended[word[l].t] = "left"
              \/ ended[word[l].t] = "lost" /\ status = "lost"
          BY <2>1, <3>1 DEF AnswersInv, NothingForgotten
        <4> QED BY <1>18, <1>20, <3>1, <3>3, <4>1
      <3> QED BY <3>2, <3>3
    <2> QED BY <1>3, <2>1 DEF NothingForgotten
  <1> QED BY <1>7, <1>26, <1>27, <1>28, <1>29, <1>30, <1>31, <1>32, <1>33, <1>34, <1>35 DEF AnswersInv

LEMMA EdgeSteps ==
  ASSUME AnswersAssumption, AnswersInv, AnswersRise \/ PollNext \/ LandNext \/ EndPoll
  PROVE  AnswersInv'
  <1>1. CASE AnswersRise
    BY <1>1, LoseSteps, BeginPollSteps DEF AnswersRise
  <1>2. CASE PollNext
    BY <1>2, PollWaits, PollLeaves
  <1>3. CASE LandNext
    <2>1. \/ decoding # <<>> /\ IsOf(Head(decoding), Head(answers)) /\ Land(Head(decoding), Head(answers))
          \/ UNCHANGED <<decoding, word, landed, ended>>
      BY <1>3 DEF LandNext
    <2> QED BY <1>3, <2>1, LandSteps, LandPast
  <1>4. CASE EndPoll
    BY <1>4, GoesOnSteps
  <1> QED BY <1>1, <1>2, <1>3, <1>4

LEMMA AnswersSteps ==
  ASSUME AnswersAssumption, AnswersInv, [AnswersNext]_answersVars
  PROVE  AnswersInv'
  <1>1. CASE AnswersRise \/ PollNext \/ LandNext \/ EndPoll
    BY <1>1, EdgeSteps
  <1>2. CASE AskDevice \/ MakeTexture \/ Destroy
    BY <1>2, AskDeviceSteps, MakeTextureSteps, DestroySteps
  <1>3. ASSUME NEW k \in Kinds, Ask(k) PROVE AnswersInv'
    BY <1>3, AnswerAskSteps
  <1>4. CASE AnswersFall \/ End
    BY <1>4, GoesOnSteps
  <1>5. CASE RunDevice \/ RunTexture \/ RunDestroy
    BY <1>5, RunPlainSteps
  <1>6. CASE RunDone \/ RunMap \/ RunImage
    BY <1>6, RunPendSteps, RunImageSteps
  <1>7. CASE DeviceFinishes \/ DeviceLost
    BY <1>7, FinishSteps, LossSteps
  <1>8. ASSUME NEW i \in DOMAIN pending, NEW st \in {"answered", "refused"}, CallBack(i, st) PROVE AnswersInv'
    BY <1>8, AnswerSteps
  <1>9. ASSUME NEW ok \in BOOLEAN, Decode(ok) PROVE AnswersInv'
    BY <1>9, DecodeSteps
  <1>10. ASSUME NEW by \in {"wgpu", "decoder"}, Wake(by) PROVE AnswersInv'
    BY <1>10, WakeSteps
  <1>11. CASE UNCHANGED answersVars
    <2>1. UNCHANGED <<stage, toPoll, status, texture, textures, ticket, word, records, object, work, finished, pending,
                      decoding, next, jobs, answers, want, due, landed, ended, turnAsked, deviceGone, calling>>
      BY <1>11 DEF answersVars
    <2>2. LoopTypes' /\ WakeFollows'
      BY <2>1 DEF AnswersInv, LoopTypes, WakeFollows, CameBack
    <2>3. stage' \in {"idle", "polls"} => records = <<>>
      BY <2>1 DEF AnswersInv, RecordsOK
    <2> QED BY <2>1, <2>2, <2>3, AnswerTurnSteps
  <1> QED BY <1>1, <1>2, <1>3, <1>4, <1>5, <1>6, <1>7, <1>8, <1>9, <1>10, <1>11 DEF AnswersNext

LEMMA AlwaysAnswers ==
  ASSUME AnswersAssumption
  PROVE  AnswersSpec => []AnswersInv
  <1>1. AnswersInit => AnswersInv
    BY InitAnswers
  <1>2. AnswersInv /\ [AnswersNext]_answersVars => AnswersInv'
    BY AnswersSteps
  <1> QED BY <1>1, <1>2, PTL DEF AnswersSpec

(***************************************************************************)
(* A word holds DONE only of the ticket last taken and of what was done,   *)
(* an image lands where it was asked for or nowhere, and no guest waits    *)
(* for what the host forgot without telling (GpuHost::poll, pending.rs,    *)
(* image.rs).                                                              *)
(***************************************************************************)
THEOREM LandsTrue ==
  ASSUME AnswersAssumption
  PROVE  AnswersSpec => []AnswersLand
  <1>1. AnswersInv => AnswersLand
    <2>1. ASSUME AnswersInv PROVE AnswersTypeOK
      <3>1. {texture, textures, object} \subseteq 0 .. MaxTextures
        BY <2>1 DEF AnswersInv, GuestTypes, HostTypes
      <3>2. Len(records) <= MostOps
        BY <2>1 DEF AnswersInv, GuestTypes
      <3> QED BY <2>1, <3>1, <3>2 DEF AnswersTypeOK, AnswersInv, GuestTypes, HostTypes, LoopTypes
    <2> QED BY <2>1 DEF AnswersLand, AnswersInv
  <1> QED BY <1>1, AlwaysAnswers, PTL
===============================================================================
