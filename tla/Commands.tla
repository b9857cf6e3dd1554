------------------------------ MODULE Commands -------------------------------
(***************************************************************************)
(* The words of a GPU record: as the guest's encoder puts them together    *)
(* from a descriptor (gpu/encode.hpp, encode.cpp), and as the native host  *)
(* takes them apart (rust gpu host/run.rs, word.rs), which reads in order  *)
(* and is told nothing of which parts were left out.                       *)
(*                                                                         *)
(* A word is what it stands for: a field's name, and which element of its  *)
(* list it is of.  A record's words are a shape, a sequence of parts, that *)
(* each side has its own of: two texts of one order.  The writer's shape   *)
(* is filled from a descriptor: of the fields an op may leave out, repeat  *)
(* or choose among, what is given (0 where left out), how many and which;  *)
(* of a list's elements all alike.  No number given is that of NONE, and   *)
(* the kind of a bound resource is its object's.                           *)
(***************************************************************************)
EXTENDS Integers, Sequences, FiniteSets

LOCAL INSTANCE TLC
LOCAL INSTANCE SequencesExt

CONSTANTS
  MostItems,   \* the longest list of a descriptor
  Lengths      \* the lengths of its bytes

CommandsAssumption ==
  /\ MostItems \in 0 .. 3
  /\ Lengths \subseteq Nat

VARIABLES
  sent,   \* the record written, or nothing: [op, of, count, words]
  heard   \* what the host read of it: [at, got, failed]

commandsVars == <<sent, heard>>

Word(name, k) == [name |-> name, k |-> k]
Number(n)     == Word("number", n)
NONE          == Word("none", 0)
Missing       == Word("missing", 0)
Zeros(n)      == [i \in 1 .. n |-> Number(0)]

\* The parts of a shape: words by name, one that may be NONE, bytes, a list
\* of a shape's, a shape that may be absent whole, one of several by its kind.
W(names)               == [i \in DOMAIN names |-> [kind |-> "word", name |-> names[i]]]
Opt(name)              == <<[kind |-> "opt", name |-> name]>>
Text(name)             == <<[kind |-> "bytes", name |-> name]>>
List(name, of)         == <<[kind |-> "list", name |-> name, of |-> of]>>
Part(name, of, absent) == <<[kind |-> "part", name |-> name, of |-> of, absent |-> absent]>>
Kind(name, of, width)  == <<[kind |-> "kind", name |-> name, of |-> of, width |-> width]>>
Either(name, of)       == Part(name, of, << >>)
-----------------------------------------------------------------------------
(***************************************************************************)
(* What a descriptor leaves open.                                          *)
(***************************************************************************)
Given == 0 .. 1   \* left out, or given
Items == 0 .. MostItems

PlainDescriptor == {<< >>}
TextureDescriptor == [view_formats : Items]
ViewDescriptor == [format : Given, dimension : Given, mips : Given, layers : Given]
SamplerDescriptor == [compare : Given]
BindGroupLayoutEntries == [entries : Items, layout : 0 .. 3]
BindGroupEntries == [entries : Items, resource : 0 .. 2, size : Given]
RenderPipelineDescriptor ==
  [layout : Given, vertex_entry : Lengths, buffers : Items, attributes : Items, strip_index_format : Given,
   depth_stencil : Given, fragment : Given, fragment_entry : Lengths, targets : Items, blend : Given]
ComputePipelineDescriptor == [layout : Given, entry : Lengths]
TimestampWrites == [timestamps : Given, begin : Given, end : Given]
RenderPassDescriptor ==
  [colors : Items, resolve : Given, depth_stencil : Given, timestamps : Given, begin : Given, end : Given, occlusion : Given]

Descriptors(op) ==
  CASE op = "TEXTURE" -> TextureDescriptor
    [] op = "VIEW" -> ViewDescriptor
    [] op = "SAMPLER" -> SamplerDescriptor
    [] op = "SHADER_MODULE" -> [wgsl : Lengths]
    [] op = "BIND_GROUP_LAYOUT" -> BindGroupLayoutEntries
    [] op = "PIPELINE_LAYOUT" -> [layouts : Items]
    [] op = "BIND_GROUP" -> BindGroupEntries
    [] op = "RENDER_PIPELINE" -> RenderPipelineDescriptor
    [] op = "COMPUTE_PIPELINE" -> ComputePipelineDescriptor
    [] op = "RENDER_PASS" -> RenderPassDescriptor
    [] op = "COMPUTE_PASS" -> TimestampWrites
    [] op = "SUBMIT" -> [encoders : Items]
    [] op \in {"WRITE_BUFFER", "WRITE_TEXTURE"} -> [bytes : Lengths]
    [] op \in {"CLEAR_BUFFER", "SET_VERTEX_BUFFER", "SET_INDEX_BUFFER"} -> [size : Given]
    [] op = "SET_BIND_GROUP" -> [dynamic_offsets : Items]
    [] OTHER -> PlainDescriptor
-----------------------------------------------------------------------------
(***************************************************************************)
(* The guest's shapes.                                                     *)
(***************************************************************************)
Extent == W(<<"width", "height", "depth">>)
Place(p) == W(<<p \o "texture", p \o "mip", p \o "x", p \o "y", p \o "z", p \o "aspect">>)
Layout(p) == W(<<p \o "buffer", p \o "offset", p \o "bytes_per_row", p \o "rows_per_image">>)
StencilFace(p) == W(<<p \o "compare", p \o "fail", p \o "depth_fail", p \o "pass">>)

\* Mutant of Timestamps: those left out are said by one word.
TimestampsShort == Part("timestamps", W(<<"query_set">>) \o Opt("begin") \o Opt("end"), <<NONE>>)

Timestamps == Part("timestamps", W(<<"query_set">>) \o Opt("begin") \o Opt("end"), <<NONE, NONE, NONE>>)

PutBuffer == W(<<"id", "size", "usage", "mapped">>)
PutTexture ==
  W(<<"id">>) \o Extent \o W(<<"mip_levels", "samples", "dimension", "format", "usage">>)
    \o List("view_formats", W(<<"view_format">>))
PutView ==
  W(<<"id", "texture">>) \o Opt("format") \o Opt("dimension") \o W(<<"aspect", "base_mip">>) \o Opt("mips")
    \o W(<<"base_layer">>) \o Opt("layers")
PutSampler ==
  W(<<"id", "u", "v", "w", "mag", "min", "mipmap", "lod_min", "lod_max">>) \o Opt("compare") \o W(<<"anisotropy">>)
PutShaderModule == W(<<"id">>) \o Text("wgsl")
PutBindGroupLayout ==
  W(<<"id">>) \o
  List("entries",
       W(<<"binding", "visibility">>) \o
       Kind("layout", <<W(<<"buffer_type", "dynamic_offset", "min_size">>), W(<<"sampler_type">>),
                        W(<<"sample_type", "view_dimension", "multisampled">>),
                        W(<<"access", "texel_format", "storage_dimension">>)>>, 3))
PutPipelineLayout == W(<<"id">>) \o List("layouts", W(<<"layout_id">>))

\* Mutant of PutBindGroup: a sampler's and a view's words are not padded to a buffer's.
PutBindGroupUnpadded ==
  W(<<"id", "layout">>) \o
  List("entries",
       W(<<"binding">>) \o
       Kind("resource", <<W(<<"buffer", "offset">>) \o Opt("size"), W(<<"sampler">>), W(<<"view">>)>>, 1))

PutBindGroup ==
  W(<<"id", "layout">>) \o
  List("entries",
       W(<<"binding">>) \o
       Kind("resource", <<W(<<"buffer", "offset">>) \o Opt("size"), W(<<"sampler">>), W(<<"view">>)>>, 3))
PutRenderPipeline ==
  W(<<"id">>) \o Opt("layout") \o W(<<"vertex_module">>) \o Text("vertex_entry") \o
  List("buffers", W(<<"stride", "step">>) \o List("attributes", W(<<"attribute_format", "offset", "location">>))) \o
  W(<<"topology">>) \o Opt("strip_index_format") \o W(<<"front_face", "cull", "unclipped_depth">>) \o
  Part("depth_stencil",
       W(<<"depth_format", "depth_write", "depth_compare">>) \o StencilFace("front_") \o StencilFace("back_") \o
       W(<<"read_mask", "write_mask", "bias", "slope_scale", "clamp">>), <<NONE>> \o Zeros(2 + 8 + 5)) \o
  W(<<"samples", "mask", "alpha_to_coverage">>) \o
  Part("fragment",
       W(<<"fragment_module">>) \o Text("fragment_entry") \o
       List("targets",
            W(<<"target_format">>) \o
            Part("blend", W(<<"color", "color_src", "color_dst", "alpha", "alpha_src", "alpha_dst">>),
                 <<NONE>> \o Zeros(5)) \o
            W(<<"target_mask">>)), <<NONE>> \o Zeros(2))
PutComputePipeline == W(<<"id">>) \o Opt("layout") \o W(<<"module">>) \o Text("entry")
PutQuerySet == W(<<"id", "type", "count">>)
PutRenderPass ==
  W(<<"id", "encoder">>) \o
  List("colors", W(<<"view">>) \o Opt("resolve") \o W(<<"load", "store", "r", "g", "b", "a">>)) \o
  Part("depth_stencil",
       W(<<"depth_view", "depth_load", "depth_store", "depth_clear", "depth_read_only", "stencil_load",
           "stencil_store", "stencil_clear", "stencil_read_only">>), <<NONE>> \o Zeros(8)) \o
  Timestamps \o Opt("occlusion")
PutComputePass == W(<<"id", "encoder">>) \o Timestamps
PutCurrent == W(<<"id", "surface">>)
PutLetGo ==
  [END |-> W(<<"pass">>), SUBMIT |-> List("encoders", W(<<"encoder">>)), DESTROY |-> W(<<"id">>)]

TextureWrite == Place("") \o W(<<"bytes_per_row", "rows_per_image">>) \o Extent
CallWrites ==
  [WRITE_BUFFER |-> W(<<"buffer", "offset">>) \o Text("bytes"),
   WRITE_BUFFER_AT |-> W(<<"buffer", "offset", "address", "size">>),
   WRITE_TEXTURE |-> TextureWrite \o Text("bytes"),
   WRITE_TEXTURE_AT |-> TextureWrite \o W(<<"address", "size">>)]
CallImage ==
  [COPY_EXTERNAL_IMAGE |-> Place("") \o W(<<"flip_y", "premultiplied", "address", "size", "word", "ticket">>)]
CallCopies ==
  [COPY_BUFFER_TO_BUFFER |-> W(<<"encoder", "from", "from_at", "to", "to_at", "size">>),
   COPY_BUFFER_TO_TEXTURE |-> W(<<"encoder">>) \o Layout("from_") \o Place("to_") \o Extent,
   COPY_TEXTURE_TO_BUFFER |-> W(<<"encoder">>) \o Place("from_") \o Layout("to_") \o Extent,
   COPY_TEXTURE_TO_TEXTURE |-> W(<<"encoder">>) \o Place("from_") \o Place("to_") \o Extent,
   CLEAR_BUFFER |-> W(<<"encoder", "buffer", "offset">>) \o Opt("size"),
   RESOLVE_QUERY_SET |-> W(<<"encoder", "query_set", "first", "count", "buffer", "offset">>)]
CallSets ==
  [SET_PIPELINE |-> W(<<"pass", "pipeline">>),
   SET_BIND_GROUP |-> W(<<"pass", "index", "group">>) \o List("dynamic_offsets", W(<<"dynamic_offset">>)),
   SET_VERTEX_BUFFER |-> W(<<"pass", "slot", "buffer", "offset">>) \o Opt("size"),
   SET_INDEX_BUFFER |-> W(<<"pass", "buffer", "format", "offset">>) \o Opt("size"),
   SET_VIEWPORT |-> W(<<"pass", "x", "y", "width", "height", "min", "max">>),
   SET_SCISSOR |-> W(<<"pass", "x", "y", "width", "height">>),
   SET_BLEND_CONSTANT |-> W(<<"pass", "r", "g", "b", "a">>),
   SET_STENCIL_REFERENCE |-> W(<<"pass", "reference">>)]
CallDraws ==
  [DRAW |-> W(<<"pass", "vertices", "instances", "first_vertex", "first_instance">>),
   DRAW_INDEXED |-> W(<<"pass", "indices", "instances", "first_index", "base_vertex", "first_instance">>),
   DRAW_INDIRECT |-> W(<<"pass", "buffer", "offset">>),
   DRAW_INDEXED_INDIRECT |-> W(<<"pass", "buffer", "offset">>),
   DISPATCH |-> W(<<"pass", "x", "y", "z">>),
   DISPATCH_INDIRECT |-> W(<<"pass", "buffer", "offset">>)]
CallHost ==
  [MAP_ASYNC |-> W(<<"buffer", "offset", "size", "into", "word", "ticket">>),
   QUEUE_DONE |-> W(<<"word", "ticket">>),
   CONFIGURE |-> W(<<"surface", "format", "usage", "alpha">>),
   RESIZE |-> W(<<"surface", "width", "height">>),
   DEVICE |-> W(<<"into", "words">>)]

Puts ==
  [BUFFER |-> PutBuffer, TEXTURE |-> PutTexture, VIEW |-> PutView, SAMPLER |-> PutSampler,
   SHADER_MODULE |-> PutShaderModule, BIND_GROUP_LAYOUT |-> PutBindGroupLayout,
   PIPELINE_LAYOUT |-> PutPipelineLayout, BIND_GROUP |-> PutBindGroup, RENDER_PIPELINE |-> PutRenderPipeline,
   COMPUTE_PIPELINE |-> PutComputePipeline, QUERY_SET |-> PutQuerySet, ENCODER |-> W(<<"id">>),
   RENDER_PASS |-> PutRenderPass, COMPUTE_PASS |-> PutComputePass, CURRENT |-> PutCurrent]
  @@ PutLetGo @@ CallWrites @@ CallImage @@ CallCopies @@ CallSets @@ CallDraws @@ CallHost

Ops == DOMAIN Puts
-----------------------------------------------------------------------------
(***************************************************************************)
(* A record written: the same shape is run through twice, once to count    *)
(* its words and once into the room reserved for them.                     *)
(***************************************************************************)
\* Mutant of WordsOf: bytes that end inside a word are counted without it.
WordsOfWhole(n, pass) == IF pass = "count" THEN n \div 4 ELSE Cardinality({b \in 0 .. n - 1 : b % 4 = 0})

WordsOf(n, pass) == IF pass = "count" THEN (n + 3) \div 4 ELSE Cardinality({b \in 0 .. n - 1 : b % 4 = 0})

Padded(words, width) == words \o Zeros(width - Len(words))

RECURSIVE Filled(_, _, _, _)
Filled(shape, d, k, pass) ==
  LET Put(p) ==
        CASE p.kind = "word" -> <<Word(p.name, k)>>
          [] p.kind = "opt" -> <<IF d[p.name] = 0 THEN NONE ELSE Word(p.name, k)>>
          [] p.kind = "bytes" ->
               <<Number(d[p.name])>> \o [i \in 1 .. WordsOf(d[p.name], pass) |-> Word(p.name, i)]
          [] p.kind = "list" ->
               <<Number(d[p.name])>>
               \o FlattenSeq([i \in 1 .. d[p.name] |-> Filled(p.of, d, 4 * k + i, pass)])
          [] p.kind = "part" -> IF d[p.name] = 0 THEN p.absent ELSE Filled(p.of, d, k, pass)
          [] p.kind = "kind" ->
               <<Number(d[p.name])>> \o Padded(Filled(p.of[d[p.name] + 1], d, k, pass), p.width)
  IN  FlattenSeq([i \in DOMAIN shape |-> Put(shape[i])])

Nothing == << >>

CommandsInit == sent = Nothing /\ heard = Nothing

Emit(op) ==
  /\ sent = Nothing
  /\ \E d \in Descriptors(op) :
       sent' = <<[op |-> op, of |-> d, count |-> Len(Filled(Puts[op], d, 0, "count")),
                  words |-> Filled(Puts[op], d, 0, "fill")]>>
  /\ UNCHANGED heard
-----------------------------------------------------------------------------
(***************************************************************************)
(* The host's shapes.                                                      *)
(***************************************************************************)
HeardPlace(p) == W(<<p \o "texture", p \o "mip", p \o "x", p \o "y", p \o "z", p \o "aspect">>)
HeardLayout(p) == W(<<p \o "buffer", p \o "offset", p \o "bytes_per_row", p \o "rows_per_image">>)
HeardExtent == W(<<"width", "height", "depth">>)
HeardTimestamps == Either("timestamps", Opt("query_set") \o Opt("begin") \o Opt("end"))
HeardFace(p) == W(<<p \o "compare", p \o "fail", p \o "depth_fail", p \o "pass">>)

HearBuffer == W(<<"id", "size", "usage", "mapped">>)
HearTexture ==
  W(<<"id">>) \o HeardExtent \o W(<<"mip_levels", "samples", "dimension", "format", "usage">>)
    \o List("view_formats", W(<<"view_format">>))

\* Mutant of HearView: the mips are read before the base.
HearViewMipsFirst ==
  W(<<"id", "texture">>) \o Opt("format") \o Opt("dimension") \o W(<<"aspect">>) \o Opt("mips") \o W(<<"base_mip">>)
    \o W(<<"base_layer">>) \o Opt("layers")

HearView ==
  W(<<"id", "texture">>) \o Opt("format") \o Opt("dimension") \o W(<<"aspect", "base_mip">>) \o Opt("mips")
    \o W(<<"base_layer">>) \o Opt("layers")
HearSampler ==
  W(<<"id", "u", "v", "w", "mag", "min", "mipmap", "lod_min", "lod_max">>) \o Opt("compare") \o W(<<"anisotropy">>)
HearBindGroupLayout ==
  W(<<"id">>) \o
  List("entries",
       W(<<"binding", "visibility">>) \o
       Kind("layout", <<W(<<"buffer_type", "dynamic_offset", "min_size">>), W(<<"sampler_type">>),
                        W(<<"sample_type", "view_dimension", "multisampled">>),
                        W(<<"access", "texel_format", "storage_dimension">>)>>, 3))
HearBindGroup ==
  W(<<"id", "layout">>) \o
  List("entries",
       W(<<"binding">>) \o
       Kind("resource", <<W(<<"buffer", "offset">>) \o Opt("size"), W(<<"sampler">>), W(<<"view">>)>>, 3))
HearRenderPipeline ==
  W(<<"id">>) \o Opt("layout") \o W(<<"vertex_module">>) \o Text("vertex_entry") \o
  List("buffers", W(<<"stride", "step">>) \o List("attributes", W(<<"attribute_format", "offset", "location">>))) \o
  W(<<"topology">>) \o Opt("strip_index_format") \o W(<<"front_face", "cull", "unclipped_depth">>) \o
  Either("depth_stencil",
         Opt("depth_format") \o W(<<"depth_write", "depth_compare">>) \o HeardFace("front_") \o HeardFace("back_") \o
         W(<<"read_mask", "write_mask", "bias", "slope_scale", "clamp">>)) \o
  W(<<"samples", "mask", "alpha_to_coverage">>) \o
  Either("fragment",
         Opt("fragment_module") \o Text("fragment_entry") \o
         List("targets",
              W(<<"target_format">>) \o
              Either("blend", Opt("color") \o W(<<"color_src", "color_dst", "alpha", "alpha_src", "alpha_dst">>)) \o
              W(<<"target_mask">>)))
HearRenderPass ==
  W(<<"id", "encoder">>) \o
  List("colors", W(<<"view">>) \o Opt("resolve") \o W(<<"load", "store", "r", "g", "b", "a">>)) \o
  Either("depth_stencil",
         Opt("depth_view") \o
         W(<<"depth_load", "depth_store", "depth_clear", "depth_read_only", "stencil_load", "stencil_store",
             "stencil_clear", "stencil_read_only">>)) \o
  HeardTimestamps \o Opt("occlusion")
HearShaderModule == W(<<"id">>) \o Text("wgsl")
HearPipelineLayout == W(<<"id">>) \o List("layouts", W(<<"layout_id">>))
HearComputePass == W(<<"id", "encoder">>) \o HeardTimestamps
HearCurrent == W(<<"id", "surface">>)
HearMakers ==
  [COMPUTE_PIPELINE |-> W(<<"id">>) \o Opt("layout") \o W(<<"module">>) \o Text("entry"),
   QUERY_SET |-> W(<<"id", "type", "count">>), DESTROY |-> W(<<"id">>)]
HearLetGo == [END |-> W(<<"pass">>), SUBMIT |-> List("encoders", W(<<"encoder">>))]

HearWrites ==
  LET HeardTextureWrite == HeardPlace("") \o W(<<"bytes_per_row", "rows_per_image">>) \o HeardExtent
  IN  [WRITE_BUFFER |-> W(<<"buffer", "offset">>) \o Text("bytes"),
       WRITE_BUFFER_AT |-> W(<<"buffer", "offset", "address", "size">>),
       WRITE_TEXTURE |-> HeardTextureWrite \o Text("bytes"),
       WRITE_TEXTURE_AT |-> HeardTextureWrite \o W(<<"address", "size">>)]
HearImage ==
  [COPY_EXTERNAL_IMAGE |-> HeardPlace("") \o W(<<"flip_y", "premultiplied", "address", "size", "word", "ticket">>)]
HearCopies ==
  [COPY_BUFFER_TO_BUFFER |-> W(<<"encoder", "from", "from_at", "to", "to_at", "size">>),
   COPY_BUFFER_TO_TEXTURE |-> W(<<"encoder">>) \o HeardLayout("from_") \o HeardPlace("to_") \o HeardExtent,
   COPY_TEXTURE_TO_BUFFER |-> W(<<"encoder">>) \o HeardPlace("from_") \o HeardLayout("to_") \o HeardExtent,
   COPY_TEXTURE_TO_TEXTURE |-> W(<<"encoder">>) \o HeardPlace("from_") \o HeardPlace("to_") \o HeardExtent,
   CLEAR_BUFFER |-> W(<<"encoder", "buffer", "offset">>) \o Opt("size"),
   RESOLVE_QUERY_SET |-> W(<<"encoder", "query_set", "first", "count", "buffer", "offset">>)]
HearSets ==
  [SET_PIPELINE |-> W(<<"pass", "pipeline">>),
   SET_BIND_GROUP |-> W(<<"pass", "index", "group">>) \o List("dynamic_offsets", W(<<"dynamic_offset">>)),
   SET_VERTEX_BUFFER |-> W(<<"pass", "slot", "buffer", "offset">>) \o Opt("size"),
   SET_INDEX_BUFFER |-> W(<<"pass", "buffer", "format", "offset">>) \o Opt("size"),
   SET_VIEWPORT |-> W(<<"pass", "x", "y", "width", "height", "min", "max">>),
   SET_SCISSOR |-> W(<<"pass", "x", "y", "width", "height">>),
   SET_BLEND_CONSTANT |-> W(<<"pass", "r", "g", "b", "a">>),
   SET_STENCIL_REFERENCE |-> W(<<"pass", "reference">>)]
HearDraws ==
  [DRAW |-> W(<<"pass", "vertices", "instances", "first_vertex", "first_instance">>),
   DRAW_INDEXED |-> W(<<"pass", "indices", "instances", "first_index", "base_vertex", "first_instance">>),
   DRAW_INDIRECT |-> W(<<"pass", "buffer", "offset">>),
   DRAW_INDEXED_INDIRECT |-> W(<<"pass", "buffer", "offset">>),
   DISPATCH |-> W(<<"pass", "x", "y", "z">>),
   DISPATCH_INDIRECT |-> W(<<"pass", "buffer", "offset">>)]
HearHost ==
  [MAP_ASYNC |-> W(<<"buffer", "offset", "size", "into", "word", "ticket">>),
   QUEUE_DONE |-> W(<<"word", "ticket">>),
   CONFIGURE |-> W(<<"surface", "format", "usage", "alpha">>),
   RESIZE |-> W(<<"surface", "width", "height">>),
   DEVICE |-> W(<<"into", "words">>)]

Hears ==
  [BUFFER |-> HearBuffer, TEXTURE |-> HearTexture, VIEW |-> HearView, SAMPLER |-> HearSampler,
   SHADER_MODULE |-> HearShaderModule, BIND_GROUP_LAYOUT |-> HearBindGroupLayout,
   PIPELINE_LAYOUT |-> HearPipelineLayout, BIND_GROUP |-> HearBindGroup,
   RENDER_PIPELINE |-> HearRenderPipeline, ENCODER |-> W(<<"id">>), RENDER_PASS |-> HearRenderPass,
   COMPUTE_PASS |-> HearComputePass, CURRENT |-> HearCurrent]
  @@ HearMakers @@ HearLetGo @@ HearWrites @@ HearImage @@ HearCopies @@ HearSets @@ HearDraws @@ HearHost
-----------------------------------------------------------------------------
(***************************************************************************)
(* A record read: a word is taken at a time, and one past the end panics.  *)
(***************************************************************************)
Reader == [at |-> 0, got |-> << >>, failed |-> FALSE]

WordAt(words, r) == IF r.at < Len(words) THEN words[r.at + 1] ELSE Missing

Took(words, r, as, k) ==
  [at |-> r.at + 1, got |-> Append(r.got, [as |-> as, k |-> k, word |-> WordAt(words, r)]),
   failed |-> r.failed \/ WordAt(words, r) = Missing]

Counted(words, r) == [r EXCEPT !.at = @ + 1, !.failed = @ \/ WordAt(words, r).name # "number"]

Kinds(p) == 0 .. Len(p.of) - 1

RECURSIVE HeardIn(_, _, _, _)
HeardIn(shape, words, start, k) ==
  LET HearItem(r, p) ==
        LET after == Counted(words, r)
            n     == WordAt(words, r).k
            items == [i \in 1 .. n |-> i]
            none  == WordAt(words, r) = NONE
        IN  CASE r.failed -> r
              [] p.kind \in {"word", "opt"} -> Took(words, r, p.name, k)
              [] p.kind = "bytes" ->
                   IF after.failed THEN after
                   ELSE FoldLeft(LAMBDA q, i : Took(words, q, p.name, i), after,
                                 [i \in 1 .. (n + 3) \div 4 |-> i])
              [] p.kind = "list" ->
                   IF after.failed THEN after
                   ELSE FoldLeft(LAMBDA q, i : HeardIn(p.of, words, q, 4 * k + i), after, items)
              [] p.kind = "part" ->
                   LET end == HeardIn(p.of, words, r, k)
                   IN  IF none THEN [end EXCEPT !.got = r.got] ELSE end
              [] p.kind = "kind" ->
                   IF after.failed \/ n \notin Kinds(p) THEN [after EXCEPT !.failed = TRUE]
                   ELSE [HeardIn(p.of[n + 1], words, after, k) EXCEPT !.at = after.at + p.width]
  IN  FoldLeft(HearItem, start, shape)

HostRecord ==
  /\ sent # Nothing /\ heard = Nothing
  /\ heard' = <<HeardIn(Hears[sent[1].op], sent[1].words, Reader, 0)>>
  /\ UNCHANGED sent

CommandsNext == (\E op \in Ops : Emit(op)) \/ HostRecord

CommandsSpec == CommandsInit /\ [][CommandsNext]_commandsVars
-----------------------------------------------------------------------------
(***************************************************************************)
(* What is owed of a record.                                               *)
(***************************************************************************)
Named(w) == w.name \notin {"number", "none", "missing"}

\* A record is one op's, by one descriptor; the host reads it once
\* (gpu/encode.hpp, host/run.rs).
CommandsTypeOK ==
  /\ Ops = DOMAIN Hears
  /\ Len(sent) <= 1 /\ Len(heard) <= Len(sent)
  /\ sent # Nothing => sent[1].op \in Ops /\ sent[1].of \in Descriptors(sent[1].op)

\* The words counted before the record is reserved are the words then
\* written: detail::emit's ensure.
RecordsCounted == sent # Nothing => sent[1].count = Len(sent[1].words)

\* The host reads a record to its end and no further, whatever its
\* descriptor left out.
ReadWhole == heard # Nothing => ~heard[1].failed /\ heard[1].at = Len(sent[1].words)

\* Each field is read as what the guest put there, or as left out where the
\* descriptor left it out, and every field put there is read.
ReadsAsMade ==
  heard # Nothing =>
    LET of  == sent[1].of
        got == ToSet(heard[1].got)
    IN  /\ \A g \in got :
             g.word = IF g.as \in DOMAIN of /\ of[g.as] = 0 THEN NONE ELSE Word(g.as, g.k)
        /\ \A i \in DOMAIN sent[1].words :
             Named(sent[1].words[i]) => \E g \in got : g.word = sent[1].words[i]

(***************************************************************************)
(* The words counted for a GPU record are those written, and the host      *)
(* reads them to the last, each field as what the guest put there or left  *)
(* out.                                                                    *)
(***************************************************************************)
CommandsRead ==
  /\ CommandsTypeOK
  /\ RecordsCounted
  /\ ReadWhole
  /\ ReadsAsMade
=============================================================================
