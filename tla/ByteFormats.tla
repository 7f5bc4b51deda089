----------------------------- MODULE ByteFormats -----------------------------
(***************************************************************************)
(* What is written to files and streams, byte for byte: numbers of a       *)
(* width and an order of bytes (io/serialization.rs), blocks               *)
(* (streams/block_serializer.rs), the envelope of compressed data          *)
(* (streams/compressed_data.rs), limits (streams/decode_limits.rs),        *)
(* instances (streams/instance_data.rs) and the header of a region file    *)
(* (streams/region).                                                       *)
(*                                                                         *)
(* A byte has ByteBase values, its low nibble Nibble of them.  A float is  *)
(* stored by its bits: floats are numbers of four bytes here.              *)
(* The rotation of an instance is its four bytes.                          *)
(***************************************************************************)
EXTENDS Integers, Sequences, FiniteSets, SequencesExt

CONSTANTS
  ByteBase, Nibble,  \* 256 and 16 in the code
  MaxChannels,       \* 8 in the code
  Magic,             \* the four bytes at the end
  MaxDecompressed,   \* what the envelope allows at most
  MaxBytes, MaxBlockVoxels   \* DecodeLimits

\* An outcome: what was read, or an error.
Ok(value) == [error |-> "none", value |-> value]
Err(error) == [error |-> error, value |-> <<>>]

Error(condition, error, outcome) == IF condition THEN Err(error) ELSE outcome

-----------------------------------------------------------------------------
(* Numbers.                                                                *)

\* store_8, store_16, store_32, store_64
Store(v, width, endianness) ==
  LET little == [i \in 1 .. width |-> (v \div ByteBase ^ (i - 1)) % ByteBase]
  IN  IF endianness = "little" THEN little ELSE Reverse(little)

ValueOf(bytes, endianness) ==
  FoldLeft(LAMBDA n, b : n * ByteBase + b, 0, IF endianness = "little" THEN Reverse(bytes) ELSE bytes)

\* A reader at a position: whether it has n bytes more, and n bytes after some others.
Reader(src, endianness) == [src |-> src, pos |-> 0, endianness |-> endianness]
Has(r, n) == r.pos + n <= Len(r.src)
Take(r, after, n) == SubSeq(r.src, r.pos + after + 1, r.pos + after + n)
Skip(r, n) == [r EXCEPT !.pos = @ + n]
Number(r, after, width) == ValueOf(Take(r, after, width), r.endianness)

-----------------------------------------------------------------------------
(* Blocks.  A channel: its compression, its depth (0 for one byte, 1 for   *)
(* two ..) and its voxels, one if it is uniform.                           *)

Version == 4
MaxSize == ByteBase * ByteBase - 1
Volume(size) == size[1] * size[2] * size[3]
Width(depth) == 2 ^ depth
NotCompressed == 0
Uniform == 1

PackFormat(compression, depth) == compression + depth * Nibble
UnpackFormat(fmt) == [compression |-> fmt % Nibble, depth |-> fmt \div Nibble]
Unpacks(fmt) == fmt % Nibble \in {NotCompressed, Uniform} /\ fmt \div Nibble \in 0 .. 3

StoreChannel(channel) ==
  <<PackFormat(channel.compression, channel.depth)>>
  \o FlattenSeq([i \in DOMAIN channel.voxels |-> Store(channel.voxels[i], Width(channel.depth), "little")])

Serialize(buffer) ==
  IF Volume(buffer.size) = 0 THEN Err("EmptyBuffer")
  ELSE IF \E i \in 1 .. 3 : buffer.size[i] > MaxSize THEN Err("SizeOverflow")
  ELSE Ok(<<Version>> \o FlattenSeq([i \in 1 .. 3 |-> Store(buffer.size[i], 2, "little")])
          \o FlattenSeq([c \in 1 .. MaxChannels |-> StoreChannel(buffer.channels[c])]) \o Magic)

VoxelsOf(bytes, width) ==
  [i \in 1 .. Len(bytes) \div width |-> ValueOf(SubSeq(bytes, (i - 1) * width + 1, i * width), "little")]

\* The next channel, with the reader behind it.
ReadChannel(r, size) ==
  LET fmt == Number(r, 0, 1)
      f == UnpackFormat(fmt)
      w == Width(f.depth)
      n == IF f.compression = Uniform THEN w ELSE w * Volume(size)
  IN  IF ~ Has(r, 1) THEN Err("UnexpectedEof")
      ELSE IF ~ Unpacks(fmt) THEN Err("InvalidFormat")
      ELSE IF ~ Has(r, 1 + n) THEN Err("UnexpectedEof")
      ELSE Ok([r |-> Skip(r, 1 + n),
               channel |-> [compression |-> f.compression, depth |-> f.depth, voxels |-> VoxelsOf(Take(r, 1, n), w)]])

RECURSIVE ReadChannels(_, _, _)
ReadChannels(r, size, channels) ==
  IF Len(channels) = MaxChannels THEN Ok([r |-> r, channels |-> channels])
  ELSE LET next == ReadChannel(r, size) IN
    IF next.error # "none" THEN Err(next.error)
    ELSE ReadChannels(next.value.r, size, Append(channels, next.value.channel))

LimitsAllow(voxels) == voxels <= MaxBlockVoxels /\ voxels * MaxChannels * 8 <= MaxBytes

\* What is left before the magic is a section of metadata, or wrong.
MetadataOutcome(src, pos, buffer) ==
  LET left == Len(src) - Len(Magic) - pos
      declared == ValueOf(SubSeq(src, pos + 1, pos + 4), "little")
  IN  IF left <= 0 THEN Ok([buffer |-> buffer, lost |-> FALSE])
      ELSE IF left < 4 THEN Err("UnexpectedEof")
      ELSE IF 4 + declared # left THEN Err("InvalidFormat")
      ELSE Ok([buffer |-> buffer, lost |-> declared > 0])

DeserializeWithLimits(src) ==
  LET r == Reader(src, "little")
      size == [i \in 1 .. 3 |-> Number(r, 2 * i - 1, 2)]
      channels == ReadChannels(Skip(r, 7), size, <<>>)
  IN  IF Len(src) < Len(Magic) THEN Err("UnexpectedEof")
      ELSE IF SubSeq(src, Len(src) - Len(Magic) + 1, Len(src)) # Magic THEN Err("BadTrailingMagic")
      ELSE IF Number(r, 0, 1) # Version THEN Err("UnsupportedVersion")
      ELSE IF ~ Has(r, 7) THEN Err("UnexpectedEof")
      ELSE IF ~ LimitsAllow(Volume(size)) THEN Err("Limit")
      ELSE IF channels.error # "none" THEN Err(channels.error)
      ELSE MetadataOutcome(src, channels.value.r.pos, [size |-> size, channels |-> channels.value.channels])

-----------------------------------------------------------------------------
(* The envelope.  Runs of bytes stand in for LZ4: a code that may be       *)
(* longer or shorter than what it stands for, and malformed.               *)

Modes == [None |-> 0, Lz4Be |-> 1, Lz4 |-> 2, Zstd |-> 3]

RECURSIVE Lz4Compress(_)
Lz4Compress(src) ==
  IF src = <<>> THEN <<>>
  ELSE LET same == {n \in 1 .. Len(src) : n < ByteBase /\ \A i \in 1 .. n : src[i] = src[1]}
           n == CHOOSE m \in same : \A k \in same : k <= m
       IN  <<n, src[1]>> \o Lz4Compress(SubSeq(src, n + 1, Len(src)))
Lz4Decompress(payload) ==
  IF Len(payload) % 2 = 1 \/ \E i \in 1 .. Len(payload) \div 2 : payload[2 * i - 1] = 0 THEN Err("Lz4")
  ELSE Ok(FlattenSeq([i \in 1 .. Len(payload) \div 2 |-> [j \in 1 .. payload[2 * i - 1] |-> payload[2 * i]]]))

CompressLz4(src, endianness, mode) == <<mode>> \o Store(Len(src), 4, endianness) \o Lz4Compress(src)

Compress(src, mode) ==
  CASE mode = Modes.None -> Ok(<<mode>> \o src)
    [] mode = Modes.Lz4Be -> Ok(CompressLz4(src, "big", mode))
    [] mode = Modes.Lz4 -> Ok(CompressLz4(src, "little", mode))
    [] mode = Modes.Zstd -> Err("Unsupported")

DecompressLz4(src, endianness) ==
  LET r == Reader(src, endianness)
      declared == Number(r, 1, 4)
      bytes == Lz4Decompress(SubSeq(src, 6, Len(src)))
  IN  IF ~ Has(r, 5) THEN Err("UnexpectedEof")
      ELSE IF declared > MaxDecompressed THEN Err("InvalidSize")
      ELSE IF declared > MaxBytes THEN Err("Limit")
      ELSE IF bytes.error # "none" \/ Len(bytes.value) # declared THEN Err("Lz4")
      ELSE bytes

DecompressWithLimits(src) ==
  IF src = <<>> THEN Err("UnexpectedEof")
  ELSE CASE src[1] = Modes.None -> Error(Len(src) - 1 > MaxBytes, "Limit", Ok(Tail(src)))
         [] src[1] = Modes.Lz4Be -> DecompressLz4(src, "big")
         [] src[1] = Modes.Lz4 -> DecompressLz4(src, "little")
         [] src[1] = Modes.Zstd -> Err("Unsupported")
         [] OTHER -> Err("InvalidCompression")

SerializeAndCompress(buffer, mode) ==
  LET raw == Serialize(buffer) IN IF raw.error # "none" THEN raw ELSE Compress(raw.value, mode)
DecompressAndDeserialize(src) ==
  LET raw == DecompressWithLimits(src) IN IF raw.error # "none" THEN raw ELSE DeserializeWithLimits(raw.value)

-----------------------------------------------------------------------------
(* Instances: positions from 0 to the range in steps of two bytes, scales  *)
(* from the least to the greatest in steps of one.  What is read is in     *)
(* units of a step: v stands for v * range / PositionSteps.                *)

PositionSteps == ByteBase * ByteBase - 1
ScaleSteps == ByteBase - 1
AtLeast(a, b) == IF a < b THEN b ELSE a
\* a float cast to an integer of so many steps
Cast(n, steps) == IF n < 0 THEN 0 ELSE IF n > steps THEN steps ELSE n

StoreInstance(instance, range, min, max) ==
  FlattenSeq([i \in 1 .. 3 |-> Store(Cast((PositionSteps * instance.position[i]) \div range, PositionSteps), 2, "little")])
  \o <<Cast(((instance.scale - min) * ScaleSteps) \div (max - min), ScaleSteps)>> \o instance.rotation

StoreLayer(layer, range) ==
  LET max == AtLeast(layer.max, layer.min + 1)
  IN  Store(layer.id, 2, "little") \o Store(Len(layer.instances), 2, "little")
      \o Store(layer.min, 4, "little") \o Store(max, 4, "little") \o <<0>>
      \o FlattenSeq([i \in DOMAIN layer.instances |-> StoreInstance(layer.instances[i], range, layer.min, max)])

SerializeInstances(block) ==
  IF block.range < 0 \/ \E i \in DOMAIN block.layers : block.layers[i].max < block.layers[i].min THEN Err("refused")
  ELSE LET range == AtLeast(block.range, 1)
       IN  Ok(<<1, Len(block.layers) % ByteBase>> \o Store(range, 4, "little")
              \o FlattenSeq([i \in DOMAIN block.layers |-> StoreLayer(block.layers[i], range)]) \o Magic)

RECURSIVE ReadInstances(_, _, _)
ReadInstances(r, n, instances) ==
  IF n = 0 THEN Ok([r |-> r, instances |-> instances])
  ELSE IF ~ Has(r, 11) THEN Err("UnexpectedEof")
  ELSE ReadInstances(Skip(r, 11), n - 1,
         Append(instances, [position |-> [d \in 1 .. 3 |-> Number(r, 2 * (d - 1), 2)],
                            scale |-> Number(r, 6, 1), rotation |-> Take(r, 7, 4)]))

\* the id, how many instances, the least and the greatest scale, the format
RECURSIVE ReadLayers(_, _, _)
ReadLayers(r, n, layers) ==
  LET read == ReadInstances(Skip(r, 13), Number(r, 2, 2), <<>>)
  IN  IF n = 0 THEN Ok([r |-> r, layers |-> layers])
      ELSE IF ~ Has(r, 12) THEN Err("UnexpectedEof")
      ELSE IF Number(r, 8, 4) < Number(r, 4, 4) THEN Err("InvalidRange")
      ELSE IF ~ Has(r, 13) THEN Err("UnexpectedEof")
      ELSE IF Number(r, 12, 1) # 0 THEN Err("UnsupportedInstanceFormat")
      ELSE IF read.error # "none" THEN Err(read.error)
      ELSE ReadLayers(read.value.r, n - 1,
             Append(layers, [id |-> Number(r, 0, 2), min |-> Number(r, 4, 4), max |-> Number(r, 8, 4),
                             instances |-> read.value.instances]))

DeserializeInstances(src) ==
  LET version == src[1]
      r == Reader(src, IF version = 0 THEN "big" ELSE "little")
      layers == ReadLayers(Skip(r, 6), Number(r, 1, 1), <<>>)
      end == layers.value.r
  IN  IF src = <<>> THEN Err("UnexpectedEof")
      ELSE IF version \notin {0, 1} THEN Err("UnsupportedVersion")
      ELSE IF ~ Has(r, 6) THEN Err("UnexpectedEof")
      ELSE IF layers.error # "none" THEN Err(layers.error)
      ELSE IF ~ Has(end, 4) THEN Err("UnexpectedEof")
      ELSE IF Number(end, 0, 4) # ValueOf(Magic, "little") THEN Err("BadTrailingMagic")
      ELSE Ok([range |-> Number(r, 2, 4), layers |-> layers.value.layers])

-----------------------------------------------------------------------------
(* The header of a region file: a format, and the table of its blocks.  An *)
(* entry of the table is the number of its first sector, in three bytes,   *)
(* and how many it has, in one.                                            *)

RegionMagic == <<5, 9, 2, 13>>
RegionVersion == 3
MaxBlocksAcross == ByteBase - 1
MaxEntrySectors == ByteBase - 1
MaxSectorIndex == ByteBase ^ 3 - 1
PaletteBytes == ByteBase * 4
EntryBytes == 4

BlockCount(format) == Volume(format.region)
SectorsPerBlock(format) ==
  LET bytes == FoldLeft(+, 0, [c \in 1 .. MaxChannels |-> Width(format.depths[c]) * 2 ^ (3 * format.po2)])
  IN  (bytes + format.sector - 1) \div format.sector

ValidateResult(format) ==
  CASE \E i \in 1 .. 3 : format.region[i] <= 0 \/ format.region[i] >= MaxBlocksAcross -> "InvalidRegionAxis"
    [] format.po2 = 0 -> "InvalidBlockSizePo2"
    [] format.sector = 0 -> "InvalidSectorSize"
    [] SectorsPerBlock(format) > MaxEntrySectors -> "SectorCountOverflow"
    [] BlockCount(format) * SectorsPerBlock(format) > MaxSectorIndex -> "SectorIndexOverflow"
    [] OTHER -> "none"

FixedHeaderSize == 1 + 3 + MaxChannels + 2 + 1
HeaderSize(format) == 5 + FixedHeaderSize + Len(format.palette) + EntryBytes * BlockCount(format)

VerifyBlock(format, buffer) ==
  /\ \A i \in 1 .. 3 : buffer.size[i] = 2 ^ format.po2
  /\ \A c \in 1 .. MaxChannels : buffer.channels[c].depth = format.depths[c]

TryNew(index, count) ==
  IF index > MaxSectorIndex \/ count > MaxEntrySectors THEN Err("RegionBlockInfoOverflow")
  ELSE Ok(index * ByteBase + count)
SectorIndex(data) == data \div ByteBase
SectorCountOf(data) == data % ByteBase
SetSectorIndex(data, i) == TryNew(i, SectorCountOf(data))
SetSectorCount(data, c) == TryNew(SectorIndex(data), c)

\* the place of a block in the table, and its inverse
BlockIndex(format, p) == p[2] + format.region[2] * (p[1] + format.region[1] * p[3])
BlockPositionFromIndex(format, i) ==
  LET xz == i \div format.region[2]
  IN  <<xz % format.region[1], i % format.region[2], xz \div format.region[1]>>

SaveHeader(format, blocks) ==
  RegionMagic \o <<RegionVersion, format.po2>> \o format.region \o format.depths \o Store(format.sector, 2, "little")
  \o <<IF format.palette # <<>> THEN ByteBase - 1 ELSE 0>> \o format.palette
  \o FlattenSeq([i \in DOMAIN blocks |-> Store(blocks[i], EntryBytes, "little")])

LoadHeader(src) ==
  LET r == Reader(src, "little")
      field(i, n) == Take(r, 4 + i, n)
      flag == field(FixedHeaderSize, 1)[1]
      table == 5 + FixedHeaderSize + (IF flag = 0 THEN 0 ELSE PaletteBytes)
      format == [po2 |-> field(1, 1)[1], region |-> field(2, 3), depths |-> field(5, MaxChannels),
                 sector |-> Number(r, 9 + MaxChannels, 2),
                 palette |-> Take(r, 5 + FixedHeaderSize, table - 5 - FixedHeaderSize)]
  IN  IF ~ Has(r, 5) \/ Take(r, 0, 4) # RegionMagic THEN Err("BadHeader")
      ELSE IF Number(r, 4, 1) # RegionVersion THEN Err("UnsupportedVersion")
      ELSE IF ~ Has(r, 5 + FixedHeaderSize) \/ \E c \in 1 .. MaxChannels : field(4 + c, 1)[1] \notin 0 .. 3 THEN Err("BadHeader")
      ELSE IF flag \notin {0, ByteBase - 1} \/ ~ Has(r, table) THEN Err("BadHeader")
      ELSE IF ValidateResult(format) # "none" \/ ~ Has(r, table + EntryBytes * BlockCount(format)) THEN Err("BadHeader")
      ELSE Ok([format |-> format,
               blocks |-> [i \in 1 .. BlockCount(format) |-> Number(r, table + EntryBytes * (i - 1), EntryBytes)]])

-----------------------------------------------------------------------------
(* Properties.                                                             *)

\* What a block holds: a value has as many bytes as its depth.
Held(buffer) ==
  [buffer EXCEPT !.channels = [c \in 1 .. MaxChannels |->
     [@[c] EXCEPT !.voxels = [i \in DOMAIN @ |-> @[i] % ByteBase ^ Width(buffer.channels[c].depth)]]]]

\* A block reads back as it was in every mode of compression, unless it is larger than the
\* limits allow; no limit is asked when it is saved (serialize, decompress_and_deserialize).
BlockReadsBack(buffer, mode) ==
  LET length == Len(Serialize(buffer).value)
      tooLarge == \E i \in 1 .. 3 : buffer.size[i] > MaxSize
  IN  \A saved \in {SerializeAndCompress(buffer, mode)} : \A loaded \in {DecompressAndDeserialize(saved.value)} :
      CASE Volume(buffer.size) = 0 -> saved = Err("EmptyBuffer")
        [] tooLarge -> saved = Err("SizeOverflow")
        [] mode = Modes.Zstd /\ ~ tooLarge /\ Volume(buffer.size) > 0 -> saved = Err("Unsupported")
        [] OTHER ->
             IF mode # Modes.None /\ length > MaxDecompressed THEN loaded = Err("InvalidSize")
             ELSE IF length > MaxBytes \/ ~ LimitsAllow(Volume(buffer.size)) THEN loaded = Err("Limit")
             ELSE loaded = Ok([buffer |-> Held(buffer), lost |-> FALSE])

\* Whatever bytes are accepted are those of the block that was read, with or without a
\* section of metadata, unless the last channel reaches into the magic; and no block is
\* larger than the limits.  A stream that lacks some of its end is refused.
Sections(src, raw) ==
  \E n \in 0 .. Len(src) : src = SubSeq(raw, 1, Len(raw) - Len(Magic)) \o Store(n, 4, "little")
                                 \o SubSeq(src, Len(raw) - Len(Magic) + 5, Len(src) - Len(Magic)) \o Magic
                           /\ Len(src) = Len(raw) + 4 + n
AcceptedIsCanonical(src) ==
  \A read \in {r \in {DeserializeWithLimits(src)} : r.error = "none"} :
    \A raw \in {Serialize(read.value.buffer).value} :
        /\ LimitsAllow(Volume(read.value.buffer.size))
        /\ Volume(read.value.buffer.size) > 0 =>
             \/ src = raw /\ ~ read.value.lost
             \/ Sections(src, raw) /\ (read.value.lost <=> Len(src) > Len(raw) + 4)
             \/ Len(src) < Len(raw) /\ ~ read.value.lost
CutIsRefused(buffer, n) ==
  \A raw \in {Serialize(buffer).value} : n < Len(raw) =>
    \A cut \in {SubSeq(raw, 1, n)} : SubSeq(cut, n - Len(Magic) + 1, n) # Magic => DeserializeWithLimits(cut).error # "none"

\* Layers of instances read back to the step, unless there are more than a byte can count.
Steps(block) ==
  [range |-> AtLeast(block.range, 1),
   layers |-> [l \in DOMAIN block.layers |->
     LET layer == block.layers[l]
         max == AtLeast(layer.max, layer.min + 1)
     IN [layer EXCEPT !.max = max, !.instances = [i \in DOMAIN @ |->
           [position |-> [d \in 1 .. 3 |-> Cast((@[i].position[d] * PositionSteps) \div AtLeast(block.range, 1), PositionSteps)],
            scale |-> Cast(((@[i].scale - layer.min) * ScaleSteps) \div (max - layer.min), ScaleSteps),
            rotation |-> @[i].rotation]]]]]
InstancesReadBack(block) ==
  \A saved \in {s \in {SerializeInstances(block)} : s.error = "none"} :
    \A bytes \in {SubSeq(saved.value, 1, n) : n \in 0 .. Len(saved.value)} : \A read \in {DeserializeInstances(bytes)} :
      IF bytes = saved.value THEN read = Ok(Steps(block)) <=> Len(block.layers) < ByteBase
      ELSE read.error # "none"

\* The header of a valid format reads back unless its sectors do not fit in two bytes, and a
\* header that is cut does not; entries and places keep their parts.
HeaderReadsBack(format, blocks) ==
  \A src \in {SaveHeader(format, blocks)} :
      ValidateResult(format) = "none" =>
        /\ Len(src) = HeaderSize(format)
        /\ \A bytes \in {SubSeq(src, 1, n) : n \in 0 .. Len(src)} : \A read \in {LoadHeader(bytes)} :
             IF bytes = src THEN read = Ok([format |-> format, blocks |-> blocks]) <=> format.sector < ByteBase * ByteBase
             ELSE read.error # "none"
        /\ \A i \in 0 .. BlockCount(format) - 1 : BlockIndex(format, BlockPositionFromIndex(format, i)) = i
EntriesKeepTheirParts(index, count, other) ==
  LET entry == TryNew(index, count)
  IN  IF index > MaxSectorIndex \/ count > MaxEntrySectors THEN entry.error # "none"
      ELSE /\ SectorIndex(entry.value) = index /\ SectorCountOf(entry.value) = count
           /\ other <= MaxSectorIndex => SectorCountOf(SetSectorIndex(entry.value, other).value) = count
           /\ other <= MaxEntrySectors => SectorIndex(SetSectorCount(entry.value, other).value) = index

=============================================================================
