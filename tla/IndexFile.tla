------------------------------ MODULE IndexFile ------------------------------
(***************************************************************************)
(* The index file of src/src/storage.rs: save_index writes it region by    *)
(* region, fills in the header and then the checksum, and may stop at any  *)
(* point; load_index, load_index_mmap and MmapIndex::open                  *)
(* (src/src/mmap_index.rs) read it.                                        *)
(*                                                                         *)
(* A file is a sequence of cells, each a record named for what it holds: a *)
(* header, a rotation, a centroid, the entry of an id, the metadata of a   *)
(* partition, a vector, the payloads, a version or a part of the checksum. *)
(* Offsets count cells from 0.  A CRC is the cells it was computed over:   *)
(* no two of the files compared have the same CRC by chance.               *)
(***************************************************************************)
EXTENDS Integers, Sequences, SequencesExt, FiniteSetsExt

CONSTANTS
  Vectors,     \* vectors and centroids
  Indexes,     \* what is saved: [rotation, centroids, partitions, raw, payloads, nextId]
  CrcBufs,     \* sizes of the buffer of the streaming check (CRC_STREAM_BUF)
  SumCells     \* cells of the checksum (4 bytes)

(* What new, and build from no fewer vectors than partitions, make and adds*)
(* keep (IndexInv of the module IvfIndex).                                 *)
ASSUME IndexesAssumption ==
  \A x \in Indexes :
    /\ x = [rotation |-> x.rotation, centroids |-> x.centroids, partitions |-> x.partitions,
            raw |-> x.raw, payloads |-> x.payloads, nextId |-> x.nextId]
    /\ x.centroids \in Seq(Vectors) /\ x.raw \in Seq(Vectors)
    /\ x.partitions \in Seq(Seq(Nat)) /\ Len(x.partitions) = Len(x.centroids)
    /\ \A i \in DOMAIN x.partitions : ToSet(x.partitions[i]) \subseteq 0..Len(x.raw) - 1

ASSUME SizesAssumption == CrcBufs \subseteq Nat \ {0} /\ SumCells \in Nat \ {0}

VARIABLES
  file,        \* the cells
  stage,       \* what save_index writes next, "done" or "dead"
  index,       \* what it saves
  regions,     \* where it wrote what: the local variables *_offset and *_len
  intact       \* no cell has changed since the save

vars == <<file, stage, index, regions, intact>>

Blank == [blank |-> TRUE]
Junk == [junk |-> TRUE]
Region(off, len) == [off |-> off, len |-> len]

-----------------------------------------------------------------------------
(* Saving. *)

RegionStages == <<"rotation", "centroids", "data", "meta", "raw", "payload", "manifest">>
Stages == RegionStages \o <<"header", "checksum", "done">>
After(s) == Stages[(CHOOSE i \in 1..Len(Stages) - 1 : Stages[i] = s) + 1]

(* Variant: every partition begins where the data begin. *)
MetaOfNoBase(ps, base, i) ==
  [meta |-> [off |-> base, len |-> Len(ps[i]), count |-> Len(ps[i])]]

(* PartitionMeta: where the entries of a partition are.                    *)
MetaOf(ps, base, i) ==
  [meta |-> [off |-> base + Len(FlattenSeq(SubSeq(ps, 1, i - 1))),
             len |-> Len(ps[i]), count |-> Len(ps[i])]]

SumPart(crc, i) == [crc |-> crc, part |-> i]
NoSum == [i \in 1..SumCells |-> Blank]

(* The cells of a region of the index x, whose data began at base. *)
Cells(s, x, base) ==
  CASE s = "rotation"  -> <<[rotation |-> x.rotation]>>
    [] s = "centroids" -> [i \in 1..Len(x.centroids) |-> [centroid |-> x.centroids[i]]]
    [] s = "data"      -> LET ids == FlattenSeq(x.partitions)
                          IN  [i \in 1..Len(ids) |-> [id |-> ids[i]]]
    [] s = "meta"      -> [i \in 1..Len(x.partitions) |-> MetaOf(x.partitions, base, i)]
    [] s = "raw"       -> [i \in 1..Len(x.raw) |-> [vector |-> x.raw[i]]]
    [] s = "payload"   -> <<[payloads |-> x.payloads]>>
    [] s = "manifest"  -> <<[version |-> x.nextId]>> \o NoSum

HeaderOf(x, rs) ==
  [partitions |-> Len(x.partitions), vectors |-> Len(x.raw), nextId |-> x.nextId,
   regions |-> rs]

(* Variant: the version is blanked with the checksum. *)
CoveredShort(f, h) ==
  LET sum == h.regions["manifest"].off
  IN  [i \in 1..Len(f) - 1 |-> IF i >= sum /\ i < sum + 1 + SumCells THEN Blank ELSE f[i + 1]]

(* The cells a checksum covers: all but the header, its own blanked.       *)
Covered(f, h) ==
  LET sum == h.regions["manifest"].off + 1
  IN  [i \in 1..Len(f) - 1 |-> IF i >= sum /\ i < sum + SumCells THEN Blank ELSE f[i + 1]]

Begin(x) ==
  /\ stage \in {"none", "done", "dead"}
  /\ file' = <<Blank>>
  /\ stage' = "rotation" /\ index' = x /\ regions' = <<>> /\ intact' = TRUE

CellsNow == Cells(stage, index, IF stage = "meta" THEN regions["data"].off ELSE 0)

RegionNow == Region(Len(file), Len(CellsNow))

WriteRegion ==
  /\ stage \in ToSet(RegionStages)
  /\ file' = file \o CellsNow
  /\ regions' = [s \in DOMAIN regions \cup {stage} |->
                  IF s = stage THEN RegionNow ELSE regions[s]]
  /\ stage' = After(stage)
  /\ UNCHANGED <<index, intact>>

FillHeader ==
  /\ stage = "header"
  /\ file' = ReplaceAt(file, 1, [header |-> HeaderOf(index, regions)])
  /\ stage' = After(stage)
  /\ UNCHANGED <<index, regions, intact>>

FillChecksum ==
  /\ stage = "checksum"
  /\ LET first == regions["manifest"].off + 2
         crc == Covered(file, file[1].header)
     IN  file' = [i \in 1..Len(file) |->
           IF i >= first /\ i < first + SumCells THEN SumPart(crc, i - first + 1) ELSE file[i]]
  /\ stage' = After(stage)
  /\ UNCHANGED <<index, regions, intact>>

(* The process dies, or a write fails, with a part of a region written.    *)
Stop ==
  /\ stage \in ToSet(Stages) \ {"done"}
  /\ stage' = "dead"
  /\ \/ UNCHANGED file
     \/ /\ stage \in ToSet(RegionStages)
        /\ \E n \in 1..Len(CellsNow) : file' = file \o SubSeq(CellsNow, 1, n)
  /\ UNCHANGED <<index, regions, intact>>

(* A cell behind the header goes bad on the disk; metadata may still look  *)
(* like metadata.                                                          *)
Corrupt ==
  /\ stage = "done" /\ intact
  /\ \E i \in 2..Len(file) :
       \E c \in {Junk} \cup IF "meta" \in DOMAIN file[i]
                            THEN LET m == file[i].meta
                                 IN  {[meta |-> [m EXCEPT !.off = @ + 1]],
                                      [meta |-> [m EXCEPT !.len = @ + 100]],
                                      [meta |-> [m EXCEPT !.count = @ + 1]]}
                            ELSE {} :
         file' = ReplaceAt(file, i, c)
  /\ intact' = FALSE
  /\ UNCHANGED <<stage, index, regions>>

-----------------------------------------------------------------------------
(* Loading: [kind |-> "ok", index], or an error or a panic. *)

Error == [kind |-> "error"]
Panic == [kind |-> "panic"]
Ok(x) == [kind |-> "ok", index |-> x]

Has(f, r) == r.off + r.len <= Len(f)
Slice(f, r) == SubSeq(f, r.off + 1, r.off + r.len)

(* Header::deserialize and the checks of magic and version. *)
HasHeader(f) == Len(f) >= 1 /\ "header" \in DOMAIN f[1]

(* Variant: a checksum of zero is taken for none. *)
StoredIfAny(f, h) ==
  LET sum == Slice(f, Region(h.regions["manifest"].off + 1, SumCells))
  IN  IF sum = NoSum THEN [i \in 1..SumCells |-> SumPart(Covered(f, h), i)] ELSE sum

(* The stored checksum. *)
Stored(f, h) == Slice(f, Region(h.regions["manifest"].off + 1, SumCells))
SumOf(crc) == [i \in 1..SumCells |-> SumPart(crc, i)]

(* The cells of the window from..to-1 with those of lo..hi-1 blanked.      *)
Blanked(cells, from, to, lo, hi) ==
  [i \in 1..Len(cells) |->
     IF to > lo /\ from < hi /\ from + i - 1 >= lo /\ from + i - 1 < hi THEN Blank ELSE cells[i]]

(* verify_checksum_streaming with a buffer of w cells: what its CRC covers.*)
Streamed(f, h, w) ==
  LET lo == h.regions["manifest"].off + 1
      From(i) == 1 + (i - 1) * w
      Size(i) == Min({w, Len(f) - From(i)})
      Window(i) == Blanked(Slice(f, Region(From(i), Size(i))),
                           From(i), From(i) + Size(i), lo, lo + SumCells)
  IN  FlattenSeq([i \in 1..(Len(f) - 1 + w - 1) \div w |-> Window(i)])

Metas(f, h) == LET cells == Slice(f, h.regions["meta"]) IN [i \in 1..h.partitions |-> cells[i].meta]

(* What the header and the regions hold once they are known to be whole.   *)
IndexIn(f, h) ==
  LET rs == h.regions
      raw == Slice(f, rs["raw"])
      centroids == Slice(f, rs["centroids"])
      Ids(m) == LET cells == Slice(f, Region(m.off, m.count)) IN [i \in 1..m.count |-> cells[i].id]
  IN  [rotation |-> f[rs["rotation"].off + 1].rotation,
       centroids |-> [i \in 1..h.partitions |-> centroids[i].centroid],
       partitions |-> [i \in 1..h.partitions |-> Ids(Metas(f, h)[i])],
       raw |-> [i \in 1..h.vectors |-> raw[i].vector],
       payloads |-> f[rs["payload"].off + 1].payloads,
       nextId |-> h.nextId]

(* from_parts indexes by id. *)
FromParts(x) ==
  IF \E i \in DOMAIN x.partitions : \E id \in ToSet(x.partitions[i]) : id >= Len(x.raw)
  THEN Panic ELSE Ok(x)

(* The regions that have a length of their own besides the counts of the   *)
(* header are indexed by those counts.                                     *)
ShortRegion(h) ==
  \/ h.regions["centroids"].len < h.partitions
  \/ h.regions["meta"].len < h.partitions
  \/ h.regions["raw"].len < h.vectors

(* load_index reads all regions and then checks the checksum. *)
LoadIndex(f) ==
  IF ~HasHeader(f) THEN Error
  ELSE LET h == f[1].header
           metaCells == Slice(f, h.regions["meta"])
           bad == {i \in 1..h.partitions :
                     \/ "meta" \notin DOMAIN metaCells[i]
                     \/ ~Has(f, Region(metaCells[i].meta.off, metaCells[i].meta.len))
                     \/ metaCells[i].meta.count > metaCells[i].meta.len}
           first == metaCells[Min(bad)]
       IN  IF \E s \in DOMAIN h.regions : ~Has(f, h.regions[s]) THEN Error
           ELSE IF ShortRegion(h) THEN Panic
           ELSE IF bad # {}
                THEN IF "meta" \in DOMAIN first /\ Has(f, Region(first.meta.off, first.meta.len))
                     THEN Panic ELSE Error
           ELSE IF "payloads" \notin DOMAIN f[h.regions["payload"].off + 1] THEN Error
           ELSE IF Stored(f, h) # SumOf(Covered(f, h)) THEN Error
           ELSE FromParts(IndexIn(f, h))

(* load_index_mmap checks first, then slices the mapping. *)
LoadIndexMmap(f) ==
  IF ~HasHeader(f) THEN Error
  ELSE LET h == f[1].header
       IN  IF Stored(f, h) # SumOf(Covered(f, h)) THEN Error
           ELSE IF ShortRegion(h) \/ \E s \in DOMAIN h.regions : ~Has(f, h.regions[s]) THEN Panic
           ELSE FromParts(IndexIn(f, h))

(* MmapIndex::open checks with a buffer of w cells, and its searches read  *)
(* the entries and vectors.                                                *)
Open(f, w) ==
  IF ~HasHeader(f) THEN Error
  ELSE LET h == f[1].header
       IN  IF Stored(f, h) # SumOf(Streamed(f, h, w)) THEN Error
           ELSE IF \E s \in DOMAIN h.regions : ~Has(f, h.regions[s]) THEN Error
           ELSE IF ShortRegion(h) THEN Panic
           ELSE Ok(IndexIn(f, h))

Outcomes == {LoadIndex(file), LoadIndexMmap(file)} \cup {Open(file, w) : w \in CrcBufs}

-----------------------------------------------------------------------------
Init ==
  /\ file = <<>> /\ stage = "none" /\ regions = <<>> /\ intact = TRUE
  /\ index \in Indexes

Next ==
  \/ \E x \in Indexes : Begin(x)
  \/ WriteRegion \/ FillHeader \/ FillChecksum
  \/ Stop \/ Corrupt

Spec == Init /\ [][Next]_vars

-----------------------------------------------------------------------------
(* A file whose save did not come to its end, wherever it stopped, is an   *)
(* error to every loader: nobody sees a part of an index, and nobody       *)
(* panics on one.                                                          *)
TornIsError == stage # "done" => Outcomes = {Error}

(* A finished file gives every loader exactly the index that was saved.    *)
SavedIsLoaded == stage = "done" /\ intact => Outcomes = {Ok(index)}

(* "校验 manifest checksum": no loader takes a file with a changed cell     *)
(* behind the header for an index, whole buffer or streamed.               *)
CorruptIsRefused == ~intact => \A o \in Outcomes : o.kind # "ok"
=============================================================================
