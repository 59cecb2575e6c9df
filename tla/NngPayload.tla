----------------------------- MODULE NngPayload -----------------------------
(***************************************************************************)
(* The payloads of SEARCH and BATCH_SEARCH in src/src/nng_server.rs, which *)
(* come in an old and an extended format with nothing in them that says    *)
(* which: the server tells them apart by their length alone.               *)
(*                                                                         *)
(* A payload is its length and the words its parser may look at, each      *)
(* named for its offset in bytes. Where one format has a word the other    *)
(* one has the bytes of a query, so that any value may stand there.        *)
(***************************************************************************)
EXTENDS Integers

CONSTANTS
  Word,         \* how many values a u32 has (2^32), and
  Usize,        \* a usize (2^64)
  MaxPayload    \* the bytes of the longest frame the server takes

ASSUME WordAssumption == Word \in Nat \ {0} /\ MaxPayload \in Nat
ASSUME UsizeAssumption ==
  Usize \in Nat /\ Usize % 4 = 0 /\ MaxPayload < Usize /\ 17 + 4 * Word <= Usize

Words == 0..(Word - 1)

Payload == [len : 0..MaxPayload, at8 : Words, at12 : Words, at13 : Words, at17 : Words]

(* A build with overflow checks (the dev profile) panics where one without *)
(* (the release profile) wraps around.                                     *)
Profiles == {"dev", "release"}

Parsed(format, dim, queries) == [format |-> format, dim |-> dim, queries |-> queries]
None == Parsed("none", 0, 0)
Panicked == Parsed("panic", 0, 0)

-----------------------------------------------------------------------------
(* What clients send: examples/nng_client.rs builds the old format,        *)
(* tests/e2e.rs the extended one. The other words, x to z, are options and *)
(* the bytes of queries.                                                   *)

LegacySearch(dim, x, y, z) ==
  [len |-> 12 + 4 * dim, at8 |-> dim, at12 |-> x, at13 |-> y, at17 |-> z]

ExtendedSearch(dim, x, y, z) ==
  [len |-> 17 + 4 * dim, at8 |-> x, at12 |-> y, at13 |-> dim, at17 |-> z]

LegacyBatch(dim, queries, x, y) ==
  [len |-> 16 + 4 * (queries * dim), at8 |-> dim, at12 |-> queries, at13 |-> x, at17 |-> y]

ExtendedBatch(dim, queries, x, y) ==
  [len |-> 21 + 4 * (queries * dim), at8 |-> x, at12 |-> y, at13 |-> dim, at17 |-> queries]

-----------------------------------------------------------------------------
(* Variant: a longer payload will do. *)
ParseSearchAtLeast(p) ==
  IF p.len < 12 THEN None
  ELSE IF p.len >= 17 /\ p.len >= 17 + 4 * p.at13 THEN Parsed("extended", p.at13, 1)
  ELSE IF p.len = 12 + 4 * p.at8 THEN Parsed("legacy", p.at8, 1)
  ELSE None

(* parse_search_payload. One dimension cannot overflow. *)
ParseSearch(p) ==
  IF p.len < 12 THEN None
  ELSE IF p.len >= 17 /\ p.len = 17 + 4 * p.at13 THEN Parsed("extended", p.at13, 1)
  ELSE IF p.len = 12 + 4 * p.at8 THEN Parsed("legacy", p.at8, 1)
  ELSE None

(* The length a header asks for: `header + num_queries * dim * 4`. *)
Exact(header, dim, queries) == header + 4 * (queries * dim)
Overflows(header, dim, queries) == Exact(header, dim, queries) >= Usize
Expected(header, dim, queries) == Exact(header, dim, queries) % Usize

(* Variant: the length of one query is compared. *)
ParseBatchOneQuery(p, profile) ==
  IF p.len < 16 THEN None
  ELSE IF p.len >= 21 /\ profile = "dev" /\ Overflows(21, p.at13, p.at17) THEN Panicked
  ELSE IF p.len >= 21 /\ p.len = Expected(21, p.at13, 1)
       THEN Parsed("extended", p.at13, p.at17)
  ELSE IF profile = "dev" /\ Overflows(16, p.at8, p.at12) THEN Panicked
  ELSE IF p.len = Expected(16, p.at8, p.at12) THEN Parsed("legacy", p.at8, p.at12)
  ELSE None

(* parse_batch_search_payload *)
ParseBatch(p, profile) ==
  IF p.len < 16 THEN None
  ELSE IF p.len >= 21 /\ profile = "dev" /\ Overflows(21, p.at13, p.at17) THEN Panicked
  ELSE IF p.len >= 21 /\ p.len = Expected(21, p.at13, p.at17)
       THEN Parsed("extended", p.at13, p.at17)
  ELSE IF profile = "dev" /\ Overflows(16, p.at8, p.at12) THEN Panicked
  ELSE IF p.len = Expected(16, p.at8, p.at12) THEN Parsed("legacy", p.at8, p.at12)
  ELSE None

-----------------------------------------------------------------------------
VARIABLES
  profile,      \* of the build
  payload,      \* the payload on its way to the server,
  meant,        \* what its client meant by it,
  command,      \* the command it comes with,
  answer        \* and what the server takes it for

payloadVars == <<profile, payload, meant, command, answer>>

NoPayload == [len |-> 0, at8 |-> 0, at12 |-> 0, at13 |-> 0, at17 |-> 0]

PayloadInit ==
  /\ profile \in Profiles
  /\ payload = NoPayload /\ meant = None /\ command = "none" /\ answer = None

SendSearch ==
  /\ command = "none" /\ command' = "search"
  /\ \E dim, x, y, z \in Words :
       \/ payload' = LegacySearch(dim, x, y, z) /\ meant' = Parsed("legacy", dim, 1)
       \/ payload' = ExtendedSearch(dim, x, y, z) /\ meant' = Parsed("extended", dim, 1)
  /\ payload'.len <= MaxPayload
  /\ UNCHANGED <<profile, answer>>

SendBatch ==
  /\ command = "none" /\ command' = "batch"
  /\ \E dim, queries, x, y \in Words :
       \/ /\ payload' = LegacyBatch(dim, queries, x, y)
          /\ meant' = Parsed("legacy", dim, queries)
       \/ /\ payload' = ExtendedBatch(dim, queries, x, y)
          /\ meant' = Parsed("extended", dim, queries)
  /\ payload'.len <= MaxPayload
  /\ UNCHANGED <<profile, answer>>

(* handle_search and handle_batch_search begin with the parser. *)
ParseSearchSent ==
  /\ command = "search" /\ command' = "done"
  /\ answer' = ParseSearch(payload)
  /\ UNCHANGED <<profile, payload, meant>>

ParseBatchSent ==
  /\ command = "batch" /\ command' = "done"
  /\ answer' = ParseBatch(payload, profile)
  /\ UNCHANGED <<profile, payload, meant>>

PayloadNext == SendSearch \/ SendBatch \/ ParseSearchSent \/ ParseBatchSent

PayloadSpec == PayloadInit /\ [][PayloadNext]_payloadVars

-----------------------------------------------------------------------------
TypeOK ==
  /\ profile \in Profiles
  /\ payload \in Payload
  /\ meant \in [format : {"none", "legacy", "extended"}, dim : Words, queries : Words]
  /\ command \in {"none", "search", "batch", "done"}
  /\ answer \in [format : {"none", "legacy", "extended", "panic"}, dim : Words,
                 queries : Words]

(* The two formats are never mistaken for each other, whatever the queries *)
(* hold and whatever the arithmetic wraps around to: a payload is taken    *)
(* for what its client meant, or a build with overflow checks panics.      *)
NeverMistaken == command = "done" => answer \in {meant, Panicked}

(* An extended payload is always taken for what it is: only an old one can *)
(* make its parser overflow, by the bytes it has where the other format    *)
(* has its counts.                                                         *)
ExtendedIsAccepted ==
  command = "done" /\ meant.format = "extended" => answer = meant
=============================================================================
