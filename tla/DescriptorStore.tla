--------------------------- MODULE DescriptorStore ----------------------------
(***************************************************************************)
(* The descriptor cache (zona-p2p-overlay/src/descriptor_store.rs) as      *)
(* operators on its entries.  The HashMap is a set with one entry per      *)
(* node_id.  A descriptor's content stands for its content_hash: a number, *)
(* different for different contents, that the merge compares.              *)
(***************************************************************************)
EXTENDS Integers

\* finalised_height of a gossip-only record: below every Some(height).
None == -1

Descriptor(ids) == [node_id : ids, version : Nat, content : Nat, valid : BOOLEAN]
CachedDescriptor(ids) ==
    [descriptor : Descriptor(ids), finalised_height : Nat \cup {None}]

Cached(d, h) == [descriptor |-> d, finalised_height |-> h]

\* Rule 1: finalised height, rule 2: version, rule 3: the lower content hash.
prefer_incoming(incoming, existing) ==
    LET i == incoming.descriptor  e == existing.descriptor
    IN  IF incoming.finalised_height # existing.finalised_height
          THEN incoming.finalised_height > existing.finalised_height
        ELSE IF i.version # e.version THEN i.version > e.version
        ELSE i.content < e.content

Of(entries, id) == {e \in entries : e.descriptor.node_id = id}

\* Mutant: only versions are compared.
UpsertNewer(entries, d, h) ==
    IF d.valid /\ \A e \in Of(entries, d.node_id) : d.version > e.descriptor.version
      THEN (entries \ Of(entries, d.node_id)) \cup {Cached(d, h)}
      ELSE entries

\* A descriptor whose signature does not verify is refused.
upsert(entries, d, h) ==
    IF d.valid /\ \A e \in Of(entries, d.node_id) : prefer_incoming(Cached(d, h), e)
      THEN (entries \ Of(entries, d.node_id)) \cup {Cached(d, h)}
      ELSE entries
==============================================================================
