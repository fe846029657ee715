------------------------------- MODULE SealedData --------------------------------
(***************************************************************************)
(* Sealing: src/sgx-tseal/src/internal.rs and the typed views of it in     *)
(* seal.rs (a secret with additional text) and aad.rs (additional text     *)
(* alone).  An enclave seals data into an object, writes the object to a   *)
(* buffer, reads an object back from a buffer, and opens it.               *)
(*                                                                         *)
(* A buffer outside the enclave, and additional text outside it, belong to *)
(* the host, which may write them between any two reads the enclave makes. *)
(* References to memory another party writes are undefined behaviour in    *)
(* Rust; a read that the compiler repeats or reuses gives a value the      *)
(* memory had at some time, which the host's writes cover.                 *)
(*                                                                         *)
(* The cipher is ideal: a tag opens what it was made for, under the key of *)
(* the request it was made with, and nothing else.  Lengths have the width *)
(* of MaxU32, and sums of them wrap as in a release build.                 *)
(***************************************************************************)
EXTENDS CryptoCalls, FiniteSets

CONSTANTS
  Text,      \* texts callers seal
  AddText,   \* additional texts
  Header,    \* size_of::<sgx_sealed_data_t>()
  Element,   \* sizes of the element type T
  BufferLen, \* lengths of the buffer that callers give
  Lie,       \* values the host writes to the lengths of a buffer
  MaxSeal,   \* how often the enclave seals
  MaxWrite   \* how often the host writes

\* There is room for some payload, and more than a sealed object can hold.
ASSUME SealAssumption ==
  /\ Text \cup AddText \subseteq Seq({0, 1})
  /\ Header \in 1 .. MaxU32 - 2
  /\ Element \subseteq Nat /\ BufferLen \subseteq 0 .. MaxU32 /\ Lie \subseteq 0 .. MaxU32
  /\ MaxSeal \in Nat /\ MaxWrite \in Nat

VARIABLES
  pc,      \* what the enclave's thread does: "idle", or the next step of a call
  local,   \* the arguments and local variables of the call
  object,  \* the SgxInternalSealedData of the enclave, dropped when it starts on another
  raw,     \* the buffer, an sgx_sealed_data_t and the bytes behind it
  outer,   \* additional text that is outside the enclave
  sealed,  \* what has been given a tag
  writes,  \* how often the host has written
  result,  \* what the last step returned to the caller, if it did
  call     \* the call of the cryptographic library that the last step made

vars == <<pc, local, object, raw, outer, sealed, writes, result, call>>

Byte == {0, 1}
U32 == 0 .. MaxU32
Room == MaxU32 - Header - 1  \* payload bytes a buffer may have: MaxU32 is not a size
Tag == 0 .. MaxSeal          \* 0 is the tag of nothing; a request has the number of its tag

\* u32 addition in a release build.
Plus(a, b) == (a + b) % (MaxU32 + 1)

\* The cipher under the key of a request.
Encrypted(request, text) == [i \in DOMAIN text |-> (text[i] + request) % 2]

Object ==
  [key_request : Tag, payload_size : U32, payload_tag : Tag,
   encrypt : UNION {[1 .. n -> Byte] : n \in 0 .. Room},
   additional : UNION {[1 .. n -> Byte] : n \in 0 .. Room},
   whole : BOOLEAN]  \* ghost: as it was sealed, with additional text nobody else writes

Default ==
  [key_request |-> 0, payload_size |-> 0, payload_tag |-> 0,
   encrypt |-> << >>, additional |-> << >>, whole |-> FALSE]

Views == {"T", "slice"}      \* SgxSealedData<T> and SgxSealedData<[T]>

NoResult == [fn |-> "none", ok |-> FALSE, whole |-> FALSE, fits |-> FALSE, refused |-> FALSE,
             request |-> 0, text |-> << >>, additional |-> << >>, elements |-> <<0, 0>>]

TypeOK ==
  /\ pc \in {"idle", "key", "encrypt", "copy", "lengths", "encrypt_len", "payload",
             "encrypt_txt", "additional_txt", "fields"}
  /\ object \in Object
  /\ raw.plain_text_offset \in U32 /\ raw.payload_size \in U32
  /\ raw.payload_tag \in Tag /\ raw.key_request \in Tag
  /\ raw.bytes \in [1 .. Room -> Byte]
  /\ raw.outside \in BOOLEAN /\ raw.whole \in BOOLEAN
  /\ \A e \in sealed : e.tag \in 1 .. MaxSeal /\ Len(e.text) + Len(e.additional) <= Room
  /\ Cardinality(sealed) <= MaxSeal
  /\ writes \in 0 .. MaxWrite

Init ==
  /\ pc = "idle"
  /\ local = << >>
  /\ object = Default
  /\ raw = [key_request |-> 0, plain_text_offset |-> 0, payload_size |-> 0, payload_tag |-> 0,
            bytes |-> [i \in 1 .. Room |-> 0], outside |-> TRUE, whole |-> FALSE]
  /\ outer = << >>
  /\ sealed = {}
  /\ writes = 0
  /\ result = NoResult
  /\ call = NoCall

--------------------------------------------------------------------------------
(* Lengths                                                                     *)

\* SgxInternalSealedData::calc_raw_sealed_data_size, MaxU32 for a size that is too big.
calc_raw_sealed_data_size(add, enc) ==
  IF add > MaxU32 - enc THEN MaxU32
  ELSE IF add + enc > MaxU32 - Header THEN MaxU32
  ELSE Header + add + enc

\* The function of the Intel library that to_raw and from_raw call, and its readers of
\* the two lengths of a buffer.
sgx_calc_sealed_data_size(add, enc) ==
  IF add > MaxU32 - enc \/ add + enc > MaxU32 - Header THEN MaxU32 ELSE Header + add + enc
sgx_get_add_mac_txt_len(b) ==
  IF b.plain_text_offset > b.payload_size THEN MaxU32 ELSE b.payload_size - b.plain_text_offset
sgx_get_encrypt_txt_len(b) ==
  IF b.plain_text_offset > b.payload_size THEN MaxU32 ELSE b.plain_text_offset

\* get_add_mac_txt_len and get_encrypt_txt_len.
TxtLen(o, text) == IF Len(text) > o.payload_size \/ Len(text) >= MaxU32 THEN MaxU32 ELSE Len(text)
get_add_mac_txt_len(o) == TxtLen(o, o.additional)
get_encrypt_txt_len(o) == TxtLen(o, o.encrypt)

\* The bytes the typed views seal: of one value, or of a slice of values.
BytesOfValue(size, n) == n = size
BytesOfSlice(size, n) == size # 0 => n % size = 0
Bytes(view, size, n) == IF view = "T" THEN BytesOfValue(size, n) ELSE BytesOfSlice(size, n)

\* What they make of n bytes that were opened: how many elements, 0 if it is none.
ValueOfBytes(size, n) == IF size # 0 /\ n = size THEN 1 ELSE 0
SliceOfBytes(size, n) == IF size # 0 /\ n % size = 0 THEN n \div size ELSE 0
Elements(view, size, n) == IF view = "T" THEN ValueOfBytes(size, n) ELSE SliceOfBytes(size, n)

--------------------------------------------------------------------------------
(* Sealing                                                                     *)

NoLibraryCall == call' = NoCall
NoReturn == result' = NoResult

Returns(r) == pc' = "idle" /\ local' = << >> /\ result' = r

Failed(fn) == [NoResult EXCEPT !.fn = fn]

\* Mutant: the size of the sealed object is not looked at.
SealArguments_unbounded(op, view, size, text, add, policy_ok, place) ==
  LET payload == IF op = "seal" THEN text ELSE add
  IN /\ size # 0 /\ Len(payload) # 0
     /\ Len(text) < MaxU32 /\ Len(add) < MaxU32
     /\ policy_ok
     /\ Len(add) > 0 => place \in {"inside", "outside"}

\* What the typed wrappers and seal_data_ex or mac_aadata_ex accept.  A text outside
\* the enclave, which seal_data_ex rejects, is left out.
SealArguments(op, view, size, text, add, policy_ok, place) ==
  LET payload == IF op = "seal" THEN text ELSE add
  IN /\ size # 0 /\ Len(payload) # 0
     /\ Len(text) < MaxU32 /\ Len(add) < MaxU32
     /\ calc_raw_sealed_data_size(Len(add), Len(text)) # MaxU32
     /\ policy_ok
     /\ Len(add) > 0 => place \in {"inside", "outside"}

\* seal_data(_ex) and mac_aadata(_ex), up to the random key id: all of the arguments
\* but the additional text are in the enclave.
Seal(op, view, size, text, add, policy_ok, place) ==
  /\ pc = "idle"
  /\ Cardinality(sealed) < MaxSeal
  /\ IF SealArguments(op, view, size, text, add, policy_ok, place)
     THEN /\ pc' = "key"
          /\ local' = [op |-> op, text |-> text, place |-> place]
          /\ outer' = add
          /\ object' = Default
          /\ NoReturn
     ELSE Returns(Failed(op)) /\ UNCHANGED <<outer, object>>
  /\ NoLibraryCall /\ UNCHANGED <<raw, sealed, writes>>

seal_data(view, size, text, add, policy_ok, place) ==
  /\ Bytes(view, size, Len(text))
  /\ Seal("seal", view, size, text, add, policy_ok, place)

mac_aadata(view, size, add, policy_ok, place) ==
  /\ Bytes(view, size, Len(add))
  /\ Seal("mac", view, size, << >>, add, policy_ok, place)

\* Sealing gives up: no randomness, no key, or the library refuses.
seal_fails ==
  /\ pc \in {"key", "encrypt"}
  /\ Returns(Failed(local.op))
  /\ outer' = << >>
  /\ NoLibraryCall /\ UNCHANGED <<object, raw, sealed, writes>>

\* rsgx_read_rand and rsgx_get_align_key.
seal_key ==
  /\ pc = "key"
  /\ pc' = "encrypt"
  /\ NoLibraryCall /\ NoReturn /\ UNCHANGED <<local, object, raw, outer, sealed, writes>>

\* The library reads the additional text where it is.
seal_encrypt ==
  /\ pc = "encrypt"
  /\ LET n == Cardinality(sealed) + 1
     IN /\ call' = rsgx_rijndael128GCM_encrypt(Len(local.text), TRUE, Len(outer), Len(local.text))
        /\ call'.accepted
        /\ sealed' = sealed \cup
             {[tag |-> n, op |-> local.op, text |-> local.text, additional |-> outer]}
        /\ pc' = "copy"
  /\ UNCHANGED <<local, object, raw, outer, writes, result>>

\* The additional text is copied from where it is, for the second time.
seal_copy ==
  /\ pc = "copy"
  /\ LET n == Cardinality(sealed)
     IN object' = [key_request |-> n, payload_size |-> Len(local.text) + Len(outer),
                   payload_tag |-> n, encrypt |-> Encrypted(n, local.text), additional |-> outer,
                   whole |-> outer = << >> \/ local.place = "inside"]
  /\ Returns([Failed(local.op) EXCEPT !.ok = TRUE])
  /\ outer' = << >>
  /\ NoLibraryCall /\ UNCHANGED <<raw, sealed, writes>>

--------------------------------------------------------------------------------
(* Buffers                                                                     *)

\* Mutant: the offset stored is that of the other text.
Written_swapped(o) ==
  [key_request |-> o.key_request, plain_text_offset |-> Len(o.additional),
   payload_size |-> o.payload_size, payload_tag |-> o.payload_tag,
   bytes |-> [i \in 1 .. Room |-> LET t == o.encrypt \o o.additional
                                  IN IF i <= Len(t) THEN t[i] ELSE raw.bytes[i]]]

\* What to_raw_sealed_data_t leaves in a buffer.
Written(o) ==
  [key_request |-> o.key_request, plain_text_offset |-> Len(o.encrypt),
   payload_size |-> o.payload_size, payload_tag |-> o.payload_tag,
   bytes |-> [i \in 1 .. Room |-> LET t == o.encrypt \o o.additional
                                  IN IF i <= Len(t) THEN t[i] ELSE raw.bytes[i]]]

InBuffer(b, outside, whole) ==
  [key_request |-> b.key_request, plain_text_offset |-> b.plain_text_offset,
   payload_size |-> b.payload_size, payload_tag |-> b.payload_tag, bytes |-> b.bytes,
   outside |-> outside, whole |-> whole]

\* to_raw_sealed_data_t into len bytes at a place that is not null and lies within the
\* enclave or outside it.  Where it returns None nothing has changed.
to_raw_sealed_data_t(len, outside) ==
  LET add == get_add_mac_txt_len(object)
      enc == get_encrypt_txt_len(object)
      size == sgx_calc_sealed_data_size(add, enc)
  IN /\ pc = "idle"
     /\ add # MaxU32 /\ enc # MaxU32
     /\ Plus(add, enc) = object.payload_size
     /\ size # MaxU32 /\ len >= size
     /\ raw' = InBuffer(Written(object), outside, object.whole)
     /\ NoLibraryCall /\ NoReturn /\ UNCHANGED <<pc, local, object, outer, sealed, writes>>

\* None, from a buffer as the thread leaves it: whether it should have been Some.
None ==
  Returns([Failed("from_raw") EXCEPT
             !.whole = raw.whole, !.fits = local.len >= Header + raw.payload_size])

\* from_raw_sealed_data_t reads the buffer in six steps.  Element types of size zero
\* and places neither inside nor outside get None before it starts.
from_raw_sealed_data_t(len) ==
  /\ pc = "idle"
  /\ len >= Header
  /\ raw.plain_text_offset <= raw.payload_size
  /\ pc' = "lengths"
  /\ local' = [len |-> len]
  /\ object' = Default
  /\ NoLibraryCall /\ NoReturn /\ UNCHANGED <<raw, outer, sealed, writes>>

read_additional_len ==
  /\ pc = "lengths"
  /\ pc' = "encrypt_len"
  /\ local' = [len |-> local.len, add |-> sgx_get_add_mac_txt_len(raw)]
  /\ NoLibraryCall /\ NoReturn /\ UNCHANGED <<object, raw, outer, sealed, writes>>

read_encrypt_len ==
  /\ pc = "encrypt_len"
  /\ LET enc == sgx_get_encrypt_txt_len(raw)
     IN IF local.add = MaxU32 \/ enc = MaxU32
        THEN None
        ELSE /\ pc' = "payload"
             /\ local' = [len |-> local.len, add |-> local.add, enc |-> enc]
             /\ UNCHANGED result
  /\ NoLibraryCall /\ UNCHANGED <<object, raw, outer, sealed, writes>>

\* Mutant: the buffer needs to have room for the payload, the header is forgotten.
Fits_headerless(add, enc, len) ==
  /\ sgx_calc_sealed_data_size(add, enc) # MaxU32
  /\ len >= Plus(add, enc)

\* The two texts and the header are a size, and the buffer has it.
Fits(add, enc, len) ==
  /\ sgx_calc_sealed_data_size(add, enc) # MaxU32
  /\ len >= sgx_calc_sealed_data_size(add, enc)

check_payload ==
  /\ pc = "payload"
  /\ IF Plus(local.add, local.enc) # raw.payload_size \/ ~Fits(local.add, local.enc, local.len)
     THEN None
     ELSE pc' = "encrypt_txt" /\ UNCHANGED <<local, result>>
  /\ NoLibraryCall /\ UNCHANGED <<object, raw, outer, sealed, writes>>

copy_encrypt ==
  /\ pc = "encrypt_txt"
  /\ pc' = "additional_txt"
  /\ local' = [len |-> local.len, add |-> local.add, enc |-> local.enc,
               encrypt |-> SubSeq(raw.bytes, 1, local.enc)]
  /\ NoLibraryCall /\ NoReturn /\ UNCHANGED <<object, raw, outer, sealed, writes>>

copy_additional ==
  /\ pc = "additional_txt"
  /\ pc' = "fields"
  /\ local' = [encrypt |-> local.encrypt,
               additional |-> SubSeq(raw.bytes, local.enc + 1, local.enc + local.add)]
  /\ NoLibraryCall /\ NoReturn /\ UNCHANGED <<object, raw, outer, sealed, writes>>

\* Some: the key request, the payload size and the tag are read last.
read_fields ==
  /\ pc = "fields"
  /\ object' = [key_request |-> raw.key_request, payload_size |-> raw.payload_size,
                payload_tag |-> raw.payload_tag, encrypt |-> local.encrypt,
                additional |-> local.additional, whole |-> raw.whole]
  /\ Returns([Failed("from_raw") EXCEPT !.ok = TRUE])
  /\ NoLibraryCall /\ UNCHANGED <<raw, outer, sealed, writes>>

--------------------------------------------------------------------------------
(* Opening                                                                     *)

\* What rsgx_rijndael128GCM_decrypt accepts under the key of the request.
Opens(o) ==
  {e \in sealed : /\ e.tag = o.key_request /\ e.tag = o.payload_tag
                  /\ o.encrypt = Encrypted(e.tag, e.text)
                  /\ o.additional = e.additional}

\* unseal_data_helper: the key service or the library may refuse for reasons of their
\* own; an object that was not sealed is refused in any case.
unseal_data_helper(r, elements) ==
  /\ call' = rsgx_rijndael128GCM_decrypt(Len(object.encrypt), TRUE, Len(object.additional),
                                         Len(object.encrypt))
  /\ \/ result' = [r EXCEPT !.refused = TRUE]
     \/ /\ call'.accepted /\ Opens(object) # {}
        /\ result' = [r EXCEPT !.ok = TRUE,
                               !.request = object.key_request,
                               !.elements = elements,
                               !.text = Encrypted(object.key_request, object.encrypt),
                               !.additional = object.additional]
     \/ /\ ~call'.accepted \/ Opens(object) = {}
        /\ result' = r

\* The lengths of an object agree with its payload size.
LengthsAgree(o) ==
  LET add == get_add_mac_txt_len(o)
      enc == get_encrypt_txt_len(o)
  IN /\ add # MaxU32 /\ enc # MaxU32
     /\ calc_raw_sealed_data_size(add, enc) # MaxU32
     /\ Plus(add, enc) = o.payload_size

\* What the caller asked for: whether the text is a view of its kind, and the object is
\* whole and of the kind the call opens.
Asked(fn, view, size, n) ==
  [Failed(fn) EXCEPT !.whole = object.whole /\ (fn = "unmac" => object.encrypt = << >>),
                     !.fits = Elements(view, size, n) # 0]

unseal_data(view, size) ==
  LET enc == get_encrypt_txt_len(object)
      r == Asked("unseal", view, size, enc)
  IN /\ pc = "idle"
     /\ IF r.fits /\ LengthsAgree(object) /\ enc >= 1
        THEN unseal_data_helper(r, <<size, Elements(view, size, enc)>>)
        ELSE result' = r /\ NoLibraryCall
     /\ UNCHANGED <<pc, local, object, raw, outer, sealed, writes>>

\* Mutant: a secret is taken for additional text alone.
unmac_aadata_any(view, size) ==
  LET add == get_add_mac_txt_len(object)
      r == Asked("unmac", view, size, add)
  IN /\ pc = "idle"
     /\ IF r.fits /\ LengthsAgree(object) /\ add >= 1
        THEN unseal_data_helper(r, <<size, Elements(view, size, add)>>)
        ELSE result' = r /\ NoLibraryCall
     /\ UNCHANGED <<pc, local, object, raw, outer, sealed, writes>>

unmac_aadata(view, size) ==
  LET add == get_add_mac_txt_len(object)
      r == Asked("unmac", view, size, add)
  IN /\ pc = "idle"
     /\ IF r.fits /\ LengthsAgree(object) /\ add >= 1 /\ get_encrypt_txt_len(object) = 0
        THEN unseal_data_helper(r, <<size, Elements(view, size, add)>>)
        ELSE result' = r /\ NoLibraryCall
     /\ UNCHANGED <<pc, local, object, raw, outer, sealed, writes>>

--------------------------------------------------------------------------------
(* The host, at any time                                                       *)

HostWrites(b) ==
  /\ raw.outside /\ writes < MaxWrite
  /\ raw' = [b EXCEPT !.whole = FALSE]
  /\ writes' = writes + 1
  /\ NoLibraryCall /\ NoReturn /\ UNCHANGED <<pc, local, object, outer, sealed>>

host_writes_header ==
  \/ \E n \in Lie : HostWrites([raw EXCEPT !.plain_text_offset = n])
  \/ \E n \in Lie : HostWrites([raw EXCEPT !.payload_size = n])
  \/ \E n \in Tag : HostWrites([raw EXCEPT !.payload_tag = n])
  \/ \E n \in Tag : HostWrites([raw EXCEPT !.key_request = n])

host_writes_payload == \E i \in 1 .. Room : HostWrites([raw EXCEPT !.bytes[i] = 1 - @])

\* A buffer the host has kept from an earlier seal is put back.
host_restores ==
  \E e \in sealed :
    HostWrites(InBuffer(Written([key_request |-> e.tag, payload_size |-> Len(e.text) + Len(e.additional),
                                 payload_tag |-> e.tag, encrypt |-> Encrypted(e.tag, e.text),
                                 additional |-> e.additional]), TRUE, FALSE))

\* Additional text outside the enclave changes while it is sealed.
host_writes_outer ==
  /\ pc \in {"key", "encrypt", "copy"} /\ local.place = "outside" /\ writes < MaxWrite
  /\ \E i \in DOMAIN outer : outer' = [outer EXCEPT ![i] = 1 - @]
  /\ writes' = writes + 1
  /\ NoLibraryCall /\ NoReturn /\ UNCHANGED <<pc, local, object, raw, sealed>>

--------------------------------------------------------------------------------
\* The enclave's other uses of the library; here before it seals anything.
other_call ==
  /\ pc = "idle" /\ sealed = {} /\ result = NoResult /\ writes = 0 /\ call = NoCall
  /\ call' \in Calls
  /\ UNCHANGED <<pc, local, object, raw, outer, sealed, writes, result>>

Next ==
  \/ \E view \in Views, size \in Element, add \in AddText, policy_ok \in BOOLEAN,
        place \in {"inside", "outside", "astride"} :
       /\ ~policy_ok \/ add = << >> => place = "inside"
       /\ \/ \E text \in Text : seal_data(view, size, text, add, policy_ok, place)
          \/ mac_aadata(view, size, add, policy_ok, place)
  \/ seal_fails \/ seal_key \/ seal_encrypt \/ seal_copy
  \/ \E len \in BufferLen, outside \in BOOLEAN : to_raw_sealed_data_t(len, outside)
  \/ \E len \in BufferLen : from_raw_sealed_data_t(len)
  \/ read_additional_len \/ read_encrypt_len \/ check_payload
  \/ copy_encrypt \/ copy_additional \/ read_fields
  \/ \E view \in Views, size \in Element : unseal_data(view, size) \/ unmac_aadata(view, size)
  \/ host_writes_header \/ host_writes_payload \/ host_restores \/ host_writes_outer
  \/ other_call

Spec == Init /\ [][Next]_vars

--------------------------------------------------------------------------------
\* Whatever the host writes and whenever, what opens is a text the enclave has sealed,
\* with the additional text it was sealed with, through the call of its kind and in
\* elements that make up exactly its bytes.
OpensOnlySealed ==
  result.ok /\ result.fn \in {"unseal", "unmac"} =>
    \E e \in sealed :
      /\ e.tag = result.request
      /\ e.op = (IF result.fn = "unseal" THEN "seal" ELSE "mac")
      /\ e.text = result.text /\ e.additional = result.additional
      /\ result.elements[1] * result.elements[2] = Len(IF e.op = "seal" THEN e.text ELSE e.additional)

\* However the fields of a buffer change between the reads, the texts that are copied
\* from it lie within the length the caller gave.
CopyInBounds ==
  pc \in {"encrypt_txt", "additional_txt"} =>
    Header + local.enc + local.add <= local.len

\* An object sealed from memory of the enclave opens, straight away and after a trip
\* through a buffer nobody has written, with any view that fits it; so does the buffer
\* read back as an object.
SealedOpens ==
  result.fn \in {"from_raw", "unseal", "unmac"} /\ result.whole /\ result.fits /\ ~result.refused =>
    result.ok

\* The library is told the truth about its buffers by every call but two: the HMAC calls
\* pass a length the i32 has no room for, and the sizes of an RSA key are not compared
\* with its components.
LibraryToldTruth ==
  call.fn \notin {"hmac", "rsa_key_pair", "rsa_key"} => Faithful(call)
================================================================================
