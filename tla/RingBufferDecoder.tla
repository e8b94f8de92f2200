-------------------------- MODULE RingBufferDecoder -------------------------
(***************************************************************************)
(* The ring buffer decoder (Core/CRingBufferDecoder.cpp): it cuts the      *)
(* bytes of a data source into ring items and dispatches them.             *)
(*                                                                         *)
(* CRunControl::OnBuffer reads a buffer from the source.  The decoder asks *)
(* for variable length reads (blockMode), so a read returns any number of  *)
(* bytes and an item may be cut anywhere.  What a buffer leaves over waits *)
(* for the next: an item with its whole header in the partial event, up to *)
(* a header of bytes in the glued buffer.  Whether the bytes of an item    *)
(* are swapped is told from its type when a buffer begins with an item,    *)
(* and the layout of a body from the last format item (the helper).        *)
(***************************************************************************)
EXTENDS Naturals, Sequences, SequencesExt

CONSTANTS
  SizeBytes,     \* sizeof(s_size), scaled down
  HeaderSize,    \* sizeof(RingItemHeader), scaled down
  ItemSizes,     \* sizes of the items of a source, headers included
  Orders,        \* byte orders of sources
  SwappedSize,   \* what an item's size is in the other byte order
  GarbageSizes,  \* what bytes that are no header may be taken to mean
  BufferSize,    \* bytes CTCLRunFileHandler asks CRunControl for
  MaxItems,      \* bound on the items of a source
  MaxSources,    \* bound on the sources the user attaches
  NoTranslator   \* m_pTranslator is null

ASSUME HeaderAssumption ==
  /\ SizeBytes \in Nat \ {0} /\ HeaderSize \in Nat /\ SizeBytes < HeaderSize
  /\ ItemSizes \subseteq Nat /\ \A s \in ItemSizes : s >= HeaderSize
  /\ SwappedSize \in Nat \ {0} /\ GarbageSizes \subseteq Nat
  /\ BufferSize \in Nat \ {0} /\ MaxItems \in Nat /\ MaxSources \in Nat
  /\ NoTranslator \notin Orders

VARIABLES
  attached,     \* number of sources attached so far; 0: none
  unread,       \* bytes of the attached source the decoder has not been given
  rest,         \* bytes from m_pBufferCursor on, m_nResidual of them
  partial,      \* m_pPartialEvent, m_nPartialEventBytes of it filled
  partialSize,  \* m_nPartialEventSize
  glue,         \* m_pGluedBuffer; <<>> when null
  translator,   \* the byte order m_pTranslator is made for
  helper,       \* the source whose format item made m_pCurrentHelper; 0: null
  exited,       \* has SpecTcl exited on an exception of the decoder?
  input,        \* bytes given to this decoder (history)
  dispatched,   \* items this decoder dispatched: [bytes, helper] (history)
  damage        \* what may have put the decoder out of step (history)

bufferVars == <<rest, partial, partialSize, glue>>
history == <<input, dispatched, damage>>
vars == <<attached, unread, bufferVars, translator, helper, exited, history>>

---------------------------------------------------------------------------
(* Bytes and items *)

\* An item is a record and its bytes are numbered; byte i of an item with the
\* header in bytes 1 .. HeaderSize, the size in the first SizeBytes of them.
Items(src, order, sizes, formatted) ==
  [n \in DOMAIN sizes |-> [src |-> src, n |-> n, size |-> sizes[n],
                           order |-> order, format |-> formatted /\ n = 1]]
Bytes(item) == [i \in 1 .. item.size |-> [item |-> item, at |-> i]]

\* The first n bytes are the first bytes of one item.
StartsItem(bytes, n) ==
  /\ Len(bytes) >= n
  /\ \A i \in 1 .. n : bytes[i] = [item |-> bytes[1].item, at |-> i]

\* TranslateLong(s_size).
Sizes(bytes) ==
  IF StartsItem(bytes, SizeBytes)
  THEN {IF bytes[1].item.order = translator THEN bytes[1].item.size
                                            ELSE SwappedSize}
  ELSE GarbageSizes

\* The type is RING_FORMAT; bytes that are no header are taken for other types.
IsFormat(bytes) ==
  /\ StartsItem(bytes, HeaderSize)
  /\ bytes[1].item.format /\ bytes[1].item.order = translator

Minimum(a, b) == IF a < b THEN a ELSE b
Drop(bytes, n) == SubSeq(bytes, n + 1, Len(bytes))

\* Bytes that wait for the next buffer.
Held == partial \o glue

---------------------------------------------------------------------------
(* The decoder *)

\* The type of the first item is in the last bytes of its header: a buffer
\* shorter than a header leaves them as new[] found them.
TypeOrders(buf) ==
  IF StartsItem(buf, HeaderSize) THEN {buf[1].item.order} ELSE Orders

\* variant: a translator is made for the first buffer only
CreateTranslatorOnce(buf) ==
  /\ translator' \in IF translator = NoTranslator THEN TypeOrders(buf)
                                                  ELSE {translator}
  /\ UNCHANGED damage
CreateTranslator(buf) ==
  /\ translator' \in TypeOrders(buf)
  /\ damage' = damage \union
       IF translator' = buf[1].item.order THEN {} ELSE {"wrong order"}

\* dispatchEvent; a format item creates the helper it is itself parsed with.
DispatchEvent(bytes) ==
  LET now == IF IsFormat(bytes) THEN bytes[1].item.src ELSE helper
  IN  /\ helper' = now
      /\ dispatched' = Append(dispatched, [bytes |-> bytes, helper |-> now])

\* Bytes of a buffer that belong to the partial event.
AppendAll(buf) == Len(buf)                                \* variant: no limit
AppendSize(buf) == Minimum(Len(buf), partialSize - Len(partial))

\* The head of processBuffer: complete the partial event, then put the glued
\* buffer in front of the buffer.
AppendBuffer(buf) ==
  LET append == IF partial = <<>> THEN 0 ELSE AppendSize(buf)
      full   == partial \o SubSeq(buf, 1, append)
      done   == partial # <<>> /\ partialSize <= Len(full)
  IN  /\ IF done THEN DispatchEvent(full) ELSE UNCHANGED <<helper, dispatched>>
      /\ partial' = IF done THEN <<>> ELSE full
      /\ rest' = IF glue = <<>> THEN Drop(buf, append) ELSE glue \o buf
      /\ glue' = IF glue = <<>> THEN <<>> ELSE glue \o buf
      /\ UNCHANGED partialSize

\* CRunControl::OnBuffer and the decoder's operator().
OnBuffer ==
  /\ rest = <<>> /\ ~exited
  /\ \E n \in 1 .. Minimum(BufferSize, Len(unread)) :
       LET buf == SubSeq(unread, 1, n)
       IN  /\ unread' = Drop(unread, n)
           /\ input' = input \o buf
           /\ IF Held = <<>> THEN CreateTranslator(buf)
                             ELSE UNCHANGED <<translator, damage>>
           /\ AppendBuffer(buf)
  /\ UNCHANGED <<attached, exited>>

\* One round of the loop of processBuffer.
HasHeader == Len(rest) > HeaderSize

FitsStrictly(size) == size < Len(rest)                \* variant: off by one
Fits(size) == size <= Len(rest)

\* A glued buffer is released with its last byte.
GlueStays == glue                                    \* variant: it is kept
GlueLeft == IF rest' = <<>> THEN <<>> ELSE glue

DispatchFromBuffer ==
  /\ HasHeader
  /\ \E size \in Sizes(rest) \ {0} :
       /\ Fits(size)
       /\ DispatchEvent(SubSeq(rest, 1, size))
       /\ rest' = Drop(rest, size)
  /\ glue' = GlueLeft
  /\ UNCHANGED <<attached, unread, partial, partialSize, translator, exited,
                 input, damage>>

CreatePartialEvent ==
  /\ HasHeader
  /\ \E size \in Sizes(rest) \ {0} : ~Fits(size) /\ partialSize' = size
  /\ partial' = rest
  /\ rest' = <<>>
  /\ glue' = <<>>
  /\ UNCHANGED <<attached, unread, translator, helper, exited, history>>

\* A size of zero is thrown, and SpecTcl exits.
ZeroSize ==
  /\ HasHeader
  /\ 0 \in Sizes(rest)
  /\ exited' = TRUE
  /\ UNCHANGED <<attached, unread, bufferVars, translator, helper, history>>

NewGluedBuffer ==
  /\ rest # <<>> /\ ~HasHeader
  /\ glue' = rest
  /\ rest' = <<>>
  /\ UNCHANGED <<attached, unread, partial, partialSize, translator, helper,
                 exited, history>>

ProcessBuffer ==
  /\ ~exited
  /\ \/ DispatchFromBuffer
     \/ CreatePartialEvent
     \/ ZeroSize
     \/ NewGluedBuffer

\* OnSourceDetach and OnSourceAttach.
HelperKept == helper' = helper            \* variant: the helper survives
InvalidateCurrentHelper == helper' = 0

\* AttachCommand with the decoder it finds (-format unchanged, the default) or
\* with a new one.  The source attached before may be anywhere in its data.
KeepDecoder ==
  /\ UNCHANGED <<bufferVars, translator, input, dispatched>>
  /\ damage' = damage \union IF Held = <<>> THEN {} ELSE {"cut item"}
NewDecoder ==
  /\ partial' = <<>> /\ partialSize' = 0 /\ glue' = <<>>
  /\ translator' = NoTranslator
  /\ input' = <<>> /\ dispatched' = <<>> /\ damage' = {}
  /\ UNCHANGED rest

Attach ==
  /\ rest = <<>> /\ ~exited
  /\ attached < MaxSources
  /\ attached' = attached + 1
  /\ \E order \in Orders, formatted \in BOOLEAN, n \in 1 .. MaxItems :
       \E sizes \in [1 .. n -> ItemSizes] :
         LET items == Items(attached', order, sizes, formatted)
         IN  unread' = FlattenSeq([i \in 1 .. n |-> Bytes(items[i])])
  /\ InvalidateCurrentHelper
  /\ KeepDecoder \/ NewDecoder
  /\ UNCHANGED exited

Init ==
  /\ attached = 0
  /\ unread = <<>>
  /\ rest = <<>> /\ partial = <<>> /\ partialSize = 0 /\ glue = <<>>
  /\ translator = NoTranslator
  /\ helper = 0
  /\ exited = FALSE
  /\ input = <<>> /\ dispatched = <<>> /\ damage = {}

Next == OnBuffer \/ ProcessBuffer \/ Attach

Spec == Init /\ [][Next]_vars

---------------------------------------------------------------------------
(* Properties *)

\* The partial event and the glued buffer (processBuffer): an event waits only
\* for bytes that are missing, and never beside a glued buffer; between buffers
\* the glued buffer is no longer than a header.
TypeOK ==
  /\ attached \in 0 .. MaxSources
  /\ translator \in Orders \union {NoTranslator}
  /\ helper \in 0 .. attached
  /\ exited \in BOOLEAN
  /\ partialSize \in Nat
  /\ partial # <<>> => HeaderSize < Len(partial) /\ Len(partial) < partialSize
  /\ partial = <<>> \/ glue = <<>>
  /\ rest = <<>> => Len(glue) <= HeaderSize
  /\ rest # <<>> /\ glue # <<>> => Len(rest) <= Len(glue)
  /\ damage \subseteq {"wrong order", "cut item"}

\* Whatever the source and the sizes of the buffers, the decoder drops, doubles
\* and reorders nothing: the items it dispatched and the bytes it still has are
\* the bytes it was given (processBuffer, createPartialEvent, dispatchEvent).
BytesKept ==
  input = FlattenSeq([d \in DOMAIN dispatched |-> dispatched[d].bytes])
          \o (IF rest = <<>> THEN Held ELSE partial \o rest)

\* However a source is cut into buffers, what is dispatched is whole items of
\* it, and the size of none is read as zero - unless a source was left in the
\* middle of an item or a byte order guessed wrong (createTranslator).
ItemsWhole ==
  damage = {} =>
    /\ ~exited
    /\ \A d \in DOMAIN dispatched :
         LET bytes == dispatched[d].bytes
         IN  bytes # <<>> /\ bytes = Bytes(bytes[1].item)

\* Between buffers the decoder holds no item it could dispatch: what waits is
\* the beginning of an item, or a header without a body (processBuffer).
HeldIncomplete ==
  damage = {} /\ rest = <<>> /\ Held # <<>> =>
    /\ StartsItem(Held, Len(Held))
    /\ Len(Held) < Held[1].item.size \/ Len(Held) = HeaderSize

\* An item is parsed with the format its own source declared, and with the
\* default when it declared none (OnSourceAttach, getFormatHelper).
HelperOfSource ==
  damage = {} =>
    \A d \in DOMAIN dispatched :
      LET src == dispatched[d].bytes[1].item.src
      IN  dispatched[d].helper =
            IF \E f \in 1 .. d : /\ dispatched[f].bytes[1].item.src = src
                                 /\ dispatched[f].bytes[1].item.format
            THEN src ELSE 0
=============================================================================
