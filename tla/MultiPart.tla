------------------------------ MODULE MultiPart ------------------------------
(***************************************************************************)
(* multipart/form-data replies: the parts and the context of MultiPart.hpp *)
(* and MultiPart.cpp, driven by Connection::multiPartReply.                *)
(*                                                                         *)
(* Text is a sequence of symbols: CRLF and the dash-boundary are a symbol  *)
(* each, so is a header field without its line end, and content is made of *)
(* other symbols.  Sizes are counted in symbols.                           *)
(***************************************************************************)
EXTENDS SequencesExt, Integers

CONSTANTS
    Symbols,     \* what content is made of
    Contents,    \* what a part may carry: a sequence of the pieces a
                 \* generator yields, none of them empty; a static part holds
                 \* their concatenation
    Fields,      \* the numbers of fields addFields may be given
    Declared,    \* the sizes that may be declared for generators
    MaxParts,    \* bound on the parts of a reply
    CHUNK,       \* most content of a static part in one buffer, 64 * 1024
    SIZE_MOD     \* sizes are computed modulo this, 2^64 in the code

ASSUME MultiPartAssumption ==
    /\ Contents \subseteq Seq(Seq(Symbols))
    /\ \A content \in Contents : \A i \in DOMAIN content : content[i] # <<>>
    /\ Fields \subseteq Nat
    /\ Declared \subseteq 0 .. SIZE_MOD - 2
    /\ MaxParts \in Nat
    /\ CHUNK \in Nat \ {0}
    /\ SIZE_MOD \in Nat \ {0}

CRLF == "CRLF"
DashBoundary == "--boundary"
Closing == <<CRLF, "--boundary--", CRLF>>

\* fields is the argument of an addFields call, NoFields when there is none.
NoFields == -1

\* The largest size_t stands for a generator whose size is not declared.  What
\* is declared is the caller's word: the generator may yield less or more.
NPOS == SIZE_MOD - 1

Part ==
    [dynamic : {FALSE}, content : Contents, fields : Fields \cup {NoFields}]
      \cup [dynamic : {TRUE}, content : Contents, fields : Fields \cup {NoFields},
            content_size : Declared \cup {NPOS}]

Content(part) == FlattenSeq(part.content)

\* makePartImpl that leaves the blank line to the caller.
MadeHeader_NoBlankLine == <<DashBoundary, CRLF, "Content-Disposition", CRLF, "Content-Type",
                            CRLF>>

\* makePartImpl
MadeHeader == <<DashBoundary, CRLF, "Content-Disposition", CRLF, "Content-Type",
                CRLF, CRLF>>

FieldLines(n) == FlattenSeq([i \in 1 .. n |-> <<"field", CRLF>>])

\* addFieldsImpl: the last CRLF goes and the fields are appended.
addFields(header, n) == Front(header) \o FieldLines(n)

PartHeader(part) ==
    IF part.fields = NoFields THEN MadeHeader ELSE addFields(MadeHeader, part.fields)

\* size() of a static and of a dynamic part.
SizeOf(part) ==
    IF ~part.dynamic THEN (Len(PartHeader(part)) + Len(Content(part))) % SIZE_MOD
    ELSE IF part.content_size = NPOS THEN NPOS
    ELSE (part.content_size + Len(PartHeader(part))) % SIZE_MOD

SizeKnown(part) == SizeOf(part) # NPOS

Sum(sizes) ==
    LET total[i \in 0 .. Len(sizes)] == IF i = 0 THEN 0 ELSE total[i - 1] + sizes[i]
    IN  total[Len(sizes)]

Total(reply) == (Sum([i \in DOMAIN reply |-> SizeOf(reply[i])]) + Len(Closing)) % SIZE_MOD

-----------------------------------------------------------------------------
(* What a reply should look like to its reader, written out on its own. *)

HeadLines == <<"--boundary", "CRLF", "Content-Disposition", "CRLF", "Content-Type", "CRLF">>

AddedLines(n) == [i \in 1 .. 2 * n |-> IF i % 2 = 1 THEN "field" ELSE "CRLF"]

\* A part as it is sent: added fields stand in the place of the blank line.
Section(part) ==
    HeadLines
      \o (IF part.fields = NoFields THEN <<"CRLF">> ELSE AddedLines(part.fields))
      \o Content(part)

Message(reply) ==
    FlattenSeq([i \in DOMAIN reply |-> Section(reply[i])])
      \o <<"CRLF", "--boundary--", "CRLF">>

\* A part as MultiPart.hpp has it: "...headers...\r\n\r\n", and the header of
\* the part after it is a delimiter, which begins with a CRLF.
DocumentedSection(part, isFirst) ==
    (IF isFirst THEN <<>> ELSE <<"CRLF">>)
      \o HeadLines
      \o (IF part.fields = NoFields THEN <<>> ELSE AddedLines(part.fields))
      \o <<"CRLF">>
      \o Content(part)

Documented(reply) ==
    FlattenSeq([i \in DOMAIN reply |-> DocumentedSection(reply[i], i = 1)])
      \o <<"CRLF", "--boundary--", "CRLF">>

\* The size of the part is declared, and rightly.
Truthful(part) == part.dynamic => part.content_size = Len(Content(part))

\* A reply all of whose sizes are declared, and rightly, is one that a size_t can
\* count: its static contents are in memory, its generators read files.
ASSUME SizesFit ==
    \A n \in 0 .. MaxParts : \A reply \in [1 .. n -> Part] :
      (\A i \in 1 .. n : Truthful(reply[i])) => Len(Message(reply)) < NPOS

-----------------------------------------------------------------------------
VARIABLES
    parts,
    current_phase_,     \* closing is passed through within a call
    part_index_,        \* from 1 here
    content_offset_,
    yielded,            \* pieces the generator of the present part has yielded
    use_trunk_,         \* chunked encoding: some size is unknown
    content_length,     \* the header field, when not chunked
    body,               \* the buffer_body value: data and more
    step,               \* where multiPartReply is
    sent                \* body symbols written to the client

replyVars == <<parts, current_phase_, part_index_, content_offset_, yielded,
               use_trunk_, content_length, body, step, sent>>

ReplyInit ==
    /\ parts \in UNION {[1 .. n -> Part] : n \in 0 .. MaxParts}
    /\ current_phase_ = "part_header"
    /\ part_index_ = 1
    /\ content_offset_ = 0
    /\ yielded = 0
    /\ use_trunk_ = FALSE
    /\ content_length = 0
    /\ body = [data |-> <<>>, more |-> FALSE]
    /\ step = "totalSize"
    /\ sent = <<>>

-----------------------------------------------------------------------------
\* totalSize, and what multiPartReply makes of it.
TotalSize ==
    /\ step = "totalSize"
    /\ IF \A i \in DOMAIN parts : SizeKnown(parts[i])
         THEN content_length' = Total(parts) /\ UNCHANGED use_trunk_
         ELSE use_trunk_' = TRUE /\ UNCHANGED content_length
    /\ step' = "fillBuffer"
    /\ UNCHANGED <<parts, current_phase_, part_index_, content_offset_, yielded,
                   body, sent>>

Buffer(data, more) == body' = [data |-> data, more |-> more]

\* The offset of the last part is kept for the next one.
FillHeader_KeepsOffset(i) ==
    /\ part_index_' = i
    /\ IF i > Len(parts)
         THEN /\ Buffer(Closing, FALSE)
              /\ current_phase_' = "done"
              /\ UNCHANGED <<content_offset_, yielded>>
         ELSE /\ Buffer(PartHeader(parts[i]), TRUE)
              /\ current_phase_' = "part_content"
              /\ yielded' = 0
              /\ UNCHANGED content_offset_

\* The closing boundary is announced as one more buffer among others.
FillHeader_MoreAtEnd(i) ==
    /\ part_index_' = i
    /\ IF i > Len(parts)
         THEN /\ Buffer(Closing, TRUE)
              /\ current_phase_' = "done"
              /\ UNCHANGED <<content_offset_, yielded>>
         ELSE /\ Buffer(PartHeader(parts[i]), TRUE)
              /\ current_phase_' = "part_content"
              /\ content_offset_' = 0
              /\ yielded' = 0

\* Phase part_header for part i, and phase closing behind the last part.
FillHeader(i) ==
    /\ part_index_' = i
    /\ IF i > Len(parts)
         THEN /\ Buffer(Closing, FALSE)
              /\ current_phase_' = "done"
              /\ UNCHANGED <<content_offset_, yielded>>
         ELSE /\ Buffer(PartHeader(parts[i]), TRUE)
              /\ current_phase_' = "part_content"
              /\ content_offset_' = 0
              /\ yielded' = 0

\* The pointer arithmetic on a string_view: what lies behind it is read as well.
MemoryAt(content, i) == IF i \in DOMAIN content THEN content[i] ELSE "stray"

\* Phase part_content of a static part; remaining is a size_t.
FillStatic(part) ==
    LET content == Content(part)
        remaining == (Len(content) - content_offset_) % SIZE_MOD
        chunk == Min({remaining, CHUNK})
    IN  IF remaining = 0
          THEN FillHeader(part_index_ + 1)
          ELSE /\ Buffer([k \in 1 .. chunk |-> MemoryAt(content, content_offset_ + k)], TRUE)
               /\ content_offset_' = content_offset_ + chunk
               /\ UNCHANGED <<current_phase_, part_index_, yielded>>

\* The generator is awaited without asking whether it has finished.
FillDynamic_NotAsked(part) ==
    /\ yielded < Len(part.content)
    /\ Buffer(part.content[yielded + 1], TRUE)
    /\ yielded' = yielded + 1
    /\ UNCHANGED <<current_phase_, part_index_, content_offset_>>

\* Phase part_content of a dynamic part: what the generator yields next.
FillDynamic(part) ==
    IF yielded = Len(part.content)
      THEN FillHeader(part_index_ + 1)
      ELSE /\ Buffer(part.content[yielded + 1], TRUE)
           /\ yielded' = yielded + 1
           /\ UNCHANGED <<current_phase_, part_index_, content_offset_>>

FillBuffer ==
    /\ step = "fillBuffer"
    /\ current_phase_ # "done"
    /\ IF current_phase_ = "part_header"
         THEN FillHeader(part_index_)
         ELSE IF parts[part_index_].dynamic
                THEN FillDynamic(parts[part_index_])
                ELSE FillStatic(parts[part_index_])
    /\ step' = "write"
    /\ UNCHANGED <<parts, use_trunk_, content_length, sent>>

\* fillBuffer says FALSE: the loop ends, the last write adds nothing.
Finish ==
    /\ step = "fillBuffer"
    /\ current_phase_ = "done"
    /\ Buffer(<<>>, FALSE)
    /\ step' = "done"
    /\ UNCHANGED <<parts, current_phase_, part_index_, content_offset_, yielded,
                   use_trunk_, content_length, sent>>

\* async_write: need_buffer or success, or an error that ends the reply.
Write ==
    /\ step = "write"
    /\ sent' = sent \o body.data
    /\ step' = "fillBuffer"
    /\ UNCHANGED <<parts, current_phase_, part_index_, content_offset_, yielded,
                   use_trunk_, content_length, body>>

WriteError ==
    /\ step = "write"
    /\ step' = "failed"
    /\ UNCHANGED <<parts, current_phase_, part_index_, content_offset_, yielded,
                   use_trunk_, content_length, body, sent>>

ReplyNext == TotalSize \/ FillBuffer \/ Finish \/ Write \/ WriteError

ReplySpec == ReplyInit /\ [][ReplyNext]_replyVars

FairReplySpec == ReplySpec /\ WF_replyVars(ReplyNext)

-----------------------------------------------------------------------------
(* Properties *)

\* Chunking, generators and the phases change nothing of the message: what has
\* been sent is always a prefix of it, and all of it at the end.  And when every
\* size is declared, and rightly, the Content-Length computed before the first
\* byte is what is sent: a client on a kept connection waits for no missing byte
\* and gets no surplus one.
SendsMessage ==
    /\ IsPrefix(sent, Message(parts))
    /\ step = "done" =>
         /\ sent = Message(parts)
         /\ (\A i \in DOMAIN parts : Truthful(parts[i])) =>
              ~use_trunk_ /\ content_length = Len(sent)

\* The comments in MultiPart.hpp describe the message that is sent if there is one
\* part at most and no field has been added to it, and in no other case: every
\* addFields takes a blank line away, every further part lacks the CRLF that would
\* make its header a delimiter.
DocumentedIfPlain ==
    step = "done" =>
        (sent = Documented(parts)
           <=> Len(parts) <= 1 /\ \A i \in DOMAIN parts : parts[i].fields = NoFields)

\* more is withdrawn with the very buffer that completes the message: the
\* serializer neither ends early nor waits for data that never comes.
MoreUntilLast ==
    step = "write" => (body.more <=> Len(sent \o body.data) < Len(Message(parts)))

\* Every reply comes to its end.
Ends == <>(step \in {"done", "failed"})
=============================================================================
