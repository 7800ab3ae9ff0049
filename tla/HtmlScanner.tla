----------------------------- MODULE HtmlScanner -----------------------------
(***************************************************************************)
(* The external scanner of the HTML grammar (gen/tree-sitter/html): the    *)
(* stack of open tags of scanner.cc, the rules about tags of tag.h, and    *)
(* the contexts of the generated parser that call it.                      *)
(*                                                                         *)
(* The parser never keeps the scanner's stack: before each token it hands  *)
(* the scanner the bytes saved with the last external token, and after a   *)
(* token it asks for the bytes to save.  The stack is therefore            *)
(* Deserialize(saved) at every scan, and what does not fit in the buffer   *)
(* is forgotten while the parser keeps all its open elements (`opened').   *)
(***************************************************************************)
EXTENDS Integers, Sequences, FiniteSets

CONSTANTS
  Names,       \* the names of the tags of a document, in capitals
  NameLength,  \* their lengths in bytes
  Cut,         \* a name without what exceeds NameMax bytes
  RawEnd,      \* the names that start like the end delimiter of SCRIPT, STYLE
  BufferSize,  \* TREE_SITTER_SERIALIZATION_BUFFER_SIZE
  NameMax,     \* UINT8_MAX
  CountMax,    \* UINT16_MAX
  MaxDepth     \* bound of the model: open elements at the same time

ASSUME SizesAssumption ==
  /\ BufferSize \in Nat /\ NameMax \in Nat /\ CountMax \in Nat
  /\ MaxDepth \in Nat \ {0}
  /\ 4 < BufferSize
  /\ MaxDepth < CountMax   \* nesting beyond 2^16 elements is not modelled

ASSUME NamelessAssumption == "" \notin Names

ASSUME NamesAssumption ==
  /\ NameLength \in [Names -> Nat]
  /\ Cut \in [Names -> Names]
  /\ \A n \in Names : NameLength[n] <= NameMax => Cut[n] = n
  /\ \A n \in Names : NameLength[n] > NameMax => NameLength[Cut[n]] = NameMax
  /\ RawEnd \in [{"SCRIPT", "STYLE"} -> SUBSET Names]

VARIABLES
  saved,   \* the bytes saved with the last external token
  opened,  \* the parser's open elements, by their start tags
  ctx,     \* the parser's place in the grammar
  look,    \* what the lexer sees next
  result   \* the last external token (lexer->result_symbol)

vars == <<saved, opened, ctx, look, result>>

-----------------------------------------------------------------------------
(* Tags (tag.h) *)

VoidTags ==
  {"AREA", "BASE", "BASEFONT", "BGSOUND", "BR", "COL", "COMMAND", "EMBED",
   "FRAME", "HR", "IMAGE", "IMG", "INPUT", "ISINDEX", "KEYGEN", "LINK",
   "MENUITEM", "META", "NEXTID", "PARAM", "SOURCE", "TRACK", "WBR"}

NotAllowedInParagraphs ==
  {"ADDRESS", "ARTICLE", "ASIDE", "BLOCKQUOTE", "DETAILS", "DIV", "DL",
   "FIELDSET", "FIGCAPTION", "FIGURE", "FOOTER", "FORM", "H1", "H2", "H3",
   "H4", "H5", "H6", "HEADER", "HR", "MAIN", "NAV", "OL", "P", "PRE",
   "SECTION"}

TagNames ==
  VoidTags \cup NotAllowedInParagraphs \cup
  {"A", "ABBR", "AUDIO", "B", "BDI", "BDO", "BODY", "BUTTON", "CANVAS",
   "CAPTION", "CITE", "CODE", "COLGROUP", "DATA", "DATALIST", "DD", "DEL",
   "DFN", "DIALOG", "DT", "EM", "HEAD", "HGROUP", "HTML", "I", "IFRAME",
   "INS", "KBD", "LABEL", "LEGEND", "LI", "MAP", "MARK", "MATH", "MENU",
   "METER", "NOSCRIPT", "OBJECT", "OPTGROUP", "OPTION", "OUTPUT", "PICTURE",
   "PROGRESS", "Q", "RB", "RP", "RT", "RTC", "RUBY", "S", "SAMP", "SCRIPT",
   "SELECT", "SLOT", "SMALL", "SPAN", "STRONG", "STYLE", "SUB", "SUMMARY",
   "SUP", "SVG", "TABLE", "TBODY", "TD", "TEMPLATE", "TEXTAREA", "TFOOT",
   "TH", "THEAD", "TIME", "TITLE", "TR", "U", "UL", "VAR", "VIDEO"}

\* No known name is as long as NameMax, so that none is cut and none is what
\* is left of another.
ASSUME KnownNamesAssumption ==
  \A n \in Names : IF n \in TagNames THEN NameLength[n] <= NameMax
                                   ELSE Cut[n] \notin TagNames

ForName(name) ==
  IF name \in TagNames THEN [type |-> name, name |-> ""]
                       ELSE [type |-> "CUSTOM", name |-> name]

\* Tag(), for the tags the buffer had no room for.  END_OF_VOID_TAGS is
\* neither void nor the type of any name.
Unknown == [type |-> "END_OF_VOID_TAGS", name |-> ""]

Tag == {ForName(n) : n \in Names} \cup {Unknown}

IsVoid(tag) == tag.type \in VoidTags

CanContain(tag, child) ==
  CASE tag.type = "LI"              -> child.type # "LI"
    [] tag.type \in {"DT", "DD"}    -> child.type \notin {"DT", "DD"}
    [] tag.type = "P"               -> child.type \notin NotAllowedInParagraphs
    [] tag.type = "COLGROUP"        -> child.type = "COL"
    [] tag.type \in {"RB", "RT", "RP"} -> child.type \notin {"RB", "RT", "RP"}
    [] tag.type = "OPTGROUP"        -> child.type # "OPTGROUP"
    [] tag.type = "TR"              -> child.type # "TR"
    [] tag.type \in {"TD", "TH"}    -> child.type \notin {"TD", "TH", "TR"}
    [] OTHER                        -> TRUE

-----------------------------------------------------------------------------
(* Saving and restoring the stack *)

\* Bytes of one tag: its type and, of a custom tag, the length and the bytes
\* of its name.
Cost(tag) == IF tag.type = "CUSTOM" THEN 2 + NameLength[Cut[tag.name]] ELSE 1

\* What is read back of a tag that fits.
Written(tag) ==
  IF tag.type = "CUSTOM" THEN [tag EXCEPT !.name = Cut[@]] ELSE tag

\* Bytes taken once the j-th tag is written, j >= 0.
EndOf(tags) ==
  LET end[j \in 0 .. Len(tags)] == IF j = 0 THEN 4 ELSE end[j - 1] + Cost(tags[j])
  IN  end

\* The tags are written from the oldest, until the first that does not fit.
Serialize(tags) ==
  LET count == IF Len(tags) > CountMax THEN CountMax ELSE Len(tags)
      fits == Cardinality({j \in 1 .. count : EndOf(tags)[j] < BufferSize})
  IN  [count |-> count, kept |-> [j \in 1 .. fits |-> Written(tags[j])]]

\* Slips: not restoring the depth; keeping the newest places for the tags;
\* resizing the stack with the last tag that was read.
DeserializeKept(buffer) == buffer.kept
DeserializeAtTop(buffer) ==
  LET lost == buffer.count - Len(buffer.kept)
  IN  [j \in 1 .. buffer.count |->
         IF j > lost THEN buffer.kept[j - lost] ELSE Unknown]

DeserializeRepeating(buffer) ==
  [j \in 1 .. buffer.count |->
     IF j <= Len(buffer.kept) THEN buffer.kept[j]
     ELSE IF buffer.kept = <<>> THEN Unknown ELSE buffer.kept[Len(buffer.kept)]]

Deserialize(buffer) ==
  [j \in 1 .. buffer.count |->
     IF j <= Len(buffer.kept) THEN buffer.kept[j] ELSE Unknown]

NoBytes == [count |-> 0, kept |-> <<>>]

\* Scanner::tags when the next scan starts.
Tags == Deserialize(saved)
Top == Tags[Len(Tags)]
PoppedNot == Tags   \* a slip: a missing pop_back
Popped == SubSeq(Tags, 1, Len(Tags) - 1)

-----------------------------------------------------------------------------
(* Documents.  A document is met one construct at a time: any may follow. *)

Look(kind, name) == [kind |-> kind, name |-> name, apart |-> FALSE]

Open(n) == Look("open", n)           \* <n
Close(n) == Look("close", n)         \* </n
Apart(l) == [l EXCEPT !.apart = TRUE]
            \* white space or comments before the name, as in < n or </ n
Shadowed(n) == Look("shadowed", n)   \* a piece of "</n" and all of it: <</n
Nameless(kind) == Look(kind, "")     \* < or </ and no name at all
Text == Look("text", "")
Eof == Look("eof", "")

Heads == {Open(n) : n \in Names} \cup {Close(n) : n \in Names}
Looks == Heads \cup {Apart(l) : l \in Heads} \cup {Shadowed(n) : n \in Names}
         \cup {Nameless("open"), Nameless("close"), Text, Eof}

\* The name `scan' finds once the parser has taken < or </, as it passes over
\* white space first, and the one scan_implicit_end_tag finds before that,
\* which does not.
Named(kind) == look.kind = kind /\ look.name # ""
NamedAtOnce(kind) == Named(kind) /\ ~look.apart

StartTags == [name : Names, apart : BOOLEAN]

\* MaxDepth bounds the model: no start tag is met beyond it.
Consume ==
  /\ look' \in Looks
  /\ look'.kind = "open" => Len(opened') < MaxDepth
  /\ look'.kind = "shadowed" => ctx' = "raw"

Emit(symbol, tags) == result' = symbol /\ saved' = Serialize(tags)

\* The parser's contexts: content of an element or of the document, inside a
\* start tag, raw text of a script or style, the end tag after raw text, and
\* the ends of a parse.  What happens after an error is up to the recovery of
\* tree-sitter, which is not modelled.
Contexts == {"content", "attributes", "raw", "raw end", "done", "error"}

Init ==
  /\ saved = NoBytes
  /\ opened = <<>>
  /\ ctx = "content"
  /\ look \in {l \in Looks : l.kind # "shadowed"}
  /\ result = "none"

-----------------------------------------------------------------------------
(* Content.  _implicit_end_tag is valid inside an element only. *)

\* Slips: forgetting one of the reasons an element ends implicitly.
EndsWhateverChild ==
  \/ look.kind # "close" /\ IsVoid(Top)
  \/ /\ NamedAtOnce("close")
     /\ Top # ForName(look.name)
     /\ \E i \in DOMAIN Tags : Tags[i] = ForName(look.name)
EndsBeforeOpeningOnly ==
  \/ look.kind # "close" /\ IsVoid(Top)
  \/ /\ NamedAtOnce("open")
     /\ ~CanContain(Top, ForName(look.name))

\* scan_implicit_end_tag: whether an element ends before what comes next.
EndsImplicitly ==
  \/ look.kind # "close" /\ IsVoid(Top)
  \/ /\ NamedAtOnce("open")
     /\ ~CanContain(Top, ForName(look.name))
  \/ /\ NamedAtOnce("close")
     /\ Top # ForName(look.name)
     /\ \E i \in DOMAIN Tags : Tags[i] = ForName(look.name)

\* Only a '<' or the end of the file make the scanner look for an implicit end.
ImplicitEndTag ==
  /\ ctx = "content" /\ opened # <<>>
  /\ look.kind \in {"open", "close", "eof"}
  /\ EndsImplicitly
  /\ Emit("IMPLICIT_END_TAG", Popped)
  /\ opened' = SubSeq(opened, 1, Len(opened) - 1)
  /\ UNCHANGED <<ctx, look>>

Proceeds == ctx = "content" /\ (opened # <<>> => ~EndsImplicitly)

\* scan_start_tag_name.  A name apart from its < has not been held against
\* the open element: it opens an element inside it whatever its type.
StartTag ==
  /\ Proceeds
  /\ Named("open")
  /\ Emit(CASE look.name = "SCRIPT" -> "SCRIPT_START_TAG_NAME"
            [] look.name = "STYLE"  -> "STYLE_START_TAG_NAME"
            [] OTHER                -> "START_TAG_NAME",
          Append(Tags, ForName(look.name)))
  /\ opened' = Append(opened, [name |-> look.name, apart |-> look.apart])
  /\ ctx' = "attributes"
  /\ UNCHANGED look

\* A slip: closing the innermost element whatever the end tag names.
EndTagOfAny ==
  /\ Proceeds /\ Named("close") /\ opened # <<>>
  /\ Emit("END_TAG_NAME", Popped)
  /\ opened' = SubSeq(opened, 1, Len(opened) - 1)
  /\ UNCHANGED ctx
  /\ Consume

\* scan_end_tag_name inside an element.
EndTag ==
  /\ Proceeds /\ Named("close") /\ opened # <<>>
  /\ Top = ForName(look.name)
  /\ Emit("END_TAG_NAME", Popped)
  /\ opened' = SubSeq(opened, 1, Len(opened) - 1)
  /\ UNCHANGED ctx
  /\ Consume

\* Also of a name that elements further out have, when it is apart from </.
ErroneousEndTag ==
  /\ Proceeds /\ Named("close") /\ opened # <<>>
  /\ Top # ForName(look.name)
  /\ Emit("ERRONEOUS_END_TAG_NAME", Tags)
  /\ UNCHANGED <<opened, ctx>>
  /\ Consume

\* Text, a doctype or a comment: no tag changes.  A comment is an external
\* token, so the stack is saved again.
TextOrComment ==
  /\ ctx = "content" /\ look = Text
  /\ \/ UNCHANGED <<saved, result>>
     \/ Emit("COMMENT", Tags)
  /\ UNCHANGED <<opened, ctx>>
  /\ Consume

EndOfDocument ==
  /\ Proceeds /\ look = Eof
  /\ ctx' = IF opened = <<>> THEN "done" ELSE "error"
  /\ UNCHANGED <<saved, opened, look, result>>

\* An end tag outside of any element: only ERRONEOUS_END_TAG_NAME is valid
\* there, and `scan' does not look for names unless START_TAG_NAME or
\* END_TAG_NAME is valid.  A < or </ without a name: no token either.
NoToken ==
  /\ Proceeds
  /\ \/ look \in {Nameless("open"), Nameless("close")}
     \/ look.kind = "close" /\ opened = <<>>
  /\ ctx' = "error"
  /\ UNCHANGED <<saved, opened, look, result>>

-----------------------------------------------------------------------------
(* Inside a start tag *)

IsRaw(name) == name \in {"SCRIPT", "STYLE"}

TagDelimiter ==
  /\ ctx = "attributes"
  /\ ctx' = IF IsRaw(opened[Len(opened)].name) THEN "raw" ELSE "content"
  /\ UNCHANGED <<saved, opened, result>>
  /\ Consume

\* scan_self_closing_tag_delimiter; not valid in the tag of a script or style.
SelfClosingTag ==
  /\ ctx = "attributes" /\ ~IsRaw(opened[Len(opened)].name)
  /\ Tags # <<>>
  /\ Emit("SELF_CLOSING_TAG_DELIMITER", Popped)
  /\ opened' = SubSeq(opened, 1, Len(opened) - 1)
  /\ ctx' = "content"
  /\ Consume

-----------------------------------------------------------------------------
(* Raw text *)

EndsRawText ==
  /\ NamedAtOnce("close")
  /\ look.name \in RawEnd[IF Top.type = "SCRIPT" THEN "SCRIPT" ELSE "STYLE"]

\* scan_raw_text passes over all that is not its end delimiter; a delimiter
\* that overlaps a piece of itself is not seen, because the character that
\* breaks the piece is not tried as a first one.
RawTextGoesOn ==
  /\ ctx = "raw" /\ Tags # <<>>
  /\ look # Eof /\ ~EndsRawText
  /\ UNCHANGED <<saved, opened, ctx, result>>
  /\ Consume

RawText ==
  /\ ctx = "raw" /\ Tags # <<>>
  /\ look = Eof \/ EndsRawText
  /\ Emit("RAW_TEXT", Tags)
  /\ ctx' = IF look = Eof THEN "error" ELSE "raw end"
  /\ UNCHANGED <<opened, look>>

\* scan_end_tag_name after raw text, where only END_TAG_NAME is valid.
RawEndTag ==
  /\ ctx = "raw end"
  /\ Top = ForName(look.name)
  /\ Emit("END_TAG_NAME", Popped)
  /\ opened' = SubSeq(opened, 1, Len(opened) - 1)
  /\ ctx' = "content"
  /\ Consume

RawEndTagOfAnother ==
  /\ ctx = "raw end"
  /\ Top # ForName(look.name)
  /\ Emit("ERRONEOUS_END_TAG_NAME", Tags)
  /\ ctx' = "error"
  /\ UNCHANGED <<opened, look>>

\* The next parse starts from no saved bytes (deserialize with length 0).
NextDocument ==
  /\ ctx \in {"done", "error"}
  /\ saved' = NoBytes
  /\ opened' = <<>>
  /\ ctx' = "content"
  /\ result' = "none"
  /\ Consume

-----------------------------------------------------------------------------

Scan ==
  \/ ImplicitEndTag \/ StartTag \/ EndTag \/ ErroneousEndTag
  \/ TextOrComment \/ EndOfDocument \/ NoToken
  \/ TagDelimiter \/ SelfClosingTag
  \/ RawTextGoesOn \/ RawText \/ RawEndTag \/ RawEndTagOfAnother

Next == Scan \/ NextDocument

Spec == Init /\ [][Next]_vars

\* The parser asks for tokens until its input ends: nothing else runs.
FairSpec == Spec /\ WF_vars(Scan)

-----------------------------------------------------------------------------
(* Properties *)

Results ==
  {"none", "START_TAG_NAME", "SCRIPT_START_TAG_NAME", "STYLE_START_TAG_NAME",
   "END_TAG_NAME", "ERRONEOUS_END_TAG_NAME", "SELF_CLOSING_TAG_DELIMITER",
   "IMPLICIT_END_TAG", "RAW_TEXT", "COMMENT"}

\* Every variable has its type; no more tags are kept than counted.
TypeOK ==
  /\ saved.count \in 0 .. MaxDepth
  /\ Len(saved.kept) <= saved.count
  /\ \A i \in DOMAIN saved.kept : saved.kept[i] \in Tag
  /\ \A i \in DOMAIN opened : opened[i] \in StartTags
  /\ ctx \in Contexts /\ look \in Looks /\ result \in Results

\* However often the buffer was too small, the scanner's stack is as deep as
\* the parser's: the count survives although the tags do not, so that an
\* element the scanner knows nothing about still is one to close.
DepthAgrees == Len(Tags) = Len(opened)

\* What the scanner believes of an open element is what its start tag said,
\* up to the bytes of the name the buffer cannot hold, or nothing at all:
\* losing tags never makes it take one element for another.
BeliefsSound ==
  Len(Tags) = Len(opened) =>
    \A i \in DOMAIN Tags :
      Tags[i] # Unknown => Tags[i] = Written(ForName(opened[i].name))

\* A void element the scanner remembers has no child.  No other one has a
\* child that tag.h forbids, whatever was saved and restored in between,
\* unless the name in the child's start tag was apart from its <: that one is
\* never looked up before the element is opened.
ChildrenAllowed ==
  \A i \in 1 .. Len(Tags) - 1 :
    /\ ~IsVoid(Tags[i])
    /\ Len(Tags) = Len(opened) /\ ~opened[i + 1].apart =>
         CanContain(Tags[i], ForName(opened[i + 1].name))

\* Saving again what was restored, as each comment does, loses nothing more.
SavingIsStable == Deserialize(Serialize(Tags)) = Tags

\* An end tag closes the innermost element only, and one that its start tag
\* named, up to the bytes of the name that were cut.
EndTagMatches ==
  [][result' = "END_TAG_NAME" /\ opened' # opened /\ ctx # "done" =>
       /\ opened' = SubSeq(opened, 1, Len(opened) - 1)
       /\ look.name = Cut[opened[Len(opened)].name]]_vars

\* An end tag that names a remembered open element, without a space before the
\* name, does close it in the end: the elements opened inside are ended
\* implicitly, one per scan, those that were forgotten included.  With a space
\* it closes the innermost element or none (ErroneousEndTag).
EndTagCloses ==
  (/\ ctx = "content" /\ NamedAtOnce("close")
   /\ \E i \in DOMAIN Tags : Tags[i] = ForName(look.name))
    ~> result = "END_TAG_NAME"
=============================================================================
