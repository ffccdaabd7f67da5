# KMime in TLA+

KMime is KDE's library for mail and news articles: it parses a MIME text into a
tree of objects, lets the caller read and edit it, and writes it out again. This
directory holds TLA+ models of its core, TLC configurations that check them on
small instances and TLAPS proofs of what matters most. File names without a
directory are those of `src/src/`.

KMime is single-threaded and keeps nothing on disk. What is hard in it is not
concurrency but *sequences of calls*: one object has two representations (text
and objects) that every operation updates only in part, objects are owned in
four different ways, and a recursive parser builds the tree while parts of it
are half linked. The texts come from anybody, so every reader must stay inside
its text and end.

## The system's parts

| Part | State | Operations | What makes it correct |
|---|---|---|---|
| Content tree (`content.cpp`) | parent pointer, list of sub-contents, shared encapsulated message, per object | `appendContent`, `prependContent`, `takeContent`, `setParent`, `clear`, `clone`, `assemble`, destructor, recursive `parse` | one owner per object, pointers agree and never dangle, no cycles, bounded recursion, frozen parts untouched |
| Content body (`content.cpp`) | `head`, `headers`, `body`, `m_decoded`, `frozen`, `frozenBody` | `setContent`, `parse`, `assemble`, `setBody`, `setEncodedBody`, `changeEncoding`, `decodedText`, `encodedContent`, `clear` | the flag fits the body; what is read and sent is what was put in |
| Content index (`contentindex.cpp`, `content.cpp`) | a list of positions | `content(index)`, `index()`, `indexForContent()` | an index leads back to its content and only one does |
| Multipart reader (`parsers.cpp`) | two cursors, parts, preamble, epilogue | `MultiPart::parse` | splits at the delimiter lines; round trip with `encodedBody` |
| uuencode and yEnc readers (`parsers.cpp`) | cursors, counters, attachments | `UUEncoded::parse`, `YENCEncoded::parse` | end on every text; text and attachments are the article |
| Message text (`headerparsing.cpp`, `content.cpp`, `util.cpp`) | head, list of headers, body | `extractHeaderAndBody`, `encodedContent`, `appendHeader`, `setHeader`, `removeHeader`, `CRLFtoLF`, `LFtoCRLF` | texts are put together as they were taken apart |
| Header lines (`util_p.cpp`, `headerparsing.cpp`) | cursors | find the end of a header, fold, unfold, `parseHeaders`, find a header by name | unfold after fold is the identity; the headers are the lines |
| Header value parsers (`headerparsing.cpp`) | cursor, memory of what failed | recursive descent over encoded words, quoted strings, comments, addresses, parameters, dates | backtracking loses nothing and leaves nothing behind |
| Header objects, factory, types, codecs (`headers.cpp`, `headerfactory.cpp`, `types.cpp`, `codecs.cpp`) | the value of one header | `from7BitString`, `as7BitString`, setters, `clone` | parsing inverts printing; nothing old shows in a new value |
| Queries (`util.cpp`, `content.cpp`, `message.cpp`) | none | `isAttachment`, `hasAttachment`, `attachments`, `textContent`, `mainBodyPart`, `isSigned`, ... | the queries agree with each other |
| Message, news article (`message.cpp`, `newsarticle.cpp`) | a content | `assemble` adds mandatory headers | - |
| Character frequency, MDN texts (`charfreq.cpp`, `mdn.cpp`) | none | conversions | - |

The parts meet in `Content::parse()`: it splits head and body (message text),
parses the headers (header lines, values, factory), decides by the type whether
to run the multipart, uuencode or yEnc reader or to create an encapsulated
message, and calls itself on every part. `assemble()` and `encodedContent()` go
the other way. The queries walk the finished tree, and `clone()` copies it by
printing and parsing every header.

The modules follow these seams. A module that uses another part takes what that
part does as a parameter (the tree does not know how a body is split) or as
operators (the text of a message uses those of the header lines), so that each
part is checked for all that it can be given:

    Forest <--implements-- ContentTree <--extends-- ContentIndex
       ^--extends-- TreeQueries                (readers: Parts, Embedded, AsMessage)
    ContentBody          one content: body and flags
    MultiPart, NonMime   the readers of bodies
    HeaderLines <--extends-- MessageText
    HeaderSyntax <-- AddressSyntax <-- ParameterSyntax <-- DateSyntax <-- HeaderValues
                 <-- HeaderObjects <-- HeaderTests      (each extends the one before)

and the proofs, each beside what it is about:

    ContentBodyProofs, MultiPartProofs, NonMimeProofs, MessageTextProofs
    ContentTreeProofs <-- ImplementationProofs    (extends it; both use ForestProofs)
    ForestProofs      <-- TreeQueryProofs         (extends it)

## The modules

### Forest

What the operations on a content tree promise, without pointers: `nodes`, the
ordered children `kids` of each, and which of them are encapsulated `messages`.
An operation grafts, moves, takes out, copies, encloses or deletes a whole
subtree, and leaves everything else alone; a deletion spares only the trees of
the messages that somebody shares. `IsForest` says that these are ordered trees.

### ContentTree

Memory is explicit. `Node` is a set of addresses; `live` are those with an
object, and a pointer to another one dangles. Ownership is what the C++ types
say: the caller's `unique_ptr`s are `owned`, its copies of a `bodyAsMessage()`
pointer are `held`, a list of sub-contents owns its elements, and the
`shared_ptr bodyAsMessage` keeps a message alive together with `held`.
`parent`, `multipartContents`, `bodyAsMessage` are the fields of
`ContentPrivate`; `data` has the head (as the media type it declares), the
abstract body, the media type in the header object, and the frozen flag.

Each public operation is one action with all that it calls: `Delete` and `Clear`
include the destructors they set off (`Doomed` is the least set closed under
destruction, `ParentsAfter` and `ListsAfter` what is left of the pointers),
`appendContent` includes the `setParent` it calls *after* it has appended.
`parse()` is different: it is a stack of calls, `calls`, and a step is one turn
of its loop, so that the invariants are checked while the tree is half built.
The order of the code is kept: the parent is set before the recursive call, the
part is appended after it, the frozen flag is copied before.

What a text contains is a parameter: `Parts`, `Embedded`, `AsMessage` say what
the multipart reader, the uuencode and yEnc readers, and the message reader find
in a body. A theorem about all their values is a theorem about all texts.

`Ops` are the operations the caller uses. One stands for a careless caller:
`"cloneMessage"` is clone() of a content with an encapsulated message.

`ImplementsForest` is the refinement: with `live` for the nodes, `contents()` for
the children, and as messages those some `shared_ptr` points to, every step of
ContentTree, those inside parse() too, is a step of Forest or changes nothing
there. A part that parse() is working on is a tree of its own until it is
appended.

### ContentIndex

The navigation functions on the states of ContentTree, as recursive functions.

### TreeQueries

The trees of Forest with the headers the queries look at (media type, names,
disposition), and the walks of `util.cpp`, `Content::attachments()`,
`textContent()` and `Message::mainBodyPart()`, as recursive functions. Only a multipart has parts and
only a message/rfc822 an encapsulated message, as in the trees of parse().

### ContentBody

One content, with its body as data plus the list of transfer encodings that are
applied to it; decoding what is not encoded gives `Garbled`. `current` and
`content` are history: whether the objects are up to date with the text, and
what the caller last put in. `ContentTree` and `ContentBody` model the same
`parse()`, one its effect on the tree and the other on the text of one object.

The careful caller changes a content when its objects are up to date and it is
not frozen, parses a text once, freezes before it parses and gives an object one
text. The members `"reparse"`, `"reuse"` and `"freezeLate"` of `Ops` are the
three ways not to be careful, received uuencoded texts a fourth. Each of the
four breaks a property; see the last section.

### MultiPart

The reader of a multipart body with the two cursors of the code, a step per
search, next to a definition by lines: the delimiter lines of RFC 2046 with the
code's own rules for broken texts. `EncodedBody` is what `Content::encodedBody()`
makes of preamble, parts and epilogue.

### NonMime

The two readers for attachments without MIME, one block per step. A symbol is a
byte or one of the keywords the readers search for; the yEnc decoder works on
bytes, with its escapes and line ends (`DecodeNext` is a turn of its loop,
`DataEnd` where it stops). `UUBlock`, `UUAccepted`, `UUNumbers`,
`UUBadName`, `UUTake`, `UUEnd` are the ways through a turn of the uuencode loop,
`YencBlock`, `YencTake`, `YencEnd` those through the other. `Content` is what
`parseUuencoded()` and `parseYenc()` make of the result. `expected` is history:
what the author of an article put into it.

### HeaderLines, MessageText

Pure operators on texts whose symbols are the characters the code tells apart.
`FoldHeader` is the loop of `foldHeader()`, a recursive function over the state
of the loop (`FoldState`: the text, the position, the start of the line, the two
places where it may be folded, the `HeaderContext`); `FoldLine` and
`ReadCharacter` are its two kinds of turn. `UnfoldHeader`, `FindHeaderLineEnd`,
`ExtractHeader` and `ParseHeaders` are the way back, `ValueOfHeader` the search
by name, `AssembledHead` what `assemble()` writes. `LogicalLines` (with `LineEnd`)
and `Words` (with `Blank` and `WordEnd`) are a definition by lines that these are
compared with; they model no code.

MessageText is a content as text: where `setContent()` cuts it and how
`encodedContent()` joins it, with LF or CR LF, how `parse()` makes headers of the
head and `assemble()` a head of the headers, and the caller's changes between.

### HeaderSyntax to HeaderTests

Five modules of pure, recursive operators are the parsers, in the order in which
`headerparsing.cpp` builds them on each other: comments, encoded words, quoted
strings and phrases (`HeaderSyntax`), addresses (`AddressSyntax`), parameters
with the continuations of RFC 2231 and their printing (`ParameterSyntax`), dates
(`DateSyntax`), and the `parse()` and `as7BitString()` of every class
(`HeaderValues`). A parser takes the text, the place of the cursor and the
`ParserState`, and returns what the C++ function returns through its references:
whether it succeeded, where it left the cursor (also on failure, where callers go
on from there), the value, and the state. A symbol is a character the grammar
looks at, or a short word that stands for other characters.

`HeaderObjects` is a header object over time: made by name, given a text, changed
by the setters of its class, given another text, cloned. `HeaderTests` has what
`autotests/headertest.cpp` expects, as pairs of text and value.

### MC modules and mutants

`MCContentTree`, `MCContentBody`, `MCMultiPart`, `MCNonMime`, `MCMessageText`,
`MCHeaderObjects` and `MCTreeQueries` define the instances. Operators whose
comment starts with "Mutant" are plausible mistakes in the operator that follows
them: each shows that a property fails when the code is wrong in that way.

## What TLC checks

| Run | Question | Bounds |
|---|---|---|
| `Edit.cfg` | Do lists, parents and owners agree whatever trees a caller builds, edits, clones and deletes, and is every operation one on whole subtrees? | 5 objects, all owned at the start: lists of 4, chains of 5, a move between two parents with siblings |
| `Parse.cfg` | And during and after parse(), for every kind of text, parsed again, grafted into each other, with encapsulated messages held by the caller? Does an index lead back to its content? | 4 objects, one text at a time, depth limit 1: the limit is reached, and a uuencoded post, parts and encapsulated messages occur; indexes of length 3 with positions 0 to 3 |
| `Deep.cfg` | Does the depth limit bound the recursion, does parse() return, and are frozen objects left alone? | depth limit 1, texts nested four deep, a multipart without parts and a piece of a split post, every combination of frozen flags on 3 objects |
| `Body.cfg` | Is the body ever encoded twice, left plain, or changed while frozen? | 2 data, 3 types, 5 encodings: complete, as the model has no counters |
| `MultiPart.cfg` | Does the reader split at exactly the delimiter lines, is assembling its inverse, does it end? | every body of up to 7 symbols: two delimiters with text, a closing one and what follows |
| `NonMime.cfg` | Do both readers end, are text and attachments the whole article, and do authors' articles arrive? | every article of up to 3 lines out of 7 (uuencode) and 13 (yEnc) kinds, the yEnc ones also behind a whole block, and authors' articles with one attachment of 3 bytes or two of 2; a block without a mark needs 2 encoded lines instead of 15 |
| `Text.cfg` | Are texts joined as they were cut, headers read as they stand and as they were folded? | texts of up to 5 symbols and of 7 with a header at the start; lines of 3 characters, so that a value of 4 is folded up to twice; transmission of up to 8 symbols |
| `Headers.cfg` | Does a clone hold what its original holds, do addresses survive, and do the tests' results depend on what the object was before? | 19 headers, one or more of every class; per class the texts of headertest.cpp and up to 20 broken ones; lists of 2 entries; 4-digit numbers overflow |
| `Queries.cfg` | Do the queries agree on every tree, and does taking out one attachment change another? | 4 contents of 10 kinds, in at most 2 trees |

Three runs are expected to fail, because the code does not do what its
documentation says (`findings` in PROJECT.json): `CloneShares.cfg`, `Reparse.cfg`
and `Fold.cfg`.

Bounds: `MaxOwned` stops the caller from creating further objects, `MaxTexts`
limits how many objects hold an unparsed text, `NodesNeeded` makes parse() start
only when there are addresses enough (memory does not run out in the code),
`MaxTrees` the trees that TreeQueries begins, `MaxSent` the length of transmitted
texts, `MaxSize` what a caller puts into a content as text, `MaxEntries` the
lists that setters make, `MaxLength` and `MaxPosition` the indexes looked up,
`MaxLength` of MCMultiPart the bodies, `MaxUULines` and `MaxYencLines` the
articles. `MaxOther`, `MinEncoded`, `IntMax`, `MaxLen` and `DepthLimit` are
numbers of the code (10, 15, the largest int, 78 and 32), smaller in the runs so
that both sides of each are reached. Three to five objects suffice for the tree
because every operation relates at most an object, its old and its new parent
and a sibling; the recursion adds the depth limit. Addresses are symmetric; the
run with a liveness property of the tree uses no symmetry.

Fairness: `FairSpec` of ContentTree has weak fairness of the steps of parse(),
which is a plain call that nothing interrupts; `Spec` of MultiPart the same for
its loop. The caller is never obliged to call anything. `ReadersAdvance` says of
the loops of NonMime that every turn goes forward in a text that is finite.
`MultiPart.cfg` does not check deadlock since its behaviours end.

## What is proved

All theorems hold for every value of the constants that the modules' assumptions
admit: every set of objects, every text, every depth limit.

### The content tree

`ContentTreeProofs` begins with `TreeTypeCorrect`. `TypeOK` is inductive as it stands, but
not trivially: clone() maps lists through a bijection and needs that every
copied object but the root is in the list of a copied object
(`CopiedProperties`), which follows from "copied" being the least closed set; the
destructors choose the element to remove (`RemoveAllType`).

It goes on with `PointersAlwaysAgree`, `AlwaysOneOwner`, `HeldAlwaysAlive` and
`ContentsAlwaysExclusive`, in the middle of parse() as well. None of the four is
inductive: to see that a destructor leaves no dangling pointer one must know that
it reaches every object that points to a dead one. `OwnInv` is `TypeOK`,
`PointersInv` and `CallsOK`. `PointersInv` says that objects that are not
allocated are blank (so that a new one is), that children point back and parents
list their children, that lists have no duplicates, that the owners partition the
objects, and (`NoLoop`) that parent pointers do not loop, so that nothing is
destroyed from below. `CallsOK` says how far each call of parse() is: it lets go of the old children
before it makes new ones, the part in its hands (`Pending`) has the call's object
for a parent or, before it is parsed, no parent and no children, only the call on
top has such a part, and no two calls work on the same object or part. The
destructors are the hard steps (`Doomed` is a least set; its complement has to be
closed).

These four, and all theorems about ContentTree below, assume `CarefulCaller`: the
caller does not clone a content with an encapsulated message in it. The
assumption is needed: with it dropped, two containers share one message, and
`CloneShares.cfg` shows how `PointersAgree` fails.

Its last part is about parse(): `ParseAlwaysLocal`, that parse() leaves alone what is not below its
object; `FrozenAlwaysSeals`; and `RecursionAlwaysBounded`, that the number of
nested calls stays within the depth limit. For the last, `DepthInv` says that
every call works on a child of the object of the call before, so that `Depth()`
grows by one with each; that this recursive function is defined and counts the
parents is an induction over the chain of parents, which `NoLoop` makes finite.
`FrozenInv` says that the objects below a frozen one that is being parsed, those
not yet in the tree included, are frozen or made up from uuencoded text.

`ForestProofs`: `TreesStayTrees`, that Forest keeps `IsForest`. `IsForest` speaks
of `Tree`, a least fixed point, and is not inductive in that form. The invariant
`FInv` says instead that lists have no duplicates, that a content is in the list
of one parent only, that a message is an only child, and (`NoLoop`) that for every
content there is a set closed under children that has its children and not itself.
For a graft the separating sets of the old and the new parts are combined
(`Adopts`), for everything that deletes they shrink (`Shrinks`, `PrunedShrinks`),
and for a copy they are the images of those of the original.

`ImplementationProofs`: `TreeImplementsForest`, the refinement that the runs check,
and from it and `TreesStayTrees` the theorem `ContentsStayTrees`: the contents of
the code have no cycle and no content with two parents. There is a lemma per
operation (`AppendImplements`, `SetParentImplements`, `DeleteImplements`,
`CopyImplements`, ...). What the destructors take with them is exactly the subtree
without the subtrees of the messages somebody shares (`DoomedIsTree`), and what
clone() copies is exactly the tree of its original (`CopiedIsTree`); both are
equalities between least sets, one along pointers, the other along lists.

The same module proves `IndexAlwaysInverse`, for trees and indexes of any size;
the only further assumption is that memory (`Node`) is finite. Every content is
lower in the tree than its parent (`HeightExists`: it has fewer objects below it),
so the recursive functions of ContentIndex are defined (`RecursionIsDefined`), and
one can go down the tree (`DownInduction`), up (`UpInduction`) and along an index
(`IndexInduction`). Two indexes that lead to one content are equal, since it has
one parent and is in its list once (`OneWay`); what indexForContent() finds leads
there (`SearchLeadsThere`), and it finds all that is below (`SearchFinds`).

### The readers and the body

`MultiPartProofs`: `CursorsStayInText`, for every body. `IInv` adds to the types
which cursor is where at each place of parse(): `pos1` is before the end when a
boundary is opened, `pos2` when a part is taken, and `pos1 <= pos2` from one
boundary to the next. The minimum that `indexOf` finds needs well-foundedness
(`LeastOne`).

`AlwaysSplitsAtDelimiters`, also for every body: the parts are what lies between
the delimiter lines. The property says so only at the end; the invariant
`SplitInv` says it on the way. Up to the first delimiter nothing is found
(`Starting`); then parse() is behind an opening delimiter `c` (`Reading`), has
found the texts of exactly the delimiters before `c`, in their order (`Found`),
and no delimiter lies between `c` and the second cursor. That two delimiters
cannot be passed at once, and that an empty part is none, is in `NextDelimiter`
and `FoundNext`; the end without a closing delimiter in `LastDelimiter`.

`ReassembledAlwaysSame`: what `encodedBody()` makes of preamble, parts and epilogue
is split into the same ones. A piece of a text that starts a line and stops before
the next delimiter has no delimiter of its own (`CleanPiece`, `CleanTexts`), and it
gets none behind the newline of its new delimiter (`NewBlock`). `Rebuilt` is what
holds of the text after `n` parts; the theorem follows by induction over `n`
(`AssembledIs`) and for the closing delimiter and the epilogue from `ReadAgain`.
The epilogue may hold anything: the first closing delimiter ends the reading.

`NonMimeProofs`: `ReadersStayInText` and `ReadersAlwaysAdvance`, for every article
and Subject (`ArticlesAssumption` says that they are texts). `NInv` adds to
`TypeOK` that the text and the Subject stay what they were and that the lists are
lists. Every mark is searched from the cursor on, so every block ends behind it
(`BlockGoesOn`, `YencGoesOn`), except where the uuencode reader gives up. The loop
that decodes yEnc data is a recursive function of its state; that it is defined on
every text (`LoopIsDefined`) and ends behind where it started (`LoopGoesOn`) is an
induction over the positions that are left.

`TextIsAlwaysTheRest`: the text that is left and the attachments are the whole
article. The invariant `KInv` says it on the way: what lies before the cursor and
in no attachment is the text so far, the attachments lie before the cursor, in
order and apart, and the first block starts at the first mark (`TextFollows`,
`FinishLeavesRest`, `TakeLeavesRest`). Where the loop keeps text a second time is
excluded by `Tidy`, which is why `Tidy` asks for both marks of the first block.

`ContentBodyProofs`: under the assumption `Careful` (no `"reparse"`, no
`"reuse"`, nothing uuencoded) and for all data and texts, the four properties
`FlagIsRight`, `ReadBack`, `SentIsReadable` and, with freezing before parsing,
`FrozenIsImmutable`. None of them is inductive: that the body fits its header
depends on where it came from. The invariant `IInv` has two parts besides the
types. `AsReceived`: a text that was set and not yet parsed is in an object whose
flag is TRUE and is encoded as its own head says. `UpToDate`: otherwise the body
is the content, plain or encoded once as the header says, and then there are no
parts; or there is no body, and the parts are the content and their header does
not transform. That decoding undoes encoding (`DecodeEncode`) is a lemma about
the model's bodies; that KCodecs does is assumed.

`PointersInv`, `CallsOK`, `DepthInv`, `FrozenInv`, `NInv` and `KInv` also hold on
the instances of the runs (`Edit.cfg`, `Parse.cfg`, `Deep.cfg`, `NonMime.cfg`),
where TLC checks them as invariants when they are added.

### The queries

`TreeQueryProofs`: `AttachmentsAlwaysAgree`, `BodyAlwaysAgrees` and
`AttachmentsAlwaysStay`, for every tree that the operations of Forest can make,
with any headers on its contents; memory (`Node`) is finite. The shape of the trees
is the inductive part: `FInv` of ForestProofs, which the headers do not disturb
(`TreesAlways`). The rest is about one tree, and about two for the last theorem.

The walks are recursive functions. In a finite forest a content has a height
(`HeightExists`), so they are defined (`RecursionIsDefined`, `TreeRecursion`) and
one can go down a tree (`DownInduction`). Each walk is then compared with
`Reached`, which says without recursion which contents a walk can come to
(`ReachedIs`): `HasAttachmentIs`, `HasInvitationIs`, `MainBodyIs`, `TextIs`. The
list that attachments() makes is put together with `FlattenSeq`; that it has every
element once needs that the trees of siblings are apart (`SiblingsApart`,
`FlatMembers`). isAttachment() asks the top-level content for its text from inside
the walk: a content has one root (`TopOfTree`), and all that ask get the same
answer (`TextsAgree`).

When an attachment is taken out, the root keeps its text (`TextStays`), so nobody
else's answer changes; the walks outside the subtree find what they found
(`Outside`), and the list loses one element where the contents above it lose one
part of theirs (`FlatWithout`, `FlatDrop`, `ListStays`, `RemovalStays`).

### The text of a message

`MessageTextProofs` is about every head, body and value, of any length. Under
every step of MessageText the text of a content stays what was given to it
(`AsGiven`), and its head has no empty line (`NoEmptyLine`), since an empty line
would end it; for the second, a caller must not put a newline into the name or
value of a header (`SingleLine`), which is what the setters of KMime are for. From
the two follow `ReceivedIsSent` (what was set is sent byte by byte),
`HeadsHaveNoEmptyLine` (the types of the heads) and `SentArrives` (what is sent is
split again where it was joined, with LF and with CR LF).

`FoldedLinesAreShort` and `FoldedHeadersArrive` are about the loop of
`foldHeader()`. Its state `LaidOut` says which part of the text has been copied
and that the result is a `Layout` of it: the text with some spaces replaced by a
newline and white space. `ShortState` says how long the line in hand is and where
it may still be folded. Both are kept by either kind of turn (`FoldLine`,
`ReadCharacter`). Then `UnfoldHeader` of a layout is the text again, a layout has
no place where `FindHeaderLineEnd` would stop, and so `parse()` takes exactly one
header from it (`LinesAt`, `HeaderIsFound`). That it finds all of them is an
induction from the last header to the first (`Found`).

`HeadersAlwaysTheLines` needs no assumption on a head but the one in the property,
that each of its lines is a header (`IsProper`): the head need not be one that
KMime writes. It is proved in three parts.

* The lines: a line that is proper has its colon where `ExtractHeader` looks for
  it, and where that function stops the line stops (`LineIs`, `HeaderOfLine`), so
  each place where a line starts is one that `ParseHeaders` comes to, and the two
  lists grow together, from the last line to the first (`ListOneMore`,
  `LinesListed`).
* The words: `Words` of a text depends on what stands from a place on only
  (`SameTailSameWords`), and a piece in front of white space has its own
  (`WordsBefore`). A turn of `UnfoldHeader` takes a fold out and puts a space
  in or not; either way the words are those of the text, unless the rest is one
  character (`KeptWords`, `UnfoldedOnce`, `UnfoldedWords`). The value that is read
  differs from what stands behind the colon by white space in front only
  (`TailWords`, `ValueWords`).
* The search by name: a newline, a name and a colon stand where a line of that
  name starts and nowhere else (`NamedIs`, `NameOfLine`), so the first such place
  is the first such line (`FirstIsFound`), and its value has the same words though
  the search skips its spaces in another way (`FirstValue`).

The loops are recursive functions of a state or a position. That such a function
is defined has to be proved of each (`RecursionIsDefined`): one builds the values
that a bounded number of turns reaches (`Unrolled`), which agree where a measure
is small enough (`MeasureInduction`).

### What is only model-checked

* Everything about header values and header objects: their modules have RECURSIVE
  operators, which the prover cannot reason about. `HeaderTests` is checked value
  by value.
* `ArticleArrives` compares what is read with what an author wrote: it is about
  the authors' articles, which are constants of the instance.
* The liveness properties, `ParseReturns` and `ParseEnds`: they need fairness and
  ENABLED. `RecursionAlwaysBounded` and `ReadersAlwaysAdvance` are the safety
  parts of such an argument.

## What is not modelled, and what is abstracted

* Charsets: there are ASCII and one other. Wording
  and NUL characters in a head. `asUnicodeString()` and `displayString()`.
* What parse() does besides in the modules about one content: ContentBody has no
  uuencode or yEnc reader and no encapsulated message (ContentTree has), and
  MessageText does not add the Content-Type that parse() creates when there is none.
* The textual form of an index, character frequencies (ratios of floating-point
  numbers), MDN texts, what `assemble()` and `clear()` of Message and NewsArticle
  add to those of Content.
* A newline that decodeText() adds at the end of a text, and line breaks that
  base64Encode() makes, are layout. The characters of a uuencoded line are not
  decoded.
* The caller never puts an object below itself, as the code would build a
  cycle. It never calls `appendContent` on an encapsulated message's container
  (an assertion). It calls `setParent` only with a parent that has sub-contents:
  with any other, content.cpp:755 sets the pointer and adds the content to no
  list, though `content.h:714` says it adds it.

What properties except, because the code does not keep it:

* `ContentBody`, careless sequences besides parsing twice (`Reparse.cfg`):
  clear() does not reset `m_decoded` (`"reuse"` breaks `SentIsReadable`),
  freezing after parse() does not save the body (`"freezeLate"` breaks
  `FrozenIsImmutable`), and a received uuencoded text cannot be encoded again
  after `decodedText()` (breaks `SentIsReadable`).
* `MessageText`: a body that is set with exactly one leading newline loses it on
  the way, and a text whose first line ends in a carriage return arrives without
  its carriage returns when it is sent with CR LF, because `LFtoCRLF()` looks at
  the first newline only (`TextArrives`); a text without a head whose body starts
  with two newlines is sent with one less (`SentAsReceived`); unfolding joins a
  last word of one character to the word before (`HeadersArrive`, see
  `Fold.cfg`), makes one space of several at a fold, and a value that starts with
  a space can be folded into a line of white space only, below which parse() does
  not find it (`Plain`). `setHeader()` replaces the first header of a type only.
* `NonMime`: a uuencoded block with a bad name or without its end, after text was
  taken, keeps that text twice (parsers.cpp:225, 261; `Tidy` in `TextIsTheRest`),
  and so does a mark in the middle of a line before the first block, which hides
  it; such a mark also hides later ones; the part numbers of one yEnc
  block stay for the next; `=yend size=5` at the very end of a text is not seen.
* `HeaderObjects`: `Clean` lists what a class can print such that it is read
  again. It leaves out, among others, parameter names that look like
  continuations (`name2` after `name*0` is swallowed, sections above nine are
  permuted), addresses with domain literals (headertest.cpp expects that to
  fail), quotes inside display names (`stripQuotes()` removes them), names of
  groups, which are not printed, and MailCopiesTo with both a flag and
  addresses. `AddressesSurvive` leaves out names with `?= =`, of which a quoted
  string loses two characters after an encoded word (headerparsing.cpp:433).
  Setters and texts that make such values are in the runs; only the comparison
  of the clone leaves them out.
* `TreeQueries`: `isSigned()` does not see a multipart/signed inside a
  multipart/mixed, so `BodyAgrees` has one direction only; `attachments()` looks
  into multipart/alternative although `content.h:618` says that it does not
  include what is there, so `AttachmentsAgree` does not say whether attachments in
  a multipart/alternative are listed (the condition that would leave them out is
  commented out, content.cpp:460); the text of an
  encapsulated message can be an attachment of its container; a part without
  Content-Type in a multipart/alternative, on which `mainBodyPart(type)` would
  dereference a null pointer (message.cpp:71), is none of that type here.

## What further work could add

* The header values without RECURSIVE operators, to prove that what a class prints
  it reads again (`CloneKeeps`).
* A measure of what parse() of a tree has left to do, as a safety property, for
  the part of `ParseReturns` that does not need fairness.
* `assemble()` of Message and NewsArticle, on the headers of MessageText.
