# opennuts-gmk: models, checks and proofs

This directory is a TLA+ development of the OpenNuts geometric modelling
kernel: modules translated from its C++ sources, TLC configurations that
explore them on small instances, and proofs checked by TLAPS. `PROJECT.json`
lists the runs, the mutants that show each property can fail, the source lines
every definition stands for, the findings, the hazards and the theorems.

## The system

The kernel is a single-threaded C++20 library with two servers on top. Nothing
is persisted. What is hard about it is of six kinds:

* handles that outlive what they name (the pool, and every structure above it);
* references between entities that are written one at a time, by calls a client
  may make in any order (bodies), with caches and copies derived from them;
* a peer that sends calls ahead of the replies, sends broken frames, closes or
  stops reading (the two servers);
* lengths that leave the integers for doubles and come back (primitives);
* texts a client may damage anywhere: frames, JSON, programs (the readers);
* index arithmetic that only some knots, degrees or segment counts exercise
  (splines, meshes).

| Component | State | Operations | Used by |
| --- | --- | --- | --- |
| Object pool, `include/gmk/pool.hpp` | slots with generations, LIFO free list, live count | `alloc`, `free`, `get`, `alive`, `clear`, `for_each`, `handle_of_slot` | one pool per entity kind of a body |
| Body, `brep/body.*`, `brep/topology.hpp` | eight pools, shell list, cached box and its dirty flag | `new_*`, `add_*`, `link_loop`, `mate_coedges`, `add_*_loop_to_face`, `add_face_to_shell`, `register_shell`, `bbox`, `clone` | primitives, validator, tessellator, servers |
| Validator, `brep/validate.*` | none | `validate` | clients, tests |
| Primitives, `brep/primitives.*` | none | `make_box`, `make_sphere`, `make_cylinder`, `make_cone`, `make_torus` | evaluator, geometry server |
| Framing, `server/jsonrpc.*` | the stream | `read_message`, `write_message` | both servers |
| Geometry server, `server/geom_server.*` | bodies by id, id counter | eval, primitives, queries, delete, clear, info | its client |
| Language server, `server/lsp_server.*` | open documents | initialize, shutdown, exit, didOpen, didChange, didClose, hover | an editor |
| Front end, `lang/lexer.*`, `lang/parser.*` | position, diagnostics | tokenise, parse with recovery | evaluator, language server |
| Evaluator, `lang/eval.*` | scopes, emitted bodies | evaluate a program | geometry server, command line |
| NURBS, `geom/nurbs_*` | knots, control points | `init`, `find_span`, `point`, `derivatives`, `insert_knot` | clients |
| Units, `units.hpp`; arena, `arena.hpp` | none; a bump pointer | conversions, saturating sums; allocate, scopes | everywhere; nothing yet |
| Tessellator, `tess/*` | none | `tessellate`, `flatten` | servers, command line |
| JSON, analytic geometry, transforms, booleans (stubs), entry points | none | | |

Interaction is by direct calls, callbacks of `for_each`, and two byte streams
per server.

What makes each part correct, in the words the models check:

* pool: the free list is exact, a held handle finds its own object or nothing,
  and the whole is a store of numbered objects;
* body: what the helpers write never dangles, the cached box is never stale, a
  copy is as sound as its original, a half-failed call is noticed;
* validator: the walk accepts exactly the rings that close, and always ends;
* primitives: what is built bounds a solid, validates, and copies exactly;
* tessellator: the mesh of a solid is a closed surface with one side;
* readers: what was written is read back, what was meant is built, an error is
  blamed where it is, and nothing is lost without a word;
* splines: answers are those of the definition, a refinement changes nothing,
  and the search for a span ends;
* servers: one reply per request in order, replies that are true, no change
  missed, service until the peer is done, and then an end.

## Modules

`MC*` modules give the constants of TLC's instances; `*Proofs` modules hold
theorems. An arrow reads "extends" or "instantiates".

```
Pool -> HandleStore (refinement)        PoolProofs -> Pool
Body -> Topology                        TopologyProofs -> Topology, StreamProofs
                                        BodyProofs -> Body, TopologyProofs
Tessellator -> Primitives -> Topology, Streams
                                        PrimitiveProofs -> Primitives, Units, TopologyProofs
EvalCall -> Evaluator -> Parser -> Lexer -> Numerals
EvalCall -> Json -> Numerals            EvalCall -> JsonRpc
NurbsSurface -> NurbsCurve -> Splines -> Rational     CurveProofs -> NurbsSurface
Units
GeomServer -> JsonRpc, Streams, Session (refinement)
                                        GeomServerProofs -> GeomServer, StreamProofs
LspServer -> JsonRpc, Streams           LspServerProofs -> LspServer, StreamProofs
```

**Pool** is `pool.hpp` word for word in its control: `gen`, `link` and `data`
are the three vectors from index 1 on, `head` and `live` the two counters.
`next_free_` gets its first element when slot 1 is created and the sentinel 0
has none, so with n slots it has n elements: `free` stores slot n's link one word
past its end, and `alloc` loads it from there. C++ promises nothing of such a
load, so `LoadLink` takes any `Word` for it: the link that was stored, another
slot, or a number that names none. The history variable `torn` says whether it
ever differed from the one stored. Behaviours are followed as long as `head`
names a slot or is 0: an `alloc` from any other head writes outside all three vectors,
and nothing could be said of what comes after. What an out-of-bounds store does to
other objects of the program is left out. The history variables `issued` and
`dropped` are the client: the handles it was ever given, and how many of them it
had to forget at a `clear()`.

**HandleStore** promises what a user of a pool wants: objects with numbers, and
a `free` that succeeds once. It is allowed what the code cannot exclude: it may lose
track of its free room during an allocation, and then an allocation may take the
room of a live object (`AllocOver`), whose references are refused from there on.

**Topology** is one body as a value. Nobody frees an entity of a body, so its
pools hand out slots 1, 2, 3 ... and a handle is a number; a number past the end
is a handle of another body. Every operation of `body.cpp` is an operator from
bodies to bodies, written as the code leaves the entities; `Relink` is a whole
`link_loop` including what a failed one leaves. `Validate` is the set of
errors, `Walk` the loop over a ring with its seen-set and its step guard, as a
recursive function each value of which is one more `WalkRound`, a turn of that loop.

**Body** puts a client on top that calls anything in any order, with handles that
name nothing (`Dead`) among the good ones: in the theorems any numbers, null
included, in TLC's instance those of another body. Direct writes through entity pointers are
limited to `Move`, which marks the box dirty as the header asks.

**Primitives** builds each primitive as folds over Topology's operators, in the
order of the code: handles are assigned in that order, so partners and outgoing
coedges come out as in the program. `ToDouble` rounds a coordinate as
`to_vec3d_m` does, with the constant `Exact` for 2^53. A call is one of `Requests`:
any whole coordinates and sizes, an axis that is unit or null. Coordinates do not
saturate here; that the sums of lengths in the working range never have to is in
Units.

**JsonRpc** says what `read_message` makes of the next frame: accepts it, fails
with Parse or Io, or blocks because nothing is there and the peer is still
connected. A frame is a value; broken ones have a kind.

`write_message` is in the two servers, for it is bound to their output. It ends in
`flush()` on a pipe that holds `PipeSize` messages, and a message that finds the pipe
full stays in `output` beyond them: until the peer has read enough the server is
not `Writable`, and neither serves, nor exits, nor reads that the input is at its end. A
peer may close its reading end at any time. A write to it, or one that
blocks at that moment, then ends the process by SIGPIPE, for no entry point
installs a handler; or it fails without effect, where the process inherited an ignored
SIGPIPE or the stream is no pipe. `WriteToClosed` chooses anew at each such write,
which is more than any one process does and includes both.

**GeomServer** has one action per round of `Server::run()` and one disjunct per
method, each with its early returns; the client sends, closes, stops reading and
concludes from replies what the session holds (`known`). **Session** is the
atomic session it believes in. A body is named by the request that built it and
its place among that request's bodies. `Effect` says what one call does to one
session, of given values rather than of the state, so that a run of calls can be
followed through replies still under way. `QuiescentMirror` is then exact: a
client that has read everything knows the bodies and no other.

**LspServer** has the same shape for `LspServer::run()` and `dispatch()`. A text
stands for its own diagnostics and hovers, for both are functions of it.
**Streams** picks the frames of one kind out of a stream, for both servers: it is
`SelectSeq` with the places in a set, defined by a recursive function.

**Tessellator** makes the mesh of a body of Primitives, face by face, and
flattens it. A point is not computed but named by what it is sampled at: a
fraction of a turn in lowest terms, a radius and a height; so seams, poles and
rims coincide exactly when the code's formulas give the same point. Segment
counts are constants where the code computes them from a tolerance. Normals are
left out.

**Numerals, Lexer, Parser, Evaluator** are the path of a program from text to
bodies. A text is a sequence of symbols: a character, or a piece of a word that
stands for its letters. A number is the decimal it prints as; `strtod`,
`strtoll` and `snprintf` are modelled by what they take and leave. The lexer is
a recursive operator, checked by TLC only. The parser takes one step per item
and per statement, as its two loops do, so what a step consumed and what it
reported can be related; inside a step it is `[at, diags]`. The evaluator takes
one step per directive and statement and hands bodies to the store.

**Json** is the reader and the compact writer, symbol by symbol. **EvalCall**
joins them with the framing: a client spells a program in some layout, may
mistype one symbol of it, and sends it as a JSON string in a frame whose length
may be off; the server reads the frame, the document and the program, and
builds. GeomServer has the same call as one step, with the number of bodies free.

**Rational, Splines, NurbsCurve, NurbsSurface**: exact fractions with a value
`Undef` for what is no number; the basis functions and their derivatives as the
code spells them out, next to the recurrence that defines them; a curve whose
`find_span` takes one turn of its loop per step, and the caller's work as one
step after it; a surface whose calls are one step. Knots and parameters are whole
numbers of a step, which the algorithms only compare and subtract. Of the three
coordinates, which are treated alike, one is kept.

**Units** is the saturating sum and difference, where a sum that does not fit
may be any `int64_t`, for overflow is undefined. No run uses it: what it says of
them is proved in PrimitiveProofs.

## Runs

| Run | Configuration | What it shows |
| --- | --- | --- |
| `pool` | MCPool.cfg | any order of alloc, free and clear below the wrap, whatever is read past the end of `next_free_`: types, generations that count, a free list that is exact until a link is read back wrong, exact lookup, and the refinement of HandleStore |
| `pool_wrap` | MCPoolWrap.cfg | *violation*: past the wrap a stale handle is accepted |
| `pool_tail` | MCPoolTail.cfg | *violation*: a link lost past the end of `next_free_` makes an alloc take a slot in use |
| `body` | MCBody.cfg | any two edits after one creation, from two starts |
| `primitives` | MCPrimitives.cfg | all constructors over small sizes, three places, all axes, and their meshes under two sets of options |
| `primitive_empty` | MCPrimitivesEmpty.cfg | *violation*: a failed box leaves entities |
| `geom_server` | MCGeomServer.cfg | three pipelined frames of every kind over a pipe that holds one reply: safety, and liveness while the client reads or has closed its reading end |
| `geom_server_errors` | MCGeomServerErrors.cfg | *violation*: a broken frame ends service without a reply |
| `lsp` | MCLspServer.cfg | three pipelined frames over two documents and a pipe that holds one message: safety, and liveness likewise |
| `readers` | MCReaders.cfg | three programs as meant, with every single slip of the keyboard, under frames that are off, and all short hard sources |
| `curves` | MCCurves.cfg | 13 curves refined in every order, 8 surfaces, every whole parameter: safety, and the search ends |
| `curve_end` | MCCurvesEnd.cfg | *violation*: a knot inserted at the end makes the end point no number |

The violations are disagreements between the code and its own documentation, two
of them bugs (`pool_tail`, `curve_end`):

* README.md:110-114 promises that a stale handle is "always detected"; a
  generation has 16 bits and moves on by two per recycling.
* README.md:110-111 says that odd generations are live, even ones free, and that an
  allocation flips up to the next odd one; `next_free_` is one element short
  (`pool.hpp:46-47, 58-60, 115`), so the link of the last slot is stored past its end
  (`:80`) and read back from there (`:54`), and what comes back may name a slot in
  use, which the next `alloc` overwrites. `AllocTakesFree` is violated in five calls.
* `primitives.hpp:9-10` promises an empty body on failure; `make_box` at a
  centre of 2^53 units or more can fail at an edge, after its vertices.
* `geom_server.hpp:30-31` says errors are returned as JSON-RPC errors; `run()`
  returns instead when a frame does not parse.
* `tests/test_nurbs.cpp:91` says knot insertion preserves shape; one at
  `u_max()` is accepted past degree + 1 and the end point becomes NaN with Ok.

Divergences met while modelling that no run is spent on, since they happen on
every call of their kind or concern wording:

* `topology.hpp:11-12` says a coedge has a partner; `make_cylinder` and
  `make_cone` never mate.
* `tessellator.cpp:104-107, 174-177` says caps share the wall's vertices; a cone's
  wall has a fixed 24 segments and its caps as many as the tolerance asks for, so
  its mesh is closed only when the two agree (`Watertight` says exactly when).
  `tessellator.hpp:57` speaks of a `failure_count` that does not exist.
* `body.hpp:97` speaks of the bounding box of the body; `bbox()` is that of the
  vertices, and a cylinder has two of them, on its seam: of a cylinder's
  box only its height is that of the solid. `TightBBox` is about the shapes whose
  box is right.
* `eval.hpp:7-8` says the evaluator builds "one brep::Body per ``body NAME { ... }``
  declaration in the source"; it builds one for each primitive in it that is sound
  (`eval.cpp:179-195`).
* The comment at `eval.cpp:175-177` says these are "named NAME_<index>"; they are named
  `NAME#<index>`, or `NAME` where the declaration has a single statement
  (`eval.cpp:185-189`). `BuiltAsMeant` asks for the solid of each sound primitive in
  order, which is the code's count and not the header's, and of the names only
  that they begin with the declaration's and are different within it.
* `eval.hpp:15-16` promises diagnostics for unknown argument names and bad arity;
  `find_arg` ignores what it does not look for.
* `parser.hpp:5-6` says every error resyncs to the next `;` or `}`; an argument
  list resyncs to `,` or `)`, a unit or tolerance not at all. A rejected unit
  still sets millimetres, and what is no statement becomes a box without
  arguments that is reported a second time, at position 0.
* A block comment that is never closed leaves the last character as a token
  (`lexer.cpp:61-67`).
* `derivatives()` returns 0 for the second derivative of a rational curve of
  degree 1, which is not 0 in general; `AnswersExact` therefore stops at the
  degree. `init()` accepts end spans of length 0, and there evaluation answers Ok
  with NaN: `AnswersExact` and `SurfaceExact` say that this is the only place.
* `units.hpp:11` gives the range of a length as 9 million km; at 1e-15 m a unit it
  is about 9 km, and 4.6 km is the working range. The conversions from metres do
  not enforce the latter.

### Bounds, and why they are enough

*Pool.* Generations have two bits (`HalfGens = 2`): the third birth of a slot
repeats the first. Three slots and five objects let a free list of length three
form, be consumed in part and grow again; one `clear` in the middle. A word read past
the end is any slot up to the third, the end of the list, or one number that stands
for all that name no slot. Larger widths change nothing but how long a wrap takes,
and the theorems hold for all. `pool_tail` needs two slots and four objects.

*Body.* One creation and two edits over rings of up to three handles, out of the
live ones and a foreign one. A null handle fails the same comparison in
`Pool::alive` as a foreign one and nothing in `brep/` asks for null itself, so it would
repeat every refusal at four times the states; the theorems have both. The second start, a face over a closed edge
with two coedges, makes two edits enough for rings of one and two coedges,
tangles, repeated mates, a half-failed link on a linked ring and a copy of each.
Two points tell a stale box from a fresh one. The edits are bounded, so the run
ends and deadlock is not an error there.

*Primitives.* Sizes 0, 1 and 2 include the degenerate ones, and let base and top
radius, height and the torus's radii be equal, smaller or larger. `Exact = 4`
makes integers from 4 on even doubles and from 8 on multiples of four: the place
at 8 is beyond, one at -3 is exact and negative, and another moves two axes. The
constructors have no loop whose length depends on a size. The meshes are checked
with 3 or 4 segments, and with as many as the code's own constants give, once
where a cone's rims happen to agree with its wall and once where they do not.

*Readers.* The programs hold every item, constructor, clause, argument style
and kind of unit, an empty body and constructors that refuse. One slip replaces, inserts or drops a symbol at every
position of one of them, with a symbol of each kind; recovery is from one error
at a time, so a second slip would meet the same steps again. The fragments are
all sources of three hard characters, with longer ones after `/*` and `2e`.
`Precision = 2` and `IntMax = 127` make doubles and integers leave their range
within two or three digits; `LengthPerMm = 20` makes inches whole, as 10^12 does,
and halves of a length not always.

*Curves.* Degrees 1 to 3; knots that are clamped, free, double, with a gap of
more than one step, and too many at the ends. `MaxLast = 5` lets the curve of the
tests be refined once and the curves of three points three times, in every order
and at every whole parameter, so that a knot is inserted beside, between and on
inserted ones. Each refusal of `init()` has an argument of its own. Numerators and
denominators stay within TLC's integers.

*Servers.* Three frames allow a call in the reply queue, one being served and
one unread, and a broken one between two good ones. `PipeSize = 1` lets the second
reply block the server with a third frame, or the end of the input, still unread;
the safety theorems hold for every size, 0 included. Two documents tell an answer
for one from an answer for the other. `MaxRequests` and `MaxSent` bound the
client, not the server.

### Fairness

`ServerFairness` is weak fairness of serving and stopping (and of exiting, for the
language server). The process runs one thread which does nothing but this loop, so a
step that stays enabled is taken: a read that has a frame returns, and a flush that
has room does. It does not make a blocked write return.

`ClientReads` and `EditorReads` are assumed of the peer, not of the code: what has
arrived is read as long as the reading end is open. A peer that keeps it open and
never reads leaves the server in `flush()` for ever, and no timeout ends that; without
this assumption TLC refutes all three liveness properties of the servers. A peer that
closes its reading end unblocks the write or kills the process, and then
need not read. Nothing else is assumed of it: it may never close and never send.
`EveryCallServed` and `EndsService` therefore speak of frames that have arrived in full,
and allow the process to have been killed by a write to a closed end, which
`ReturnsAfterClose` admits only if it was closed.

`CurveFairness` is weak fairness of `SearchStep`, one turn of a loop nothing
interrupts. It does not make the loop end: that is what `SearchEnds` checks. The
client may stop at any time.

## Proofs

**PoolProofs** (theorems `PoolTypes`, `GenerationsCount`, `FreeListIsExact`,
`LookupIsExact`, `PoolImplementsStore`), for any width of the generation, any
number of slots, objects and clears, and whatever is read past the end of
`next_free_`. The only hypothesis is `RecyclesBounded`: no slot is born more often than
half the generation values. The inductive invariant has two parts. `HandleInv` joins
the types and `GenerationCounts` to a fact about handles, that a held handle's
generation lies within the births of its slot; it does not mention the links, so
it holds after an `alloc` has taken a slot in use, and with it `LookupExact`. Exactness of
lookup is not inductive alone: it needs that generations within the bound are
different after truncation. The live count is then only bounded from below by the
slots in use (`LiveBound`), which is what keeps it a natural number when a slot was
allocated twice. `FreeListExact` is the other part, and says nothing once `torn`. The
refinement maps an `alloc` to `Alloc`, or to `AllocOver` when the slot was in use, which the
exact free list excludes until `torn`; and it adds that a refused free leaves the
set of live objects alone.

**StreamProofs** has what both servers need of `Pick`: which frame is picked first
or last when a frame is read or sent. It also states induction in the form the
provers take (lemma `NatSets`): a set of naturals that holds 0 and, with a number,
the next one is all of them. The property goes into the set, so no operator is
passed; the other modules use it wherever they follow a recursive function.

**GeomServerProofs**, for any set of calls, both framings, any number of requests and
any size of the pipe. A blocked server only takes fewer steps, and a killed one none;
what the proofs add for them is that the process is killed only when nobody reads.
`ServerInvariant` and `IdsAreStable`: `IdsFresh` is inductive with the types, and
stability of ids is an action property under it. `ServerTypes`,
`RepliesAreConserved`, `MirrorIsExact` and `ServerImplementsSession` come from one
more invariant, `RInv`: the calls the client awaits are those answered but not yet
received followed by those still unread, and there is a *chain* of sessions, one
more than there are replies under way, that starts at what the client knows, ends
at what the server holds, and has each reply as the true answer to its call
between its two sessions. A round of the server makes the chain longer at its end
(`ChainGrows`, with one `...Answers` lemma per method), a reply received makes it
shorter at the front (`ChainShrinks`, `LearnsTrue`). When nothing is under way the
chain is a single session, which is `QuiescentMirror`; and the first link of the
chain is the step of Session that a receipt maps to. The weaker claim that each
reply is true of some session is not inductive: it is the link to its neighbours
that a receipt uses.

**LspServerProofs** (`LspTypes`, `ResponsesAreConserved`, `AnswersAreTrue`,
`DocumentsAreReplayed`, `DiagnosticsArrive`), for any documents and texts, any
number of frames and any size of the pipe. `IInv` has a *path*: a place before every unread frame and one
after the last, each with the documents as they will be there and the responses
due from there on; the first place is the server, the last one the editor. Serving
a frame drops the first place, sending one appends a place and adds what it asks
for to the responses due at every earlier one (`PathRead`, `PathSend`). With it, what
the editor expects is what is on its way followed by what is due at the first
place. A hover is true of the text at its own place, which is why the path and not
just its two ends is in the invariant. `AllFresh` follows the diagnostics: the last
ones on their way for a document, or else those shown, are of the text the server
has. That `didChange` is never sent for a document that is closed at its place is
part of the path; without it a server would ignore a change the editor counts.

**BodyProofs** (`BodyTypes`, `BoxIsFresh`, `ReferencesStayLive`), for any
starting bodies that are good themselves (the empty one is: lemma
`EmptyBodyGood`), any handles and any bounds. The invariant is `GoodBody`: the
body is well typed, its box fresh and its helper-written references good. Types
are needed for the other two, since a handle must be a number to be compared with
null. The argument goes one pool at a time: a `Replace...` lemma says when new
contents of one pool keep a body good, and every operation is one or two such
replacements. `link_loop` needs that its first dead handle exists, which follows
from the well-foundedness of the naturals; `clone` needs that `Remap` returns a
live or null handle as it is.

Three more theorems there (`VerdictsAreExact`, `HalfLinksAreNoticed`,
`CopiesKeepVerdicts`) hold of every such body, of any size, and speak of what the
validator's walk computes; the lemmas about the walk are in **TopologyProofs**, for
they are of any body. Its rounds are a function defined from itself on all naturals; that
there is one is shown from its finite prefixes (`PrefixExists`, `PrefixUnique`,
`WalkExists`), and then `WalkRounds` unrolls it.

* A walk that has not ended after n rounds has seen n coedges, the start and the
  successors of all but the last (`WalkGood`). So it never outlasts its guard, since
  a set of n coedges has at most as many elements as the pool (`SeenBounded`), and
  a walk that closes has seen a set that `next` permutes. Conversely, in a set that
  `next` permutes it cannot return to a coedge other than the start, or `next` would
  map a finite set one to one into a proper part of itself (`NoWayBack`).
* A failed `link_loop` relinks the coedges before the first dead handle to their
  successors in the list. Were some ring it touched still sound, take the last
  place of the list, up to the dead one, whose coedge is on the ring: the ring goes
  on to the next place, which is either a later one or dead (`HalfLinkBreaks`).
* A copy's walk and its original's run in step: their places are the same live
  handle, or both dead (`CopyRound`, `CopyWalk`). That `clone` turns a dead handle
  into null is what `Blurred` forgives, and the rest is the same comparison for
  each kind of issue.

**CurveProofs** (`KnotsStaySound`, `SearchShrinks`), for any curves with whole
knots, any parameters and any number of insertions, from the assumption
`CurvesAssumption` (types of the arguments). `KnotsSound` is not inductive: that
the search holds its parameter needs that it started with one inside the interval,
hence that `u_min <= u_max` (lemma `IntervalOrdered`: knots in order pairwise are
in order, by the least element out of order), and that an insertion keeps the
knots in order needs what the search ended with (lemma `RefinedInOrder`).
`IInv` adds these and what the caller tested before the search. `SearchShrinks`
is the variant behind `SearchEnds`: every turn leaves a smaller natural number.

**PrimitiveProofs** (`AlwaysAnswered`, `PrimitivesClose`, `BoxesMated`,
`PrimitivesSound`, `BoundsTight`), for any set of calls out of `Requests`
(`CallsAssumption`) and any `Exact`. The inductive invariant is `Answered`: while a
call is answered with Ok, the body is the one that call builds. It is needed because
the properties speak of a body and of a call made some steps ago, with refused calls
in between. What remains is about values: that the bodies the constructors build, as
folds of up to 80 operations, have the properties for all coordinates.

* *A fold in closed form.* A fold is a recursive function over 0 .. n, and so is a
  sequence of bodies written down outright; both start alike and go on alike, so they
  end alike (`FoldUnique`). `Made` is a body by its pools, `Has` says the same of one
  field by field, and a `Made...` lemma gives each operation on such a body.
* *One face.* `MadeAddFace` is what a whole `AddFace` leaves: coedges linked in a
  ring, a loop, a face. `Faced` is what holds after k faces: the references are whole
  (`Whole`), and face f has the ring its uses prescribe (`FaceRing`). `FacedStep` is
  the one lemma for the faces of all shapes. A whole body validates clean
  (`WholeSound`), for a ring of coedges numbered in turn is a set that `next`
  permutes, which is what TopologyProofs asks for; and it is copied as it is
  (`WholeCopied`).
* *The boundary.* Where each edge has one use along it and one against it
  (`Paired`) and each ring meets end to end (`Meets`), the body bounds a solid
  (`BoundaryOf`). Positions do not matter, so the tables of a box and the four sorts of
  solids of revolution are checked once.
* *Mating.* In a box each edge has two coedges, an earlier and a later one (`Twins`).
  When the first i coedges have been looked at, exactly the edges whose earlier coedge
  is among them are mated (`CoedgesMated`, `EdgesMated`, `MateStep`); likewise the
  vertices whose first coedge is among them have an outgoing one (`OutgoingSet`).
* *A refused box.* `NoDirection` is about rounding, but a box that is answered with Ok
  has all twelve edges, so no theorem depends on where doubles stop being exact.
* *The extent.* Corner 0 is the least and corner 7 the greatest along each axis
  (`CornersAround`); the two vertices of a sphere or a torus are their own extremes.

The same module has two theorems about Units (`SumsSaturate`, `PastTheRange`), for an
`int64_t` of any width: sums of lengths in the working range have one value, the
nearest length of that range; one past the range they need not.

Model-checked only, and why:

* Liveness, which the provers do not do: `EveryCallServed` and `ReturnsAfterClose`
  of the geometry server, `EndsService` of the language server, `SearchEnds` of the
  curves. `SearchShrinks` proves the variant behind the last.
* The readers (`LexExact`, `NothingLost`, `BuiltAsMeant`, `JsonExact`,
  `BlameExact`): their modules use RECURSIVE operators, for which there is no SMT.
* The mesh (`Watertight`): it compares sets of triangles over grids whose points are
  products of segment counts and sizes, and fractions in lowest terms; the provers do
  no such arithmetic, and every pair of neighbouring faces would be a proof of its own.
* What evaluation and insertion compute (`AnswersExact`, `InsertKeepsCurve`,
  `SurfaceExact`): identities between rational functions of the knots, which are
  beyond the arithmetic of the provers.

Induction over the naturals is done throughout, by sets (`NatSets`). What is out of
reach is only the library's form of it, with an operator as a parameter.

## Not modelled

* Rounding beyond `ToDouble` and `llround`: the splines are exact, the points of a
  mesh are named.
* The letters of a header, indented JSON, UTF-8, the wording of messages, lines and
  columns.
* A body's direct field writes other than a move; entity kinds and face senses.
* `Pool::for_each` callbacks that allocate, `handle_of_slot` of freed slots: no
  caller does either.
* Tessellation of NURBS faces and of bodies a client stitched; a chord tolerance
  that makes the segment count overflow (undefined behaviour of the conversion).
* The arena, which nothing uses; booleans, which are stubs; the entry points, which
  only print; angles and transforms, which are formulas over doubles.

## Plan

What is left, most useful first:

1. *Proofs*: that evaluation of a curve answers within the interval and refuses
   outside it; the mesh of a sphere and a torus, whose grids close on themselves, as
   the first part of `Watertight`.
2. *Readers*: a parser over an abstract token stream without recursive operators, so
   that its progress can be proved.
3. *Models*: the second start of Body with inner rings; NURBS faces in Tessellator.
