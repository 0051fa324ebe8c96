# A TLA+ model of the http proxy

`src/http` is a transparent HTTP relay.  An accept thread takes clients and hands
each to one of a few worker threads; a worker connects the configured web server
for the client and copies bytes both ways through packets of a shared memory
pool; requests can be parsed, decoded and searched for keywords on the way; a
clock thread writes traffic statistics.  This directory specifies how it works,
model-checks the specifications, and proves theorems about the data structures
everything else rests on, the worker's handlers, the hand-over between the threads,
their end, the search for keywords and the rule check, the scanner for a head's end, base64
and addresses.

## 1. Inventory

Paths are under `src/http`.  "Hard" names what a test would hardly reach.

| component | state | operations | interacts with | hard | correct when |
|---|---|---|---|---|---|
| memory pool (`mempool.c`) | caches of `incsize` nodes, one doubly linked free list, per-cache and total counters | alloc, get, put, put1, free | all workers and the accept thread, under the pool's lock | the release of a whole cache cuts nodes out of the middle of the list; counters are trusted instead of the list | nothing handed out twice or released while held; counters exact; idle memory bounded |
| connection table (`connection.c`) | array of `max` entries, free counter, next id to try | add, find, del | the ids it gives are the data of epoll events | a search that must wrap and stop; ids of connections that are gone | one id per live connection; counter exact; ids reused as late as possible |
| packet queue (`packet.c`) | linked list of packets | in, out, join (no caller) | worker | - | first in, first out |
| worker (`work2.c`) | input queue shared with the accept thread, connection table, two epoll sets, `nblocked`, per connection two queues with a current, a blocked and waiting packets, flags blocked/connecting | get_connection, send_data, recv_data; add_connection from the accept thread | pools, table, kernel | partial sends, connects in progress, events of a batch that outlive their connection, every call may fail | bytes in order, each once; packets back in the pool; nothing waits without an event that will send it |
| accept thread (`accept.c`) | listening sockets, index of the next worker | accept_client | worker queues, statistics | runs before the workers are ready, reads counters unlocked | every client is handed over once or closed; workers take turns |
| clock thread (`clock.c`) | time of the last report | update_traffic | statistics, log database | resets a counter others add to and compare | the counters mean what their names say |
| start and stop (`main2.c`, `proxy2.c`, `thread_fun.c`) | the threads, the `stop` flag, the pools | load the configuration, create threads, SIGINT, join, free | all | threads that cannot be created or cannot start; a stop while locks are held and while the accept thread holds a worker's pointer | the pools go last; a stop stops |
| socket helpers (`sock_util.c`) | - | non-blocking connect, send, recv, addresses | worker | EAGAIN against error against end | errors told apart |
| request head parser (`http.c`, `http_table.c`, `http_header.c`, `http_basic.c`) | per connection an `http_t`: the scanner's state, strings, counters, flags; some of it is cleared for each request | s_http_parse, http_parse_head, header handlers | body parser, decoders; worker (call under `if (0)`, `work2.c:715`) | a head's end cut anywhere; what a request before left behind | the head's end is found where it is; what is known of a request is what was sent |
| request body parser (`http_body.c`, `http_arg.c`, `http_form.c`) | in the same `http_t`: what is left of a chunk, arguments, files, the state of the form parser, a cache they share | recv_chunk, _http_parse_args, http_parse_form | head parser, decoders | chunked bodies cut in a size line or between CR and LF; a part's content that looks like a boundary; slots that run out | a body ends where it does; arguments and files are those that were sent |
| decoders (`http_decode.c`, `base64.c`) | - | http_decode_string (URL, entities, escapes, in rounds), http_decode_path, b64_encode, b64_decode | arguments, strings of the head, authorization | layers of encodings, codes that only arise by decoding, a path that leaves the root | each of 16 rounds takes a layer of encoding off, nothing is made up; the path leads to the same place |
| keyword search (`acsmx.c`, `load_key.c`) | the automaton, frozen after loading | add pattern, compile, search | rule check | failure links, matches inside matches | every occurrence, no other |
| rule check (`pat.c`, `detect_module.c`, `load_rule.c`) | rule chains per keyword, a hit list of 20 | load, match hook, word boundary, check | keyword search, PCRE, log | hits beyond the list, many rules of one keyword, a keyword at the edge of a text | refused exactly when a rule applies |
| configuration (`load_cfg.c`, `cfg_db.c`) | `g_cfg` | load | all | missing lines leave 0, an error leaves what was read, and its result is ignored | - |
| databases, logs (`log_db.c`, `sqlite_db.c`) | one connection, one lock | insert | clock, rule check | - | - |
| addresses (`ip_addr.c`) | - | prefixes, masks, order, ranges, from and to text | configuration, sockets | prefixes that end within a byte; network order compared as numbers | a prefix means its bits; one order; texts read back |
| regular expressions (`pcre_func.c`), dump (`http_dump.c`, `http_api.c`), header rewriting (`http_modify.c`, no caller), ring queue (`queue.c`, no caller), shared memory (`shm.c`, not built), old parser (`xhttp.c`, not built) | | | | | |

PROJECT.json lists them with what is modelled, and every hazard at its line.

## 2. Modules

    ObjPool         <== Mempool <== NodeList        (<== is implemented by)
    ConnTable       <== Worker (through the ids of its connections)
    Dispatch            accept thread, all workers' queues, clock
    Config          --> Lifecycle                   start and stop of the process
    AhoCorasick         keyword search          \  Bytes: folding, word bytes
    Rules               rule loading and check  /
    Chars --> Decode, Base64, Addresses --> Codecs  functions, each called once
    Chars, Words, Decode --> Http --> HttpArgs --> HttpForm --> HttpBody
          --> HttpHead --> Request                  a connection's requests, in packets

**ObjPool** is what a pool promises: an object that is handed out is not held
already, it lies in mapped memory, and memory is not unmapped under a held
object.

**Mempool** has the bookkeeping: the set of free nodes, the used flags, the
counters of the pool and of each cache, and the rule of `_op_put_node` for
releasing a cache.  Get and put hold the pool's lock from start to end and are
one step each.  The free list is a set: which free node a get returns is left
open.

**NodeList** has the list itself, with `next` and `pprev` as in the code: a new
cache pushes its nodes, get pops the head, put pushes, and releasing a cache
unlinks its nodes one after the other, both loops as recursive functions.  The
nodes of a list are those that every set has which has the head and, with a node,
the next one: no order and no end is assumed of the pointers.  It is shown to
implement Mempool.

**ConnTable** has `connection_table_add` and `_del` and the search
for an id that goes round.  `find` changes nothing: what it asserts is the
invariant OneEntry.

**Worker** is one worker thread.  `pc` is the place in
`_work_loop`, or "undefined" once inq2 has overflowed (section 6); an epoll_wait picks any subset of the registered sockets as
`batch`, and its events are handled in any order, one step each.  A handler is an
operator from a *world* (the connection, the epoll sets, `nblocked`, the return
value) to the set of worlds it may end in, and the operators call each other as
the C functions do: `Process` calls `RecvFrom`, `Parse`, `Sendto`; `SendtoServer`
calls `GetServer` and `SendLoop`; `ServerWritable` calls `CheckServer`.  Wherever
the code asks the kernel or a pool, each answer is a world: no packet, EAGAIN,
end of stream, n bytes, a connect that ends at once, later, or not, epoll_ctl
failing, sends of any part.  A packet is the interval of stream bytes it holds that
are not sent yet; `got`, `sent`, `lost`, `gap`, `unreleased` and `refreed` are
history, read by no guard.  Descriptors are drawn from those not in use, so
they are reused as the kernel does.

**Dispatch** is between the threads: accept, the concurrency check, the hand-over
to a worker's queue, the statistics and the rotation are separate steps of the
accept thread, as they are separate critical sections or reads without a lock;
the workers take their queue, make connections and end them, the count of which
follows in a section of its own; the clock thread resets `nlive` at any
time.  Clients are numbered as they come.  The counters are modulo WORD.
When a worker takes more clients than its inq2 has Room for, the heap is corrupt and every thread
stops: nothing can be said of what the code does then.

The two views of a worker meet at its input queue: `AddConnection` of Worker is
`Assign` of Dispatch, and `Take`, `Serve`, `Refuse`, `ServeFails`, `End` are
`GetConnections`, `Alloc` and `Register`, `Refuse`, the failing `Register`, and any
step that frees.

**AhoCorasick** is `acsmx.c`: patterns are added, `acsmCompile` builds the trie, a
byte of a pattern a step, then each state taken off the queue of Build_NFA and of
Convert_NFA_To_DFA is a step, and each byte searched is one.  The table has
a column per folded byte, as the search folds what it looks up.  FailIsLongestSuffix
is about the automaton and needs to know what it stands
for; AllOccurrences is what its user needs.

**Rules** is that user.  `load_rule` builds the chains, a row a step.
A check of one part (URL, an argument, agent, cookie) is one step: search,
`match_hook` on each occurrence, then the rules in the order of hits and
chains.  The search is not the automaton but AllOccurrences: every occurrence of
every keyword by its end, those that end at the same byte in any order.
What PCRE answers for a rule and a text is a field of the rule.

**Config** is `load_cfg`: eight readers that each look for their key in the whole
file.  A line is what the readers can tell of it: the keys it mentions, whether it
is a comment, its second field and whether there is one; of an address, whether it is refused and
what it leaves in `g_cfg` (a refused one may leave its family).  **Lifecycle** is the process around all other modules:
`main`, `proxy_main2`, the start and end of each thread, the signal, the two locks
that are nested, and the pointer to a worker's `work_t` which the accept thread
reads without a lock.  What the threads do between start and end is a turn, with
the locks it takes.  The accept thread's write to a freed `work_t` ends the
behaviour as "undefined".

**Chars** and **Words** are what texts are made of.  A text is a sequence of byte
values; a word the parser compares as a whole (a method, a header's name, a content type) is one element, with
a code beyond the bytes.  **Decode** has the decoders as recursive functions and
folds over texts.  The code's backward pass over a buffer
that is turned round at the end is a fold from the right.  **Base64** and
**Addresses** are the same for `base64.c` and `ip_addr.c`; the number of bits of a byte
and of bytes of an address are constants, `inet_pton` is a table of texts of the characters it takes.  **Codecs** calls each of these functions
on each input once (CodecsSpec) and states what they promise against definitions
of their own: a rewriting relation for decoding, segments of a path, bits of an
address.

**Http** is the record `http_t` and its strings, **HttpArgs** the arguments of a URL or a
body, **HttpForm** the multipart parser, **HttpBody** chunked bodies and the
dispatch by content type, **HttpHead** the scanner for a head's end, the
line states, the request line and the handlers that keep something.  Each C function
is an operator from the record to the record after it, character by character where the code
goes so.  **Request** is the connection: `do_http_parse_test` is called with
the next n bytes, for any n, and the properties compare the record with the requests that
were sent, which are records themselves.  What `http_init` does not clear stays
in the record for the next request, as it does in the code.

Operators under a comment "Faulty" are used by nothing: each is a
plausible mistake in the operator after it, listed in PROJECT.json with the
property that finds it.

## 3. Runs

| run | instance | shows |
|---|---|---|
| `Mempool.cfg` | 4 caches of 2 nodes, 607 states | Accounting, BoundedIdle, NoThrash, ImplementsObjPool |
| `NodeList.cfg` | the same with pointers, 3 caches, 871 states | DoublyLinked, ImplementsMempool |
| `MCConnTable.cfg` | 4 entries, 5 connections, 7 445 states | FreeCount, OneEntry, RoundRobin |
| `Worker.cfg` | one entry, 2 clients one after the other or queued together (which overflows inq2: Room = 1), 3 descriptors, 4 bytes each way, packets up to 3, 166 794 states, fair | NoMissedWakeup, NoStranded, PacketAccounting, StreamIntact, WaitResolves |
| `WorkerTwo.cfg` | 2 entries, 3 clients, up to 2 taken at once (Room = 2), 4 descriptors, 1 byte each way, 130 015 states | Registered, RightFd, NoDoubleFree, ImplementsConnTable |
| `Dispatch.cfg` | 7 clients, 2 workers (2 threads), max 4, Room = 2, counters modulo 8, 438 463 states, fair | OnePlace, LiveAccounting, Balanced, Settles |
| `MCLifecycle.cfg` | 2 worker threads, 9 files, 40 507 states, fair | FreedLast, Stops |
| `MCRequest.cfg` | 15 messages of one or two requests, cut into up to 3 packets anywhere (the last takes the rest), 72 698 states | HeadEnd, HeadParsed, RequestArgs, ChunkEnd, FormParts |
| `MCCodecs.cfg` | texts of up to 6 pieces, paths of up to 7 characters, 4 bytes of base64, 43 addresses, encodings in up to 20 layers: 88 144 states | DecodedInRounds, PathResolved, Base64Canonical, PrefixMatch, AddressOrder, PortRoundTrip |
| `MCAhoCorasick.cfg` | 17 keywords of up to 3 bytes, up to 3 of them, texts up to 4 of 3 bytes, a table up to 'b' (ALPHABET_SIZE = 99), 755 118 states | FailIsLongestSuffix, AllOccurrences |
| `MCRules.cfg` | 4 keywords (one per kind of border), 8 rules, up to 3 rows, texts up to 3 of 3 bytes, a hit list of 2, 55 272 states | ChainsComplete, RefusedForCause, NoneMissed |
| `WorkerLeak.cfg` | as Worker.cfg, clients taken one at a time | ReleasesAll is violated |

Why the bounds are enough.  *Pool*: the release rule compares with two caches'
worth of nodes, so three caches reach it (NodeList) and four go past it (Mempool); with two nodes a cache
has a first and a last one to unlink, and a release finds the cache's nodes
anywhere in the list.  *Table*: four entries let the search start, wrap and skip;
a fifth connection meets a full table.  *Bytes*: with four bytes and packets
of up to three, a queue holds a blocked packet with others behind it, a packet
is cut at any byte, a second cut falls on a blocked socket, and the stream goes on after it; with Room = 1
two clients taken at once overflow inq2.  *Two
connections*: two entries and four descriptors are the least for an event to find its
connection gone and both its id and its descriptor given to the
third client.  *Dispatch*: seven clients with a period limit of four need the
clock; a queue of maxfds = 3 fills and turns a client away; two clients taken at once fit into inq2 and
three overflow it; WORD = 8 lets the counter wrap below 0.
*Lifecycle*: two worker threads differ from WORK_THREAD in one file, so that the
joins meet a worker nobody is given clients for; with the accept and clock thread
they are the least that can hold the two locks and wait for them in different orders.  The files are a good
one, one for fewer workers, one with no address to listen at, one without WORK_THREAD, one
with a bad address, two with an address to listen at that is refused (after its family was written, and before),
one that mentions two keys in a line, and one that crashes a reader.
*Requests*: three packets cut a head's end, a size line, an argument of a body or a boundary in two places.  The
messages have encoded URLs and arguments, a lone CR before the end of the head, an
unknown method, credentials with a colon, more arguments than slots (MAX_ARGS = 3,
max_num in the code), chunks that contain what
a size or the last chunk looks like, a chunked body behind another and behind a request without one, a boundary that begins with a dash, contents with
dashes and line ends, an empty file, a file of more than HTTP_FILE_MAX_LEN = 12 bytes, one more than the file slots
(MAX_FILES = 3); on one connection, a request that leaves little behind one that left
much.  CACHE = 24, MAX_STR = 64, MAX_OUT = 64, MAX_LABEL = 16 and MAX_TYPE = 16 are longer than any header of a part,
string, decoded text, boundary and content type.
*Functions*: three layers of %25 and six pieces let a code arise from two others; encodings in up to 20 layers go past the
16 rounds; MAX_OUT = 80 is longer than any text;
seven characters of a path have two segments and ".." behind them; four bytes
are a base64 group and the next; bytes of two bits, two of them for IPv4 and five for IPv6, have
every prefix, IPv6 addresses that an IPv4 one maps into, and few enough addresses to compare all.
*Keywords*: two folded letters and three bytes let a keyword end inside
another and a failure link lead to another branch, with three patterns at
once; matching by case needs the third byte; four bytes of text hold a
mismatch after a whole keyword; columns beyond the largest letter are never used.  *Rules*: a hit list of two overflows on three
letters, three rows make a chain with a middle, and each kind of border
has texts with the keyword at either edge, inside, and beside a blank.

Deadlock checking is off where nothing may be left to do: inq2 has overflowed, and what C does then is
undefined (Worker, Dispatch), the process is gone (Lifecycle), all is sent (Request), the function has returned
(Codecs), the text is searched (AhoCorasick, Rules).
`MCConnTable` adds the history RoundRobin needs.  MaxAccept, MaxBytes, MaxPkt, MaxClient,
MaxKeywords, MaxText, MaxRules and MaxPackets are bounds, everything else is the code's own
parameter.  Each module has a TypeOK; where it is proved (section 5) it holds for
every instance, elsewhere it says what the variables hold.

## 4. Fairness

*Worker*: weak fairness of the loop (a thread that is always runnable; its waits
time out), and strong fairness of "send_data's epoll_wait reports this
socket" for each registration in the send set: if the worker asks again and
again while a socket stays there, its connect ends in success or error, or its peer reads
or resets.  Linux reports each of these.  Nothing is assumed of the receive set:
a peer need not speak.  `WaitResolves` is what follows: a connect in progress does not
stay so for ever, which fails if the socket is registered without counting
it in `nblocked`.  It is claimed as long as inq2 has not overflowed.

*Dispatch*: weak fairness of the accept thread's steps with a client in hand and of each
worker's own steps.  None for a client to come or leave or for the clock.
Settles holds under it although workers start late, for as long as inq2 has not overflowed.

*Lifecycle*: weak fairness of each thread and of the delivery of a signal: the
scheduler runs every thread, poll returns after 100 ms, sleep after 5 s at most, and the
log database answers.  Weak fairness is enough for the locks, as nobody
takes one again while another waits for ever: after a stop no turn begins.  Nobody has to interrupt the
process; Stops starts from a signal, or from an accept thread that has no
address family to open a socket of and so sends one.

## 5. Proofs

`MempoolProofs.tla`, for every finite set of caches and every IncSize > 0:
TypeCorrect, AccountingHolds, BoundedIdleHolds, NoThrashHolds,
ImplementsObjPoolHolds.  The inductive invariant is the conjunction of TypeOK and Accounting
(no node both free and used, their union the nodes of the allocated caches,
counters equal to cardinalities) with BoundedIdle.  Accounting is inductive with the types alone,
but only because `nused` of each cache is exact: it is what makes "the last used
node" true when a cache is released.  BoundedIdle is no local fact: a put
that leaves a third idle cache would have 3 * IncSize > 2 * IncSize free
nodes and the rule would have released it; the step from sets of caches to counts of
nodes is in lemmas on cardinalities, on top of FiniteSetTheorems.  ImplementsObjPool follows since every node
of a released cache is unused.

`NodeListProofs.tla`, for every finite set of caches and every IncSize > 0: TypeCorrect,
DoublyLinkedHolds, ImplementsMempoolHolds.  The inductive invariant is that the list is Sane (its
pointers are typed and DoublyLinked) and that the counters obey the invariant of
MempoolProofs, which is instantiated with the nodes of the list as its free nodes.  The steps are
lemmas on one list: what Push, Pop and Unlink make of its nodes and its links.  Unlink is the one
that needs an argument: by Predecessor a listed node is the head or somebody's next, so that
the pointer it is cut out of is the one its pprev names, and what is left is
closed under next and nothing smaller is.  The two loops are recursive functions; that
they exist, and what holds after each turn, is by induction on the number of turns (SetInduction,
from the well-foundedness of < on Nat).  DoublyLinked alone would not do: that all nodes
of a released cache are in the list, so that the loop may unlink each, is Accounting.

`WorkerProofs.tla`, for a table of any size, any descriptors, any number of clients, and
streams and packets of any length: TypeCorrect, PacketAccountingHolds,
NoDoubleFreeHolds, ImplementsConnTableHolds.  An inq2 of any size is meant (Room): an overflow ends the
behaviour, and what is claimed is claimed of every state, that one included.  Each handler has a lemma, in the order in
which the handlers call each other: from a world whose connection is Fine it leads to
worlds that have failed or are Fine again (Same), and after the caller's
FreeIf to one that is Fine or freed once (Done).  A connection is Fine when it is
Counted (PacketAccounting), Clear (no current packet) and Early: nothing was sent in part
to a server that is not connected.  Early is why no connection is freed
twice: check_server's failure frees the connection and empties `outq` but leaves
`blkpkt`, and sendto_server, called with it, does nothing only if `blkpkt` is
null as well.  An action commits the world of one handler, so that a step adds one connection to the
table, deletes one, or leaves the table alone: a step of ConnTable or a stutter.

On top of these and for the same constants come RegisteredHolds, NoMissedWakeupHolds,
NoStrandedHolds, StreamIntactHolds, RightFdHolds (from `Spans` on).  Here the worlds of a
handler are followed twice, and then the loop.  *Sound* is about one connection: its Flags (which
socket is there, connecting, blocked) and that each queue is Settled: packets wait only for a side that
is blocked or connecting, a blocked side has a packet before it or lost one, and, unless a packet was
lost, the packets' intervals join what was sent to what was received.  It is not true within a handler
(a packet is out of the queue while it is sent), so that each handler has a lemma that
says how far off it is in between and that it is Settled at its end.  *Regs* is about the two epoll
sets: those of a connection are the ones its flags Own, and everything else in them stays as it
was.  nblocked is *Covered*: a handler adds to it at least what it adds to the send set,
and a free takes nothing, which is why NoMissedWakeup is an inequality.  The
invariant of the loop needs four facts more: live connections have Distinct descriptors, also
from those in the two input queues, or the free of one would take another out of its epoll
set; a descriptor is queued once (Clients); only the connection that is being registered has no client
socket (Unnamed), as a failed registration leaves no trace of one; and an event of the batch names
a real descriptor, that of its connection if that is still there (Batch).  Batch is kept although
handlers of earlier events free ids and descriptors, because an id gets its
next connection only when the batch is done.

`DispatchProofs.tla`, for any number of clients and workers and any width of the
counters: TypeCorrect, LiveAccountingHolds, BalancedHolds, OnePlaceHolds.  The
inductive invariant says what each worker owns, where the accept thread is between hand-over
and statistics, and how far the turns are.  A counter that wraps counts on as
one that does not, which is three lemmas on remainders; OnePlace is the disjointness of the
owned sets, LiveAccounting a sum of cardinalities.

`ProcessProofs.tla`, about two modules of the process.  For every table size `max` > 0 and any connections:
TypeCorrect, FreeCountHolds, OneEntryHolds, SearchEndsHolds, RoundRobinHolds.  The inductive invariant of the
first four is TypeOK, FreeCount and OneEntry together: the guard of Add is on the counter and not
on the table, so that FreeCount carries both the type of `nfreed` and the end of the search.
RoundRobinHolds is about the history of MCConnTable: what stayed free since an id
was given is reached by a search from freeid before that id is, so that the
id is given again only when nothing else stayed free.  For any number of workers and any configuration files:
ThreadsOKHolds (Lifecycle's type invariant), FreedLastHolds.  The invariant adds to the types that no thread exists before main
creates it, that the accept thread holds the pointer only of a worker it has looked up, that the
pools go with main's last step, when no user is left, and that a `work_t` goes only
after a stop.

`RulesProofs.tla`, for any keywords, rules, texts, number of rows and size of the hit list: TypeCorrect,
ChainsCompleteHolds, RefusedForCauseHolds, NoneMissedHolds.  The invariant: chains are typed, a chain holds rules of its own
keyword only, each rule once, and a rule is loaded exactly when a chain has it.  For the
checks: word_boundary_check holds exactly where Words finds the keyword (HitsAreWords), there are
as many hits as words (HitsCounted, a bijection), the hit list has the first HitMax of
them (SearchIs, by induction over the calls of match_hook), and the first rule in the order of hits and chains
exists when any matches (FirstIs).  The order in which the
matches arrive is any; NoneMissed needs only that each hit has a call.
What is assumed of the database is that it has no more keywords than load_key.c's table has places (KEY_SIZE), keyword ids
below those of load_rule.c's (RULE_SIZE), no keyword empty, and a border_check of 0 to 3, as the shipped one has.

`AhoCorasickProofs.tla`, for any table size, bytes, keywords (none of them empty: load_key's database has no
such row), number of keywords and texts of up to 64 KiB, the scanner's buffer (TextAssumption: `acsmx.c:600` does not ask): TypeCorrect,
FailIsLongestSuffixHolds, AllOccurrencesHolds.  The invariant gives every state a word,
`str`: different states have different words, state 0 the empty one, and each other word is
that of an earlier state and a letter (Shape).  It has a part for each pass.  *Growing*: a transition of the trie appends its
letter or is missing when there is no such word, and no more states are used than the patterns added so
far have bytes, which is why the table is never too small.  *Failing* and *Completing*:
`R` are the states that have been in the queue; it is breadth first (Reached: lengths in the queue
ascend and differ by at most one), so that when a state is taken off, all shorter words are done, its
failure state among them (ReachedAll).  `Best(St, w)` is the longest suffix of `w` among the
words: failure states are Best of the tail, completed rows are Best of the word and a
letter (Full), and lists hold the patterns that end the word.  *Searching*: the state is Best of the folded text.  Two laws
carry all this: Best of `w` and a letter is Best of Best of `w` and that letter
(BestAppend), and a word of the trie ends `w` exactly if it ends Best of `w`
(EndsBest).  That the chain of failure states ends (Locate) is an induction on
the lengths of words.

`TextProofs.tla`, about the functions on texts, in four parts.

*The end of a head*, for any messages (sequences of numbers: MessagesAssumption), any packets and any
number of them: HeadEndHolds.  First, all that a packet makes of an `http_t` is Framed: no handler of the head or the body,
and no loop in them, touches `state` and `header_len`, which only s_http_parse
and do_http_parse_test set.  The loops are what Read makes of a character; Read's recursive function is
shown to exist, and to end where a *course* g ends, in which g[i] is the i-th turn made of g[i - 1]
(ReadHeadIs and the others); what holds after each turn is by induction on the set of turns after which it
holds (UpTo, from the well-foundedness of < on Nat).  The scanner then needs one law (JumpStep):
its state is the length of the *longest* beginning of CR LF CR LF that what was read ends with, and one more
character keeps it so.  Some beginning would not do: after CR LF CR a CR has to fall back to 1, and only the longest tells
to where.  HeadInv says that the cuts are pieces of the text one behind the other (CutsOK), that the record is Framed (HttpOK), and,
before the first head, that the state is the longest beginning and no end was seen (Waiting), later that the first
end was found and `header_len` counts from the packet in which it was found (Ended).  That length is given up once a second head
ends, and with it the claim.

*Base64*, for strings of bytes of any length (Base64Assumption): Base64CanonicalHolds.  Pack
and Unpack turn three bytes into four numbers and back, each undoing the other (Sextets, Octets).
EncodeIs gives the text of s as groups, characters and pads counted from the length alone; DecodeIs the bytes of a text of characters
and pads.  The two directions need different things: decoding what was encoded that pads are found where they were put, encoding
what was decoded that b64_decode refuses a short group whose left-over bits are not 0, without which two texts would stand
for one string.

*Addresses*, for bytes and addresses of any number of bits and bytes, and any table of texts of the characters that
inet_pton takes (PtonAssumption), with a text for each address (IpAssumption): PrefixMatchHolds, AddressOrderHolds.  Both
rest on the bits of a byte: the quotient by a power of two is the byte's first bits (SameTop), and the first bit in
which two bytes differ decides which is less (FirstBit); SamePrefix carries this from bytes to addresses, whole bytes and part of one.
ip_mask_match is then the comparison of bits (MatchIs), memcmp the first different bit
(CompareBits).  Ranges compare numbers: ntohl undoes htonl (NumberOfBytes, by dividing twice) and
keeps memcmp's order (NumberOrder), so that a range with an end left open has none.  NetmaskIs
reads 2^32 - 2^(32 - c) back as c, by its lowest bit.

*Addresses with a port*, for any port up to 65535 (PortAssumption): PortRoundTripHolds.  Decimal's function of
quotients by ten exists and gives a numeral, which atoi reads back (DecimalIs, NumeralRead); strchr cuts the text
where it was joined (SplitAt), as no IPv4 text has a colon and no IPv6 text a "]".  PtonAssumption is needed
for just that, and TLC evaluates it on the table of its run.

Only model-checked: liveness (WaitResolves, Settles, Stops), as ENABLED is out of the prover's
reach.  Of Codecs, DecodedInRounds and PathResolved: http_decode_string repeats a backward
pass over a buffer, up to 16 times, and that each pass is a sequence of decodings is an induction over
rewritings that no invariant of one pass states.  It does *not* decode every text: an encoding within 16 others
stays (the run has up to 20), and what is claimed is that nothing but decoding happens, and that an encoding
is left only after 16 rounds which each took something; http_decode_path steps back over the path it is writing, and Segments and Resolved
fold over it with operators that the provers cannot instantiate.  Of Request, HeadParsed, RequestArgs, ChunkEnd and FormParts: each compares
what the handlers leave with records of the requests sent, so that a proof would follow every character of a head or a
body through them; Framed and HeadEnd are the part of it that is proved.

## 6. Findings

**A packet is lost on a second partial send** (`work2.c:973`, `:855`; run
worker_leak).  `_work_sendto_server` takes `blkpkt` out of the queue, sends a part of it, finds
`is_svrblock` already set and leaves the loop without putting the packet back.
The bytes are not sent, the packet never returns to the pool, and request packets queued behind it (they were queued while the
connect was in progress) are sent after the hole.  On the client's side nothing is queued behind a blocked
packet, as the server is not read meanwhile: the response just ends.

What else the modules say of the code, as it is:

* `nlive`, which the concurrency check reads, counts arrivals since the clock's last
  reset, so that a client may be refused with no session alive (`accept.c:119`);
  `nowlive` keeps every client refused by a worker, and wraps for a moment when a
  session ends before the accept thread has counted it (LiveAccounting);
  `nblocked` only grows when a blocked connection is freed (NoMissedWakeup is an
  inequality); after a failed connect the connection is passed on although freed
  (NoDoubleFree).  That is a use after free even with one worker, as mempool_put may release
  the cache the object lies in; with several, another worker may have been given the object.
* `inq2` has room for maxfds pointers, not for maxfds `workfd_t` (`work2.c:57`), and `:475` copies as many
  as `inq` holds: a worker that finds its queue nearly full writes behind it (Overflow).
* `ip_addr.h:83` says of a range "@ip >= @begin || @ip <= @end", which everything satisfies: ip4_in_range asks
  for both.  `:97` says that "x.x.x.x-" is "x.x.x.x-0.0.0.0", which nothing satisfies: ip4_match_range leaves
  the end open.  AddressOrder is about what the code does.
* The checks of URL, cookie and agent test GET_ARG_TARGET (`pat.c:346`, `:395`, `:448`);
  GET_URL_TARGET and the two others of `load_rule.h` are used nowhere.  Every
  rule of the shipped database has all four targets.
* `load_cfg`'s result is ignored: after an error the rest of the
  configuration is 0 (of a refused address its family, or all of it, may be there: an accept thread whose LISTEN_IP
  was refused behind its family listens at 0.0.0.0:0), and without WORK_THREAD each worker divides by 0.  A key counts
  wherever in a line it stands.  MAX_CUR_WORK workers run whatever WORK_THREAD says.  When the clock
  thread cannot be created the process returns without joining the others.  At a stop
  the accept thread may write to the queue of a worker that has freed it.
* A head is parsed from the packet on that it ends in, as far as it is there: cut by a
  packet, its first part is not seen (`detect_module.c:43`).  The packet behind a head goes to the body parser and is searched
  for a head as well; later ones are only searched.  A chunked body's last chunk, when it comes in that packet, is
  thereby taken for the end of a head: the request is forgotten, and what was a body is
  parsed as a head (`detect_module.c:39`; ChunkEnd excepts it).  `un_recv_content_len` is
  never set, so that a body without chunks ends with its first packet.
* `is_chunked`, the content type, `boundary_cnt`, the files and the cache survive
  `http_init`; a boundary's dashes add up from form to form.  After a chunked body, the next one on the connection ends
  with its first chunk (`chunk_flag`); after a form it may end with its first size, which is appended to
  the dashes in the cache.  Where a form's body
  ends, its last argument is trimmed once more and loses the end of its content.  The last
  file slot gets no name and no content.  When a form has more arguments than slots, the next
  packet of it is appended to a null pointer.  A line that fills the cache lets http_wait_label_str write
  behind it (`http_form.c:78`: the size left is 0, and strlcpy2 takes 1 from it); a boundary of
  more than 252 characters is cut, and one that was not given is "(null)" (`:196`).
* COPY shares a row with CONNECT and is taken for it.  User and password lose
  blanks and colons at their ends.  Base64 that is refused leaves `auth` partly decoded
  (`http_header.c:475`), and bytes from 128 on index Base64Values out of its range (`base64.c:104`).  "?" is looked
  for in the version, too (`http_header.c:671`).  A chunk size below 0 breaks off the body (`http_body.c:61`).
* http_set_str writes the NUL where the *undecoded* text would end (`http_basic.c:122`): when decoding made it
  shorter, the NUL lies outside what was allocated, and the string has none.  A boundary is then printed with %s
  (`http_form.c:196`).
* http_decode_string takes away one layer of encodings a round and stops after 16 (`http_decode.c:649`): of 17 layers
  one stays.  A text of more than 8192 characters is left as it is (`:634`; the limit of 16384 in `:641` no caller
  reaches), and one that decodes to 8192 loses its last.
* "+" is decoded in an argument only if something
  else makes it shorter.
* `http_init_header_table` clears ten entries of rows that have five
  (`http_header.c:537`).
* In %XY, characters 16 to 25 count as digits, and %uff takes any two characters for
  digits.  "/a/.." is a fault while "/a/../" is "/".
* An IPv4 port may be followed by anything but may not follow a blank; an address
  text with a blank in it is accepted and leaves the address as it was.

## 7. Not modelled

* What another worker does with a connection object that send_data
  still uses after freeing it (`work2.c:1232`): each Worker model has one thread.
* The walks of `mempool_free` and `connection_table_free` over what is left, when
  the process ends.
* What is in memory outside the object that is written, and so what an overflow does: an overflow of `inq2`
  ends the behaviour, the keyword search assumes a text that fits into 64 KiB, the database fewer rows than the tables of
  keywords and rules have places (1000), and a chunk's size is any integer.
* What b64_decode finds for bytes from 128 on, which it looks up behind its table: they are none of
  base64 here.  No message has base64 that is refused.  A method or header is one word, so that nothing of it is taken for digits of a
  chunk's size.
* Byte statistics, log and database rows, printing.
* Of the parser: responses, handlers that keep nothing, `http_parse` (no caller).  At run time the relay calls neither
  it nor the rule check (`if (0)`, `work2.c:715`); keywords and rules are loaded at every start.
* Of the decoders: `http_get_url_core` and the two http_msre functions (no caller).  Of the addresses:
  DNS, sockets, and `ip_mask_from_str`, which writes to its own argument's address.
* Of the keyword search: freeing the automaton, and its variant for trees of options (not compiled).  Of the
  rule check: the log row, `check_hex_encode` (no caller), rules with a negative key or an empty
  expression, which the code does not expect and the database does not have.
* Code that is not built or not called: `xhttp.c`, `xhttp.h`, `shm.c`, `queue.c`,
  `http_modify.c`, `cfg_db.c`, `pktq_join`, `connection_tup_compare`.  Accessors and dumps
  (`http_api.c`, `http_dump.c`) and the wrapper of PCRE (`pcre_func.c`) have no behaviour of their own.

## 8. What would come next

1. **Relay**: an abstract pair of byte streams, implemented by Worker as long as no packet is lost.
2. Two workers and an object freed by one, taken by the other.
3. Proofs: ChunkEnd, for chunks of any size and cuts anywhere, and RequestArgs, on top of the courses of
   TextProofs.
