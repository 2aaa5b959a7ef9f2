# MayFlower: specifications

TLA+ specifications of MayFlower, a personal web site: a servlet application
in Java (blogs, code snippets, mottos, search), a WebSocket chat server in
JavaScript for node, a browser game, Linkup, and the scripts that its pages are made with:
the editor KindEditor, SyntaxHighlighter, and jQuery 1.5.1. The specifications are
translated from the source; the repository has no tests and no
documentation besides its comments. Paths below are relative to the repository,
with `paladin/` for `src/main/java/com/paladin/` and `chat/` for
`WebRoot/html/chat/server/`, and `js/`, `kindEditor/` and `syntaxhighlighter/` for the
directories of that name under `WebRoot/`.

## 1. Inventory

### Chat server

| part | state | operations |
|---|---|---|
| connection manager, `chat/lib/ws/manager.js` | a singly linked list: `_head`, `_tail`, `_length`, `_next` of nodes; `_counter` | `createId`, `attach`, `detach`, `find`, `forEach`, `map`, `filter` |
| connection, `chat/lib/ws/connection.js` | `_state` 0 to 6, the socket, the id | constructor (handshakes), `write`, `broadcast`, `reject`, `state`, and handlers of the socket's data, end, timeout, error |
| frame parser, `connection.js:404-437` | `frameData`, `order` | `write` |
| server, `chat/lib/ws/server.js` | none of its own | the `upgrade` listener; reflects the manager's `attach` and `detach` |
| application, `chat/chat-server.js` | none | listeners for connection, message, error, disconnected |

Everything runs on one node thread: a handler, with all the listeners it sets
off, is atomic. What interleaves is the handlers of different sockets, and on
one socket the failure of a write (at once) with its error event (later). What is
hard: the list must stay right under attach and detach in every order; ids are
made from numbers written one behind the other; `state(5)` is reached from four
places, more than once; a byte stream is cut anywhere; events are joined by
name over three layers.

Correct means: the list is the set of connected peers; everybody hears what the
others said, in order, once; connect and disconnect events are paired; messages
are the texts that were sent.

### Web application

| part | state | operations, hazards |
|---|---|---|
| dispatch, `paladin/mvc/ActionServlet.java` | the map of actions, one object for each; the methods found so far | `init`, `doProcess`, `loadAction`: test and insertion are not atomic |
| paging, `paladin/action/BaseAction.java` | `total_page`, `page_NO`, `p_start`, `p_end`: fields of an object shared by all requests | `doPage`, `hotTag` |
| database, `paladin/sys/db/` | a connection for each thread, a bounded pool | `getConnection`, `closeConnection`; `QueryHelper` brackets every statement with them |
| articles, `BlogAction`, `CodeAction`, `MottoAction` | the tables | `save`, `del`: one statement each, whose failure goes unnoticed |
| mottos, `paladin/action/MottoAction.java` | a cached list and its time | refresh by whichever request finds it old; nothing is locked |
| index writing, `paladin/common/LuceneHelper.java` | an index and its lock for each table | rebuild, update; an exception leaves the writer open |
| helpers, `paladin/common/Tools.java` | none | `quickSort`, `checkTag` |
| login, `paladin/action/LoginAction.java` | the user in the session and in the database | look up, then insert |
| searches, `SearchAction`, `SearchfAction` | the fields of `BaseAction` | paging of lists |
| disk index, `paladin/action/RunDisk2DB.java` | rows collected for a batch | cleared whether or not stored |

Requests run on threads of the servlet container, at the same time, on shared action
objects. That is where the hazards are: fields and static variables that several
requests assign, tests that are stale when the code acts on them, statements that
fail in the middle of something.

Correct means: connections to the database are not lost but by the failure of their
closing; a request shows the page asked for, if no other changes the fields that it still has to read; an action is ready when it is
called; every page gets a motto if there are any; the index follows the tables and
is not left locked without a failure; every request ends.

### Scripts of the pages

| part | state | operations, hazards |
|---|---|---|
| Linkup, `WebRoot/html/game/linkup/linkup.js` | the tiles (`gImages`), the chosen one (`gPreGrid`), marks (`selected`), a hint (`oneResult`), pending timers | click, help, both timers, dealing; each draws, and drawing searches for a hint and may set the shuffle timer |
| editor, `kindEditor/kindeditor.js`, `plugins/file_manager`, `blog_edit.jsp` | `KE.g[id]`: the body in its frame, `newTextarea`, `srcTextarea`, two stacks of texts, icons, menu, dialogs | build and remove, typing, undo, redo, source view, full screen, commands, dialogs; the events of a change come after it |
| editor's ranges, `kindeditor.js:322-367, 451-930` | a tree and a selection in it | wrap and remove formats; tables, 4175-4232 |
| highlighter, `syntaxhighlighter/src/shCore.js` | none | matches, nesting, lines, indentation, embedded code |
| requests, `js/jquery-1.5.1.js:6404-6780` | `state`, transport, timer, two deferreds of each; `jQuery.active` | `ajax`, `done`, `abort`; handlers of the page run in the middle |
| animations, `1639-1730, 7517-7890` | queues, `jQuery.timers`, the interval | `queue`, `dequeue`, `delay`, `animate`, `stop`, `tick` |
| deferreds, `810-984` | lists of callbacks with three flags | `done`, `resolveWith`, `cancel`, `when` |
| events, `2136-2774, 3012-3273` | functions of each element, `triggered` | `bind`, `one`, `live`, `unbind`, `die`, `trigger`, `handle` |
| nodes and data, `1330-1620, 5033-5680` | the tree, the cache of data, the cache of fragments | `append` and its like, `wrap`, `replaceWith`, `clone`, `html`, `remove`, `data` |
| selectors, `3303-4655` | none | Sizzle |

A browser runs one script at a time. What makes these scripts hard is that functions of the page
are called in the middle of their loops, and do what they like to the lists that the loop
goes over; that timers and answers come at any time between; and that state is kept in two
places, which different handlers bring up to date.

Correct means: a board with nothing to remove is going to be shuffled, and the hint is
right; a form posts what the editor shows, and undo and redo cancel each other; a request has one
outcome; animations that wait for each other run one at a time and come to an end; a deferred keeps its promises;
a function is called once for an event; content arrives, with its data, and no data is left over; a
selector finds what it means; code is shown as it is.

### Left aside

`org/apache/lucene`, Modernizr and `shLegacy.js`; JSP pages and styles, configuration;
`getRandom` of Linkup, whose pictures `Linkup` takes as given; `chat/lib/ws/parser.js`, which nobody requires;
`URLMappingFilter`, which `web.xml` does not configure; the command line
demonstrations of Lucene; data classes and interfaces without an implementation. Section 6 has
what is left out of the parts that are modelled.

## 2. Modules

| module | models | builds on |
|---|---|---|
| `ClientRegistry` | abstract: the sequence of attached clients | |
| `WsManager` | the manager's variables and operations | |
| `ManagerSpec` | connections that use the manager in every order; implements `ClientRegistry` | `WsManager` |
| `ChatServer` | connections, server events, application | `WsManager` |
| `WsParser` | parser and the byte stream before it | |
| `DBManager` | threads' connections and the pool | |
| `BlogList` | requests for the list of blogs | `DBManager` |
| `Dispatch` | the map of actions, requests that fill and use it | |
| `Articles` | the tables and the requests that change them | |
| `SearchIndex` | requests that write the index | `Articles` |
| `MottoCache` | pages that take a motto from the cached list | `Articles` |
| `Tools`, `Paging` | cleaning and ranking of tags; which rows a page shows | |
| `LinkupBoard` | the search for links; the rules of the game | |
| `Linkup` | clicks, help, timers | `LinkupBoard` |
| `EditorText` | the editor's texts and history, as operators | |
| `Editor` | the editor of `blog_edit.jsp` and its user | `EditorText` |
| `EditorRange`, `EditorTable` | formats of a selection; commands of tables | |
| `Highlighter` | how a piece of code is shown | |
| `Sizzle` | selectors | |
| `Ajax`, `Effects`, `Deferreds`, `Events`, `Nodes` | the parts of jQuery named above | |
| `BoardsAndPages` | inputs of the search for links and of the paging, and what these are for | `LinkupBoard`, `Paging` |
| `TagsCheck` | the same for tags | `BoardsAndPages`, `Tools` |
| `FunctionsCheck` | the same for all else that keeps no state | `TagsCheck`, `EditorRange`, `EditorTable`, `Highlighter`, `Sizzle` |
| `MC...` | values for TLC; `MCIncoming`, `MCLists`, `MCScripts` and `MCJQuery` let several parts run, each for itself | |
| `..._proof` | theorems and proofs | |

Operators called "Mutant" in a comment are plausible mistakes in the code. No
specification uses them: put in place of the operator below them, they make one of
the properties fail, which shows that the property depends on that code.

### ClientRegistry, WsManager, ManagerSpec

`nxt[c]` is the `_next` of the node of connection `c`; a connection is attached at
most once, so it stands for its node. `Walk` is the set of nodes a loop over the list
reaches, and `Visited` those that the loops of `find` and `detach` look at, which
stop at the first node with the id they look for. The id is a sequence of digits: the port's, then the
counter's (`Decimal`); the process id in front is common to all and left out.
`ManagerSpec` lets each connection get an id, attach and detach, also without
attach and more than once, as `ChatServer` shows connections do. `Clients` is the sequence that
the pointers make (`IsList`), `Detached` the connections that were detached: with these for
its variables `ManagerSpec` implements `ClientRegistry` (`ImplementsRegistry`).

`createId` makes different ids only if the ports have one width: port 1 with counter
10 is port 11 with counter 0. `SameWidthPorts` says so. Run `manager` and the theorems
assume it; run `chatClash` does not, and shows what remains.

### ChatServer

A connection goes from `Unknown` through a handler to `Connected` or `Closed`; the
other states exist only within a handler. `Upgrade` is the constructor, with
every outcome of both handshakes in the order in which the code looks for
reasons to reject. `Close` is `state(5)` with all that follows, and is called from
`Reject`, `SocketEnd` and `SocketError`. `Deliver` is a broadcast: each
write may fail, and then destroys the socket and leaves an error event to come. `said` and `since` are
history. Left out: `Server.send`, `Connection.close` and `handshake`,
which nobody calls; the text of messages; the timeout handler, since no timeout
is set.

### WsParser

`pipe` is the stream in transit. `Upgrade(n)` takes its first `n` bytes as the upgrade
head, `Data(n)` any number more, so all ways to cut the stream occur. `Step` is the
body of the loop with its condition as JavaScript parses it: the lowest bit of the type decides. `Parse` is
the loop over the bytes of a piece.

### DBManager, BlogList

`getConnection` waits for an idle connection, or fails when the pool does.
`closeConnection` returns it, or loses it when `setAutoCommit` throws. A request of
`BlogList` takes a step for every statement of `list` and `_doPage`, on fields that all requests
share, with the statements on the database between taking and returning a
connection. `undisturbed` is history: no other request has changed a field since this one began to count,
and it only matters up to `query_slice`, the last statement that reads one. So requests may overlap in every
other way: one may find in the fields whatever an earlier one left there, and another may overwrite all of them
once it has its arguments. A count that fails is -1, as in the code.

### Dispatch

The objects are numbered in the order in which they are made, so that two objects for
one name can be told apart. `InitialAction` is the start of the servlet, a step for each name of
its parameter. `Lookup` to `Put` are the steps of `loadAction` for one request; only `Put` is
locked. `Called` is the choice of the method and what comes of it, by the shape of
the parameters. `getMethods` of Java lists methods of one name in any order: the order is
chosen once, in `Init`. Left out: the decoding of the path, the pages, `destroy`.

### Articles, SearchIndex

`Articles` has an action for each way to change a table. Each is one statement, so a statement that
fails is no step. In `SearchIndex` a request goes through its tables: it opens a writer, which
takes the lock of the table's index or gives up after a second; it reads the table; it writes and
closes, and only then searches see the documents. If reading or writing fails, the writer is left
open and keeps the lock: `LockReturned` names this as the one way in which a lock stays taken, and
`IndexingEnds` says that requests end all the same, without having written. Lucene is
external, modelled by what the calls of `LuceneHelper` are for.

### MottoCache

A step for each look at the cached list and each statement. `due` stands for the clock: a minute has
passed since `updateTime`. The statement that fetches has a LIMIT but no ORDER BY; the rows
are taken in the order of their numbers, so that a list is the set of its rows. `broken` and `swapped` are history.

### LinkupBoard, Linkup

`checkImg` is the search of the code, by cells seen from a cell; `Linked` says what
the rules mean, by a line with two corners. In `Linkup` drawing is part of every
action, as in the code; the hint is any partner of the first tile that has one. The number of
pending timers is bounded by `MaxTimers`; actions that could set one more wait.

### EditorText, Editor

A text is a model value with a size, and a body is a text with or without the marks (`kesrc`)
that the set hooks put on its links. `Clean` is what `toData` makes of a text. `Editor` has the
operations of `KE.g[id]`: `Init` builds the editor as the page does, and there is an action
for typing, each command, each menu and dialog, source and full screen, removal and building
again. `due` holds the events of a change that are still to come: `keyup` or the timer of a
paste; in between the user may do anything else, since the browser shows a change before it tells.
`ignored` is history: a key that goes up under Ctrl or Alt is not listened to
(`kindeditor.js:178`). Browsers are neither IE nor an old Gecko. `toData` takes one
`<br />` off the end, so texts that end with two are left out. A new
edit does not clear `redoStack` (2532-2579).

A script of the page may remove the editor whatever is open (2678-2707). The dialogs go out of the stack, not out of the
document; `page.left` holds them, with what each still waits for. Since `hide` takes only the uppermost of the
stack away (2198-2199), nothing can close them any more. What they wait for still comes, but acts on the
stack of the editor that is there then: the list of files hides or shows what the uppermost dialog is loading (`LeftLoaded`),
and the answer to an upload puts its picture into the new editor and hides its lowest dialog, if that is the uppermost
(`LeftAnswered`, 3884-3904); without a dialog it ends in an exception. The new editor's first dialog takes over the frame of the last dialog of the old one
(`Frame`, 2289), and the dialog that had it waits for nothing any more (`Unframed`). Two
things are assumed: the user does not use what is left behind, and does not reach by the keyboard what the mask covers.

### EditorRange, EditorTable

A document is a tree of records; each character of a text is a number, so that none can be
taken for another. `Selections` are all pairs of points. The commands are given as the toolbar gives
them: a colour, no colour, no formats. A selection that ends behind all of an element is (el, 0), as the code has it, and
the search for the elements above stops at a tag that is not to be removed.

### Highlighter

What the expressions of a brush match is any set of spans. From there the code is followed: matches sorted,
nested ones dropped, tabs and indentation, lines, embedded code, CDATA marks. `stripCData` makes
nothing of two characters without marks (1096-1118); the property makes the exception.

### Sizzle

`Select` goes through the chunks of a selector from the right, as the code does; `Means`
is what a selector means, by the definition of CSS. The code does not go back: for a selector like
`A > B C` the first `B` above is taken, so elements may be missing. `FindsAll` names the
selectors without that; of the others all that is found is meant. `child` stops at the document, of whose parent the
code would ask the name and throw (3693); no selector of the run lets it come there.

### Ajax

`stack` holds the calls of `ajax()` and `done()` that run, with how far each is; a call rests where
handlers of the page are called, and there the page may make, abort or throw. Between calls answers
come and timeouts fire. `HandlerThrows` ends all calls up to the next one that is sending: what is thrown there is
caught. `runs`, `success`, `error`, `complete` and `threw` are history.

### Effects

`queue` holds the animations that wait, with the sentinel "inprogress" (`InProgress`); `running`
holds the loops that run, of `stop` and `tick`, each with its index, since a callback in
the middle may splice the list below it. A page has manners (`Manners`): what it does at all, and what its
callbacks do. TLC finds two animations of a queue running at once, as they would with this jQuery, for pages of five kinds:

* animations of no duration whose callbacks put something into a queue (`dequeue`, 1663-1690, still has the array that the end of such an animation
  emptied, and drops the queue that the callback has just made, sentinel included);
* delays with `stop` or an end forced (the timeout of a delay dequeues once more);
* an end forced, with animations aside and callbacks that animate;
* a queue cleared with more than one animation (`clearQueue` drops the sentinel with the rest);
* callbacks that stop: `stop` takes timers out that lie before the one whose callback it is, and the loop of `tick`
  (7877-7890) then takes out the timer at its index, which is another's. The one that is at its end stays, ends at the next tick once more, and dequeues once more.
  The shortest of these that TLC finds has five animations, of three elements. The loop of `stop` itself may then look for a timer that is
  not there and throw (7643); `StopStep` does not go on from there.

`MCManners` leaves these pages out. They are all that is wrong: `Gentle`, in `Callbacks_proof`, says that a page does none of these things, and for
every gentle page `OneAtATime` is proved.

### Deferreds

A deferred is its two lists; `calling` holds the lists that are being called. A callback may add,
settle, or throw, on any deferred, its own included. `when` puts its callbacks on one list after another.

### Events

A list of functions is the set of them, each with the number by which it was bound: its order. `dispatches`
holds the events on their way, each with the copies of the lists that it goes over, as the code
takes them, without what was called already. `handle` gathers what is to be called at an element,
`CallDirect` and `CallLive` call the first of it; `Live` are the live functions that `liveHandler` finds, in the order
of the elements that they are for, then of the selectors, then of their numbers (`Sooner`). `Answered` and `LiveAnswered`
are what becomes of a function's answer. `DefaultAction` is the browser's own action, during which inline
handlers run and may trigger again. `again`, `late` and `meddled` are history.

### Nodes

`dom` has the tree, the data and the cache of fragments; a call of the page is one
step, with its loops over targets as folds. The page holds nodes of removed trees (`held`), by which it may come by them
again; so data of a removed node is left over only if the page cannot. `Books` are small documents with
the calls that the page makes on them: every choice of one or two targets, one or two arguments.
An exception in the middle of a call (`before` on a target without a parent) leaves what was done, as in the code.

### Tools, Paging, BoardsAndPages, TagsCheck, FunctionsCheck

A state of `BoardsAndPages`, `TagsCheck` or `FunctionsCheck` is an input of one of the functions, a step makes the next one: two tiles fewer,
a row, a count, a character, an article or a command more. All but `FunctionsCheck` have no recursive operator, so that they can be proved about.
A loop of `Tools` is a recursive function of the number of rounds, up to as many as it can have: one for each character, part
or tag, and for the loop of `quickSort`, which is over when its two scans have met, as many as the part to sort is long. `quickSort` itself is a recursive
function of its arguments. A character is an ordinary one, a blank or one of two commas. The keys of a map come in any order.

## 3. Runs

| run | instance | shows |
|---|---|---|
| `manager` | 4 connections, 2 ports of one width | the list is exact; it implements `ClientRegistry` |
| `chat` | 3 peers, a message each | list exact, everyone hears everything in order, ends are told once, dead sockets still have an error to come |
| `chatClash` | 3 peers, ports of different widths | with equal ids: order kept, walks end |
| `chatDepartures` | 2 peers | violation: departures are never announced |
| `parserHigh` | texts and a frame of even type | violation: it is delivered as a message |
| `functions` | a board of 3 by 4; 4 articles; 140 rows; 4 documents; pieces of code of 4 characters; documents of 3 and 4 nodes | the link search is exact; tags are counted; pages show each row once; formats, shown code and selectors are exact |
| `tables` | tables of up to 2 by 2, changed twice | violation: deleting a column deletes cells of others |
| `incoming` | bytes: up to 3 texts of 0 to 2 bytes, a frame of odd type, the closing frame; requests: 2 threads, an initial action, one without public index, one without class; indexing: 2 tables, 2 requests | messages are the texts, all delivered; actions are ready when called, made once by a thread; articles are found once, the index never goes back, locks are returned, requests end |
| `lists` | 2 requests, 2 connections, 553 blogs, 46 on a page; 2 pages, up to 3 mottos, lists of 2 | connections accounted for, the right page though requests overlap, every request ends; every page shows a motto |
| `scripts` | game of 3 by 2 with three pictures; editor with 6 texts, 2 edits, built twice, removed with anything open; 3 elements with up to 3 bindings | never stuck, hint right; what is shown is posted, history, nothing left behind; functions called once, stops kept |
| `jquery` | 2 requests with 4 settings; 2 elements with up to 3 animations; 2 deferreds and `when`; documents of 5 or 6 nodes, 2 or 3 calls | one outcome, timeouts end; one animation at a time, queues drain; promises kept; content arrives with its data, none left over |
| `jqueryDone` | as `jquery` | violation: `done` runs twice |

`incoming`, `lists`, `scripts` and `jquery` hold several specifications that share no variable: the
first state chooses one (`comes`, `shown`, `script`, `part`), the others stay where they start.

Why the bounds are enough. A list of four has a head, a tail and inner nodes to
remove in every order, and a fifth node would be one more inner one. Three peers
are a speaker, a hearer and one that leaves; one message each, with the
announcements, already orders four entries. Texts of 0, 1 and 2 bytes, with odd and even bytes,
in pieces of every size put every cut before, in and behind a frame; the key is two
bytes that look like a frame instead of eight. A board of 3 by 4 has
corners, edges and inner cells and lines with two turns inside; 3 by 2 is the smallest board on
which tiles can be blocked and a shuffle can fail. Two requests are enough to overwrite each other's page, and to wait
for the one connection that is left when the other is lost; 553 is 12 full pages and one row.
Two threads are enough to make an object twice, and the second put then replaces the first while
that one is in use. For the index, one thread holds a lock while the other waits or comes
back with an older list; the second table (empty, so that it costs few states) lets a request go on to
the next after a failure; three revisions are needed to tell an older list from
an equal one. A list of two mottos has an inside and an end, a third motto lets the random
start vary, and one deleted or more makes the list too short. 140 rows are three pages of 46 and
some, for pages of 46 (blogs and code), 20 (mottos) and 10 (searches).

In the editor two changes are one to undo and one in between; a text that differs by less than
`minChangeSize` is one that history passes over, one with a link is one that is marked. To build it
twice is what is needed for listeners and dialogs of the first to be left. A document of 3 or 4 nodes has
parents, children and brothers in every arrangement; three parts of a selector are needed to
go back between two. Four characters of code, of all kinds of blank and ink, have two lines with an indentation;
two spans are beside, in, or across each other. Two requests let `jQuery.active` go through 1, and
one handler abort the other; `MaxMeddling` is 2: an abort and a throw. Three animations are one that
runs, one that waits, and one that a callback adds while the loop is at the last timer. Three callbacks
of the page are one before and one behind the one that adds or settles. Three elements are one where
the event is, one where a live function is kept, and one between them. Two targets are the
one that gets the nodes and one that gets clones.

Deadlock is allowed where the system may stop: all sockets closed, all texts
sent, all tiles gone, all ids used up by the bound, no more edits, calls or clicks, and in `functions`, where the inputs are bounded.
The others cannot stop.

Type invariants are not among the properties of the runs: those that a theorem uses are proved with it, and those of
`Nodes` tell
the reader what the variables hold. They are true on the same instances, and so are `PairsKept`, `OneMarked`, `UndoGetsBack`,
`ActiveExact`, `EndsOnce` (which the proof of `OneAtATime` needs), `SomePairLinked`, `SortedByCount`, `TagsClean`, `FailsForAReason`,
`IndexStandsIn` and `NothingHeldBack`, which the modules state besides; the runs keep to the properties that say most.

Liveness. `TextsArrive` assumes that bytes in transit arrive (weak fairness of `Data`):
TCP delivers while the connection lasts. `RequestsEnd` assumes that a thread runs on
(weak fairness) and that a thread that waits for a connection, while there is one again
and again, gets one (strong fairness): the pool serves its waiters in turn. It does not assume
that closing succeeds; only not all connections may be lost. `IndexingEnds` assumes weak
fairness for the steps of a request: the container's threads run
on, and the database and Lucene answer, with success or failure. The requests of `Dispatch` and
`MottoCache` go straight on without waiting for each other, so that their end is not a question.
`TimeoutEnds` assumes that what runs goes on and that a timeout that is set fires (weak fairness of each); no
answer needs to come. `QueuesDrain` assumes that code which runs goes on (weak fairness), and that the interval and
the timeouts of delays fire though other code runs in between again and again (strong fairness): a browser
lets each timer fire when its time has come. No fairness is assumed for what
makes requests, changes the tables, or for what users do.

### Findings

1. `chat-server.js:22` listens for `disconnected`, the server emits `disconnect`: the
   departure of a peer is never announced (`DeparturesAnnounced`).
2. `connection.js:417`: `data[i] & 0x80 == 0x80` tests the lowest bit, so high frames of an even type
   are delivered (`HighOrderNotDelivered`).
3. `kindeditor.js:4225-4232`, "delete column", asks the cell for its index again in every row. Once
   the cell is deleted it has none, -1, and `deleteCell(-1)` takes the last cell of each row below (`ColumnDeleted`).
4. `jquery-1.5.1.js:6510` says of `done` "Called once". A handler of `ajaxSend` that aborts the
   request has it called; then the state is set to 1 again (6766), the transport is gone, and the exception that this
   makes calls `done` once more (`CalledOnce`). The callbacks of the request still are called once
   (`OneOutcome`), because the deferreds take one outcome only; the global events are triggered twice, and `jQuery.active` is counted down twice.

The models also have, without a run of its own for each:

* `connection.js:129-131` says that the server waits for an upgrade head that
  comes late; it rejects the request (`ChatServer`, `Upgrade`).
* `linkup.js:178`: when a shuffled board has no pair the old hint is kept, though it is no
  solution any more; the next shuffle replaces it (`HintIsCurrent` makes the exception).
* `QueryHelper.java:144`: page 0 is accepted, the message asks for a positive page; with
  no rows, or a count that failed, page 0 is what `_doPage` passes on, and the statement
  gets a negative offset (`BlogList`).
* `MusicAction` has an index that is not public: for a method that is missing the request
  fails instead of going to the index (`Dispatch`, `Called`).
* `kindeditor.js:2678-2707`: dialogs that are open when the editor is removed stay in the document and cannot be closed;
  the answer to an upload of one of them goes into the editor that is built next (`Editor`, `LeftAnswered`).
* `file_manager.js:201`: an answer with a status other than 200 leaves the file manager loading (`Editor`, `DialogLoaded`).
* `shCore.js:1096-1118`: of a code of two characters nothing is shown, since a mark that is not found seems to be at
  its end (`CodeShown` makes the exception).
* `jquery-1.5.1.js:2518`: an inline handler that triggers another event while the browser does what a
  click does resets `triggered`, and functions further out are called twice (`EventCalledOnce` makes the exception).
* `jquery-1.5.1.js:5290`: whether HTML made a single node is seen by comparing the number of its nodes with the
  number of targets, so with two targets and two nodes the fragment is taken for its node; `before` and `after` look at the parent of the first
  target only, and fail half-way at one that has none; `replaceWith` of several targets by a node leaves it at the
  last only (`ContentArrives` makes the exceptions).
* The `catch` around `send` tests `status` where it means the state, so its "Simply rethrow otherwise" never happens (`Ajax`, `SendFails`).

## 4. Proofs

`WsManager_proof` and `ManagerSpec_proof`: for any number of connections, if the ports
have one width,

* `IdsAreUnique`: no two connections get one id. The invariant adds that no id still to
  come is in use; the step rests on `IdsDiffer`, that two concatenations
  whose first parts have one length are equal only if the counters are.
* `RegistryIsExact`: the list is exact, and the types hold. `RegistryExact` is not inductive:
  that the reachable nodes are the attached ones does not say that the node behind a
  removed one is reached once only. The invariant is that there is a sequence without
  repetition which is the list (`IsList`) and has the attached connections as its elements.
  `AttachExtendsList` and `DetachShrinksList` say what the operations do to the
  sequence, `ListHoldsElems` that the sequence gives `ListHolds`.
* `ManagerIsRegistry`: the manager implements `ClientRegistry`. The mapping takes for `clients` the sequence that
  is the list; `ListUnique` shows that there is one only, so that the sequences of the two lemmas above are
  the ones the mapping chooses. Each step then attaches at the end, detaches one, or leaves the sequence alone.

`ChatServer_proof`, on top of `WsManager_proof`: for any number of peers, any number of
messages, and any mixture of broken sockets, ends and errors, if the ports have one width,

* `RosterIsExact`: between two handlers the list has exactly the connections in state 4.
* `EndsAreToldEver`: the application is told once of a connection and once of its end. `Told` says for
  each state of a connection what has been told of it, and that a connected one has an open socket or an error to come.

  The invariant has three parts. `IdInv`: ids are distinct, so that `detach` finds the connection that
  is closed and no other. `ListInv`: some sequence is the list and has the connected ones. `TellInv`: `Told` of each.
  `CloseEnds` and `CloseTells` are about `state(5)` from wherever it is called, and rest on `DeliverNothing`:
  because of finding 1 closing broadcasts nothing, so no other socket breaks while one is closed.
* `EveryoneHearsEver`: a connected peer whose socket works has heard all that others said since it came, and one whose
  socket died a beginning of that. `HearInv` adds to the invariant above and to `OrderInv` below that nobody has missed anything
  (`NothingMissed`). `Speaks` is what every broadcast has in common: it says what was not said before, and who is in the audience hears a
  beginning of it.

And for ports of any width, so that ids may be equal and `detach` may unlink another node than its own,

* `OrderKeptEver`: nobody hears an entry twice, out of order, from before it came, or from itself.
* `WalkEndsEver`: every walk of the list ends, with no more nodes than `length` counts. The pointers may
  leave out connected nodes then, but they still make a chain (`IsChain`): a sequence without repetition,
  from the head to a node that has no next. `detach` takes one node out of it, or none; `attach` makes it
  end behind a tail that lies in it, or changes nothing that a walk comes by. With `SaidInv`, that what is heard was said, once, this is `OrderInv`,
  which is inductive for both theorems.

  `OrderKept` and `EveryoneHears` are stated by the places that entries have in `said`, so that no induction over sequences is needed.

`Lists_proof`: for any number of threads, connections, blogs, and any page size,

* `ConnectionsAccounted`: every connection is idle, lent to one thread, or lost. `NoneForgotten`
  is inductive together with the types: that a thread only has a connection at its
  statements is what makes it take one at most.
* `PageIsShown`: a request shows the page asked for unless another changes a field between its count and
  its `query_slice`. The invariant (`PageInv`) says what the fields hold at each statement of
  a request that is undisturbed; a step of another keeps that, since it changes no field or ends it. `Division` and `PagesFit` are the arithmetic of the pages.
* `PagesReachEver`: for any number of rows and any size of a page, no page from the first to the last is empty, no row
  is on two, and together they show all rows. With `Division`, the page of a row is found by dividing.
* `SortedByCountEver`: `quickSort` keeps the keys, whatever they are, and puts the highest counts first. That its loop and its calls end is part of it:
  the scans come nearer in each round (`RoundParts`), and the calls within a call are for shorter parts (`CallSorts`), so that by induction over the length
  there is a function that is what all calls do (`CallsEnd`). No run has this one (see section 3).
* `HotTagsCountEver`: for any texts that were typed as the tags of any number of articles, `hotTag` lists each tag that they have with the
  number of articles that have it, the highest first. A comma is put between tags that have none, so that they are parted as they were joined (`SplitJoined`); so `checkTag` leaves a
  tag once in an article (`CheckedTags`), and it is found as often as there are articles with it (`CountsLists`).
* `TagsCleanEver`: for any text typed as the tags of an article, `checkTag` leaves tags without needless blanks, each once, none of them empty, and
  no wide comma; a letter is there after it if it was there before; and doing it again, as when an article is edited, changes nothing. A beginning of a text
  that is being cleaned ends in a blank only if the next character is none (`CompressedMore`), so that the whole is clean (`CompressedClean`)
  and stays as it is when it is cleaned again (`CleanStays`). What is in a text, but commas, is in its parts (`SplitChars`), which the tags are
  made of (`CheckedClean`). No run has this one either.

and for any number of pages that take a motto, of mottos that are added and any length of the cached list,

* `EveryPageShowsOneEver`: if the site has as many mottos as the list is long, none was deleted and no statement failed, every page shows
  one. The invariant (`MottoInv`) is that in this case (`AllThere`) every list that was fetched is full (`ListsFull`), since
  the rows from the start that was drawn are enough (`Counted`).
* `FailsForAReasonEver`: a page fails here only after a statement that failed, or if another page replaced the list
  between the two looks at it. No run has this one (see section 3).

`Incoming_proof`: for any texts, any frames of other types, and any cut of the bytes into pieces,

* `MessagesIntactEver`: the messages are a beginning of the texts. The invariant (`Flow`) is that parsing what is in transit on top
  of what was parsed gives all texts that were sent, and waits for a frame. It needs that pieces can be parsed one by one (`ParseConcat`), that
  what has come out does not matter for what comes (`ParseAfter`), and what a text and a frame of another type become (`ParseText`, `ParseOdd`).
  `Parse` is a recursive function. What is to be shown of it for pieces of every length is shown for the set of lengths for which
  it holds: `CountsUp` says that a set with 0 and all successors is all of `Nat`, and follows from the library's theorem that `<` is well-founded.
* `NothingHeldBackEver`: when all bytes have come, all texts have come out. It assumes that frames of other
  types are such as the parser passes over (`HighFramesSkipped`): that is so when there are none, as in the chat, and for the odd
  ones of run `incoming`. Without it there is finding 2, and more may come out than was sent as text.

For any number of threads and actions,

* `CalledWhenReady`: the object that a request calls was made for the name it asks for, and
  initialised. The invariant says of every request that makes an object how far it has got
  with it, and that all that is in the map is ready.
* `ObjectsBounded`: no thread makes two objects for one name. A thread that has made one finds the name in
  the map from then on, or is about to put it there: names never leave the map.
* `InitialActionsStay`: an action made at the start is never made again. No request begins
  before the start is over, so none is beyond its lookup when the object is put into the map.

For any number of requests, tables and articles,

* `ArticlesFoundOnce`, `LocksAreReturned`, `IndexNeverGoesBack`. The invariant has four parts.
  `RowsOK` and `DocsOK`: numbers occur once, and no document is newer than its
  article. `LocksOK`: a request with a writer has the lock, so that two never have a writer for one table.
  `Listed`: a list that was read is at least as new as the index, and has every document whose article is
  still there. The last is kept because the index cannot change while the request has the
  lock, and holds when the table is read because it is read after the lock was taken: with a
  list read before, the step `CloseWriter` of another request would break it.

`Scripts_proof`, of the game and the editor: for a board of any size and any pictures,

* `NeverStuckEver`: an unfinished board without a pair has a shuffle pending.
* `HintIsCurrentEver`: the hint is a pair that can be removed, unless a shuffle is pending.

  Neither is inductive: a step may look at the hint, at the shuffles that are pending and at the marks of the one before. The
  invariant (`GameInv`) is what drawing leaves behind (`Drawn`), and each action ends with a drawing. `checkImg` stays
  unexpanded, so the theorems hold of any rule by which tiles are linked that says of each tile which are its partners.

* `SearchIsExactEver`: `checkImg` finds the tiles that a line with at most two turns links, and no others. What is
  seen from a cell in a direction (`Seen`) is what a clear line goes to (`SeenIsClear`), so that the three tests of `checkImg` are the lines without a turn
  and those with one corner or two; that it may be begun from either tile is because lines can be turned round.
* `SomePairLinkedEver`: if the board has an even number of cells, some two of the tiles that are left can be linked, so that shuffling can come to a board
  with a solution. Tiles disappear in pairs, so there are two at least. Of those take two with the least distance, counted in
  steps along the board: any tile in the rectangle between them were nearer to both, so the line by one corner of it is clear.

For any texts, any cleaning of HTML that does nothing the second time, and whatever is done to the editor,

* `PostsWhatIsShownEver`, `FirstTextKeptEver`, `NothingLeftBehindEver`: when no event of a change is due and none was ignored, the form
  posts what is shown, in either view; the history begins with the first text; dialogs, mask, menu, icons, listeners and handlers fit
  together, and the dialogs left behind by an editor that was removed have none of the frames of the new one's. The invariant (`EditorInv`) has the first for all states and of an editor that was built: `Fits`, that what is in the document belongs to it (`BuiltOk`, `DialogsOk`,
  `MenuOk`), and `FirstKept`. `Stacked` is why no two dialogs share a frame: there are no dialogs but one for a picture and, over
  it, one for its file. Each action is reduced to a few operations on texts, `Handled` (what the handler of a change does), `undoClick` and `redoClick`,
  which leave all else alone (`SameRest`), and to operations on dialogs, which leave the texts alone (`Elsewhere`).
* `UndoAndRedoCancelEver`: redo takes back an undo, and undo a redo that changed something; `UndoGetsBackEver`: each undo
  leaves less to undo or shows the first text. Both follow from `FirstKept` by what `undo` and `redo` do to the two stacks; the rule by which
  a small change is not recorded does not matter, since `undo` records what it replaces in any case.

`JQuery_proof`: for any number of requests, any settings, and whatever handlers do,

* `OneOutcomeEver`: of the success and error callbacks of a request one is called, once, then the
  complete callback, once, and none is missing when nothing runs. The invariant has a part for each request and one for the stack.
  `Sound`: the callbacks that were called are those that the states of the two deferreds say, and a request whose callbacks are
  not on its deferreds yet is settled only if its state is 2, which is what `ajax()` looks at before it puts them there.
  `Owed` and `Pays`: a request that is settled and not completed, and was left by no
  exception, has a `done()` on the stack that has not come to the completion. A second run of `done()`, as in finding 4, breaks none of this.
  `Moves` is the common part of all steps, `DoneKeeps` that of the six that call `done`.

For any elements, selectors, and pages, with any functions, answers, and any number of events within events,

* `EventCalledOnceEver`: no function is called twice for an event on an element, unless the event was meddled with.
* `StopIsKeptEver`: what was stopped calls none further out, and what was stopped at once none.

  The invariant (`EventsInv`) has three parts. `Numbered`: every function has a number of its own, and a live one
  is kept at one element. `Kept`: where an event was stopped it stays, unless a live function did it and returned false, which
  `liveHandler` tells at its end only; until then `maxLevel` holds back what is further out. `Once`: what an event called lies at elements that
  it has left or where it is (`Behind`), and what it holds to be called at this element was not called there (`Ahead`), so that to
  call the next of it repeats nothing. The browser's own action after a trigger goes the same way again and repeats nothing
  because `triggered` holds back the listeners: then, and only then, `Behind` is not true of an event, and `Once` has a case of its own. `liveFired` is why entries of
  `liveHandler` that are left over call nothing. That new functions do not disturb this (`OnceStays`) is because their numbers are new.

`Callbacks_proof`: for any number of deferreds and of callbacks, in whatever order the page puts, resolves, rejects and throws,

* `PromisesKeptEver`: a deferred has one outcome, calls the callbacks for it once each, in their order, and none is left that
  is due when nothing runs, unless one threw; `when()` is resolved only with all of its deferreds, rejected only with one of
  them, and is settled once they are. The invariant (`DeferredsInv`) has three parts.
  `World` is about the two lists of a deferred and the stack: both wait with the callback that drops the other in front, or one was begun and the
  other is dropped (`Paired`); what the page has put on a list and was not called yet is still there, behind all that was called (`InTurn`); a list is called
  by one frame (`Once`), and each was begun but for the innermost, whose first callback may still be the one that drops the other.
  That is the rule by which a list is not called a second time while it is called, though its callbacks may resolve it again.
  `InOrder` is the order of the calls. `Awaits` says which deferreds were counted: there is a set of as many as the counter has gone down,
  each begun and with no count on its list, and without an exception all that are so are in it (`CountedAre`); a list
  has one count at most. Each action is an instance of one of a few changes: `Resolution`
  (of `resolveWith`), `Addition` (of `done` and `fail`), a callback off the front (`Shift`), and a list that is over (`Close`);
  most leave `when()` alone (`Calm`).

For any page, elements and durations, and any number of animations and delays,

* `EffectsTypedEver`: only animations that were made wait, have timers or end, and the index of a loop stays a number.
* `OneAtATimeEver`: of the animations that wait for each other in a queue one runs at a time, on every page that animates
  once, and on every gentle one (section 2, Effects). `EndsOnceEver`: on a gentle page an animation calls its callback once at most and has no timer left then,
  though `stop` takes timers out of the list that `tick` goes through.

  Neither is inductive. An animation of no duration, or one that was stopped with its end forced, has no timer and dequeues
  all the same; so does a delay. The invariant (`EffectsInv`, whose second part is `Sound`) is therefore about all that will yet
  dequeue an element, animations that run and those whose end is on the stack (`Going`) and delays: there is one at most, and while there is
  one the queue has the sentinel, or a `stop` has just emptied the queue and goes on to take out what runs, before anything
  is enqueued (`Single`, `Cut`). The rest is why this stays so. `QueueSound`: what waits has no timer, was not ended and waits once, so that to start it brings no second timer.
  `TimersSound`: a timer at its end is that of the loop that is to take it out (`Handled`), and what has ended
  has no other; this is what a callback that stops would break. `FramesSound`: the loops are at the bottom of the stack,
  and above them are calls of `dequeue` and ends of animations, each with the array that it will go on with (`Forgotten` when another call has emptied it).
  A step is reduced to a few changes: a timer added or taken out, a frame pushed or popped, an element's queue shifted or appended to. Timers are made of the set of
  properties of an animation, so `EffectsAssumption` says that `Props` is finite, as the properties in a call are.

The proofs use the assumptions that the modules state about their constants. They
hold for every value of the bounds (`MaxCounter`, `MaxLost`, `MaxId`, `MaxRev`, `MaxMessages`, `MaxTimers`, `MaxMeddling`,
`MaxEdits`, `MaxCreates`, `MaxClicks`, `MaxCallbacks`, `MaxActs`, and what a page does at most).

Model-checked only: liveness (`TextsArrive`, `RequestsEnd`, `IndexingEnds`, `TimeoutEnds`, `QueuesDrain`), which the prover does
not do. Nodes (`DataOwned`, `ContentArrives`): trees are walked by recursive operators. What the functions that only `FunctionsCheck` has
compute (`FormatsExact`, `CodeShown`, `SelectorsExact`): they are recursive operators, of which the prover knows nothing, and their properties are about trees and
sequences of every shape. For recursive functions over numbers induction is possible, by `CountsUp`: the parser, `quickSort` and the loops of `checkTag` are done so.

## 5. Hazards

The hazards of the code, with the properties about each, are in `PROJECT.json`. Two have none:

* The 8 bytes of `key3` may come after the request (`connection.js:142`). `Upgrade` rejects such a request, as the code
  does; what ought to be is only in a comment.
* `SearchfAction.java:63` cuts its page out of the hits by the shared `page_NO`, read three times. What requests
  on the same object do to each other's page is modelled for the list of blogs only.

## 6. Not modelled

Of the web application: the parts that are single statements on the database or forward to a page (login, administration but for
`updateIndex`, games, music, chat pages, code snippets but for their table), the disk index, which is a program run by hand,
and what Lucene does with a query.

Of the editor: the cleaning of HTML (`KE.format.getHtml`) and of addresses, the commands that are left to `execCommand`
of the browser, the plugins that only open a dialog and insert what is typed there, and the branches for IE and old Gecko. Of SyntaxHighlighter: the toolbar, links, the
layout of the gutter, and the expressions of the brushes. Of jQuery: traversing (4712-4985), styles and dimensions, attributes and classes, the
conversion of answers, tables, scripts and functions as arguments of the methods that put nodes, events that old browsers do not bubble, the
fixes of `jQuery.support`, selectors with positions, and the parts that ask the browser. They are pure conversions, differ by browser, or do what the model has for another method.

To go on, in the order of what it would show: a proof about the data of nodes, what does not depend on the tree
(no number is on two nodes, each has an entry), in a module without recursion; requests for different searches on one `SearchfAction`, composed with `BlogList`; `LoginAction`,
where two first requests of one address may both insert a user.
