# A TLA+ model of the permission service

The repository is a teaching model of Unix-like file permissions: a C++ server (`src/server/`)
that keeps users, groups, files and rights in PostgreSQL (`configs/migrations/*.sql`) and sign-ins
in Redis, and a Qt client (`src/app/`) that talks to it over a text protocol
(`src/common/message.h`). Paths below are relative to the repository's root.

## 1. The system

| Part | State it keeps | Operations |
| --- | --- | --- |
| Connections (`Server`, `Session`, server.cpp 5-57) | one `streambuf`, one `Worker` per connection | accept, `ReadMessage`, close |
| Thread pool (thread_pool.cpp) | a first-in first-out queue, 4 threads | `EnqueueTask` |
| Dispatch (`ProccessOperation`, server.cpp 201-437) | one `static std::string result` for all workers | one case per operation |
| Sign-in (`Login`, `CreateSession`, `Quit`, `UpdateActivity`, `ValidateRequest`) | Redis `auth:<token>` (TTL 3600 s), Redis hash `session:<id>` (TTL 3600 s), rows of `sessions` | sign in, sign out, touch, validate |
| Files and rights | `nodes`, `permissions_user/group/all`, `events` | create, delete, change rights, read/write/execute |
| Groups and accounts | `users`, `groups`, `user_to_group` | register, make and delete groups, add users and files |
| Backup and recovery (server.cpp 146-156, 439-497) | a dump file | `CreateBackup`, `RecoverDB` |
| Activity feed (server.cpp 936-962, main_window.cpp 11-33, 639-690) | channel `users:activity`, the client's list | publish, subscribe |
| Lists as JSON (server.cpp 1156-1258) | none | file tree, users, groups |
| Client (hello_window.cpp, main_window.cpp, command_handler.cpp) | token, user name, receive buffers | forms, menus, answers |

How they interact. The io thread reads a message and posts a task; any thread of the pool runs it.
A handler is a sequence of PostgreSQL transactions and Redis calls with other handlers' calls in
between, and ends with one answer. The client's login form blocks in `ReadResponse`; its main
window sends without waiting. Between two transactions a handler remembers the *names* in its
request and nothing else, while the rows refer to each other by id.

What is hard: the check and the taking of a seat are several calls apart; three stores record one
sign-in and any call between two of them may fail, or the process end; keys expire while handlers
run; a check of ownership and the change it permits are separate transactions; files and groups
disappear, and their names come back, while handlers that looked at them are in flight; a task knows its
session by a raw address and shares a database connection and one static string with others; both
ends cut their streams in a way that depends on where TCP does.
`PROJECT.json` lists these as hazards with the line where each bites.

What makes each part right:

| Part | Properties |
| --- | --- |
| Sign-in | a user holds one usable token at most; a usable token's seat is taken; a token that ran out stays dead; every token runs out; the audit table agrees with Redis; every login is sent an answer |
| Files and rights | the nodes are one tree; a name is one file; rights change and files go only for a checked owner; the rights set are the rights shown; accesses are logged |
| Groups and accounts | no membership and no file outlives its group; an answer of success is true |
| Dispatch, connections | a request gets one answer or refusal at most, from its own handler, to its sender; it comes to nothing, or ends the process, for named causes only |
| Framing | what one side wrote the other reads in order, however the stream is cut; what may be lost is bounded; nobody's session stays open |
| Backup and recovery | a recovery gives a user a second open row only if he signs on while its statements run; whose row it takes away is known |
| Activity feed | the table a client shows says who is signed in, once nothing about the user is under way |
| JSON lists and trees | every node hangs once in the tree, under its path, with its own data |

## 2. Modules

| Module | What it is | Run by | Proofs |
| --- | --- | --- | --- |
| `LoginSessions` | sign-in, requests, sign-out, backup and recovery over Redis and `sessions` | `MCLoginSessions` | `LoginSessionsProofs`, `LoginSeatsProofs` |
| `SeatRegistry` | what signing in promises, abstractly | through `LoginSeats` | |
| `LoginSeats` | `LoginSessions` as an implementation of `SeatRegistry` | `MCLoginSessions` | `LoginSeatsProofs` |
| `PermissionStore` | files, rights, groups, accounts in PostgreSQL | `MCPermissionStore` | `PermissionStoreProofs`, `StoreAnswersProofs` |
| `FileLists` | the file tree, from the query to the client's view | `MCPermissionStore` | `FileListsProofs` |
| `FileService` | what the store promises those who make, delete and chmod files, abstractly | through `StoreService` | |
| `StoreService` | `PermissionStore` as an implementation of `FileService` | `MCPermissionStore` | `StoreAnswersProofs` |
| `Dispatch` | what becomes of a request between `ReadMessage` and `SendResponse` | `MCDispatch` | `DispatchProofs` |
| `RequestBoard` | what the dispatch promises its clients, abstractly | through `DispatchBoard` | |
| `DispatchBoard` | `Dispatch` as an implementation of `RequestBoard` | `MCDispatch` | `DispatchProofs` |
| `AnswerStream` | how the client's `AsyncReadResponse` takes the stream of answers | through `ClientWindow` | `ClientWindowProofs` |
| `ClientWindow` | `AnswerStream` with Redis, the channel of events and the table of users | `MCClientWindow` | `ClientWindowProofs` |
| `ServerFraming` | how `Session::ReadMessage` cuts one connection's stream into commands | `MCServerFraming` | `ServerFramingProofs` |

`LoginSessions` decides *whether* a request is run (`ValidateRequest`), `PermissionStore` *what* the
run does; they share no variable, because the handlers of the store never look at Redis and the
handlers of the sign-in never at `nodes`. `PermissionStore` therefore starts its requests freely, for
any user with an account. `users` is fixed in `LoginSessions` (accounts are never deleted).
`FileLists` EXTENDS `PermissionStore` with what is read from its state. `Dispatch` runs any handler, as a
number of transactions and an answer, with no contents: it is about who shares what, and where an
exception goes. `ServerFraming` is the stream to the server, `AnswerStream` the one back, which
`ClientWindow` composes with what other clients' sign-ins do to the lists in it.

### LoginSessions

One action is one Redis call, one PostgreSQL transaction or one stage of `pg_restore`. State and code:

| Variable | In the program |
| --- | --- |
| `auth`, `owner` | TTL and value of `auth:<token>`; 0 is "no key" |
| `session` | TTL of the hash `session:<id>`; `Forever` is a key without a TTL |
| `openRows` | rows of `permission_app.sessions` with `exit_at IS NULL` |
| `queue` | tasks posted to the pool's `io_context` |
| `pc`, `job`, `row`, `answer` | where each pool thread is, its command, whether `AddSession` inserted, what it sends |
| `client` | the client's window: login form, waiting in `ReadResponse`, answered, main window; or gone |
| `pending` | logins of the client that were sent no answer yet |
| `dump` | open rows in the file `pg_dump` wrote; at first an old file with none |
| `table`, `restore`, `child` | whether the tables are there, or made again and still empty; what each `pg_restore` does next, and which one a thread waits for |
| `issued`, `answered` | uuids generated; tokens `Login` returned |
| `raced`, `halfQuit`, `unrowed`, `mixed` | history: see below |

| Action | Code |
| --- | --- |
| `SendLogin`, `ReadLoginReply` | `LoginButtonClicked`, hello_window.cpp:79-103 |
| `SendRequest`, `CloseWindow`, `ClientDies`, `ClientStarts` | main_window.cpp:76-93, 560-563; the error branch of `ReadMessage`; another process of the client |
| `Take` | a pool thread takes the next task |
| `LoginCheck` | `UserID`, `GetSaltAndPassword`, the comparison of hashes |
| `LoginSeat` | `IsUserActive` and `GenerateToken` in `CreateSession` |
| `LoginRow`, `LoginCommit` | `AddSession`, and the commit of its transaction |
| `LoginAuth`, `LoginHmset`, `LoginExpire` | `SET auth: EX`, `HMSET`, `EXPIRE` of `SaveActiveSession` |
| `Send` (`Finish`, `Arrive`) | `SendResponse`, and which reader of the client's socket takes the answer: `ReadResponse` or `AsyncReadResponse` |
| `Activity`, `Validate` | `UpdateActivity`, then `ValidateRequest`, of every request |
| `QuitRow`, `QuitAuth`, `QuitSess` | the three parts of `Quit` |
| `CreateBackup` | `pg_dump`, server.cpp:439-467: the committed rows |
| `DropTables`, `CreateTables`, `CopyTables` | the stages of `pg_restore -c`, a process of its own |
| `RecoverDB`, `StopActiveSession` | `c.wait()` and the exit code, server.cpp:485-491, and `DeleteActiveSessions`, server.cpp:146 |
| `Tick` | Redis counts TTLs down |
| `Crash` | an exception leaves a pool thread; the server is started again |

A Redis call that throws may have been executed (only its reply was lost): `RedisCall` has both.
`QuitSession` runs no `UpdateActivity`, which is the order of the `switch` (server.cpp:218).

Four history variables name what the code does not promise; none is read by a guard.

- `raced`. `CreateSession` checks the seat three calls before it takes it, so two logins of one user that overlap (or a
  login that overlaps the same user's quit) both succeed: `raced` collects those users when it happens. It also collects
  a user whose login form took another user's honoured token for its own: `ReadResponse` takes whatever comes next on
  the socket, and that may be the answer to what the window before it asked last.
- `halfQuit`: users whose quit closed the row and then failed, or was cut short by a crash, before `DEL auth:`.
- `unrowed`: users who had an open row before a recovery and have none after it. `RecoverDB` puts back the rows of the dump and
  deletes the open ones, and leaves the tokens and seats in Redis; a row inserted later takes the user out of it.
- `mixed`: users whose row `AddSession` inserted between two stages of a recovery, and all users when two recoveries overlap.

Recovery. `pg_restore` runs without `--single-transaction`: each statement commits by itself. So that is what it is here, in three
stages: the tables are dropped, when no open transaction has them; they are made again; and `COPY` adds the rows of the file to those
there are by then. In between sign-ins run: while there is no table `GetSaltAndPassword` throws out of its thread (`Crash`)
and `AddSession` fails; between the last two the table is there and `AddSession` sees it empty, so that the row of the file comes on top
of the new one. When `pg_restore` then exits with an error, as it does for any statement that failed, `StopActiveSession` is skipped and
the user has two open rows (`mixed`). Nobody new signs on in those stages, because nobody is found in `users`
before its rows are copied; a login that looked before the `DROP` goes on. A
`pg_restore` whose server ended goes on (`Restore` is no thread's step), and two can run at a time.

Simplifications: a password is right or wrong (a choice in `LoginCheck`). `UpdateExitTime` and its commit are one
step (nothing another thread reads lies between). A client that went away (`gone`) starts again when nothing
of the old connection is under way, which bounds the requests in flight and nothing else. Publishing
on `users:activity` changes no state here and is in `ClientWindow`; the shared `static` result is in
`Dispatch` (each thread here has an answer of its own). Any live request may be a backup or a
recovery: that `IsRoot` lets only some ask is in `PermissionStore` for the other operations, and no
property here depends on it. The three stages of `pg_restore` concern all tables at once, and of its statements only `COPY` may fail. A
`pg_dump` that finds no table is not followed: the file keeps what it holds.

### SeatRegistry and LoginSeats

`SeatRegistry` has two actions: `Grant` a fresh token to a user who holds none, and `Release` tokens at any
time. `LoginSeats` maps it: the tokens held are those `Login` has returned and Redis honours
(`SeatToken`), the spent ones those ever returned. Tokens that are set in Redis and not yet
returned are not held yet, so that the grant is the *last* call of a login; expiry, `DEL`, a crash
are releases or stutters.

### PermissionStore

One action is one transaction of the worker, or a part of one. A function that creates, adds or deletes looks up ids in its
first statements and uses them in a later one; it is read committed, and other transactions commit in between: such a function is two
actions, what it reads and what it writes. The `Update*ByMask` functions do not use an id again after their `UPDATE`, so that one
step is what they do. What one function of the checks reads is read at one moment.

| Variable | In the program |
| --- | --- |
| `users`, `groups`, `made`, `members` | `users`, `groups` (the n-th group of a name stands for its id), `user_to_group` |
| `nodes`, `node`, `nextId` | `nodes` and the owner in `permissions_user`; the SERIAL |
| `rights`, `fileGroup` | `can_*` of `permissions_user/group/all`; `group_id`, `NoRow` when there is no such row |
| `events` | `events` of READ, WRITE, EXEC |
| `pc`, `job`, `reply` | thread, command, response |
| `seen`, `seenGroup` | the ids a function has read and is going to write; between two functions only history: the code carries names |
| `aim` | the `directory_id` of `DeleteFileByNameAndUser` |
| `allSet` | `ChangeRights`'s conjunction of three results |
| `spoiled` | history: changes of rights of one file that overlapped; events lost to an error |

| Action | Code |
| --- | --- |
| `Start`, `Respond` | the dispatch and `SendResponse` of `ProccessOperation` |
| `CreateResolve`, `CreateInsert` | `AddFileToPath`, `AddDirectoryToPath`, with the UNIQUE of `nodes.name` and the foreign keys (`Insertable`) |
| `OwnerCheck` | `IsRootOrOwner`, as it is: the root flag is never read |
| `FindNode`, `DeleteNodes` | `DeleteFileByNameAndUser`: the `SELECT` of the id, then the `DELETE` of the subtree, with the cascades. A second deletion that selected the same file deletes nothing, and answers "Success" too |
| `SetUserRights`, `SetGroupRights`, `SetAllRights`, `RightsEvent` | `ChangeRights`, with `SetMask` and the bits taken apart again |
| `AccessCheck`, `AccessEvent` | `CheckUserRightsTo*`, `IsRoot`; `Add*Event` |
| `InGroup`, `GetNodeGroup` | the checks read the NAME of the file's group, then ask for the user's membership in a group of that name |
| `AddFileToGroup`, `SetFileGroup` | `AddFileToGroup`: the `SELECT`s, then the `UPDATE` |
| `AddUserToGroup`, `AddMember` | `AddUserToGroup`: the `SELECT`s, then the `INSERT` |
| `CreateGroup`, `AddGroup`; `DeleteGroup`, `RemoveGroup` | the functions of those names: the `SELECT`, then the `INSERT` or the `DELETE`s |
| `Register`, `CreateUser` | `Registrate` |

The rows of `user_events` and the CHANGE_PERMISSION events, which nothing reads, are left out. A membership that is added between
the two `DELETE`s of `DeleteGroup` makes the second fail on the foreign key: it is one of the faults of `RemoveGroup`.

### FileLists

No variables of their own: operators over the state of `PermissionStore`, each the translation of one
function, and one invariant. The type, owner, group and rights of a row travel together and are the id of the node
they are read from. A path is the sequence of the names on it, and the JSON of the files a function from the paths
that have an object: an array never holds two objects of one name, because `AddFileToTree` takes out the one it finds before it
appends the new one. The order of siblings in an array, which only the layout of the view shows, is left out.

| Operator | Code |
| --- | --- |
| `TopRows`, `RowsBelow`, `Level`, `FileTree` | `GetFileTreeWithPermissions` (20241120_01): the first rows of the recursive query, those a round adds, the rounds, all of them |
| `Sorted`, `Listings` | `ORDER BY` |
| `FileRow` | the loop of `GetFileList` (server.cpp:809) |
| `AddFileToTree`, `GenerateFileTree` | `JsonHandler`, server.cpp:1156-1216 |
| `PopulateTree`, `TreeItems` | `JsonTreeHandler`, main_window.cpp:291-355 |

`ORDER BY ft.path` puts a path behind every path it begins with; how siblings compare depends on the collation,
so `Listings` has every order that respects the first. `FileListIsTheTree` compares what the view
shows with `nodes`, in every such order.

### FileService and StoreService

`FileService` is what a user of the files may count on: no transactions, no names checked in one and used in the next, no
failures. Its state are the files there ever were and those that exist, their rights, and who has asked what.

| Action | In `PermissionStore` |
| --- | --- |
| `Ask`, `Respond` | `Start`, `Respond` |
| `Create` | `CreateInsert` that finds the name free: one new file, in the directory the path names, with the answer |
| `Aim` | `FindNode` that finds the name: the file that is going to be taken away |
| `Delete` | `DeleteNodes`: that file and what is below it (`Subtree`), if it is still there, with the answer |
| `SetRights` | `SetUserRights`, `SetGroupRights`, `SetAllRights` that find the name: one class gets what the string grants it (`Granted`), no mask in between |
| `Answer` | any other answer: a refusal, or success of an operation that makes and deletes no file |

All other steps (what `AddFileToPath` reads, the checks, the logs, groups and accounts) are stutters. What the promise allows and nobody
would ask for is in `Made`: a deletion or a change of rights is for one who has made a file of that name, though it may be
another's file by now. And the "Success" of a deletion says that the file it aimed at is gone, whoever took it: two that overlap
both say so. A change of rights is three steps of the service, because it is no more than that in the code:
`RightsAsAsked` says what may be relied upon.

### Dispatch

| Variable | In the program |
| --- | --- |
| `at` | what lives at an address of the heap: the `Session` (and `Worker`) of a client, or nothing |
| `linked`, `busy` | the Worker's pqxx connection is connected; the thread whose `pqxx::work` is open on it |
| `line`, `sent`, `read` | the connection of a client, its requests on the wire, those `ReadMessage` has read |
| `queue`, `pc`, `task`, `query` | the pool's tasks (request and address); what each thread is at |
| `result`, `answers` | whose answer the static string holds; what was sent, to whom |
| `down` | the process has ended |
| `over`, `astray`, `hasty`, `torn`, `raced` | history: requests a handler has answered or refused; those that met freed memory or a taken connection; clients that sent before their last request was over; clients whose `Session` went while tasks of it were left; requests that met another thread at the string |

| Action | Code |
| --- | --- |
| `SendCommand`, `Leave` | the client sends, quits (`~HelloWindow`) or is lost |
| `Accept`, `Connect` | `AcceptConnections`, `Worker::Worker`, in memory that may have been another Session's |
| `ReadMessage`, `ReadQuit`, `Destroy` | `Session::ReadMessage`: the task with the raw address; a Quit handled on the io thread; the last reference and `~Worker` |
| `Take`, `Begin`, `End`, `Write`, `SendResponse`, `Finish` | a pool thread: one `pqxx::work` after the other, `result = ...`, `SendResponse`, the last line of `ProccessOperation` |
| `Refuse` | "Security warning": `ValidateRequest` after the first transaction, `UpdateActivity`'s, or before any (`QuitSession`) |

Every use of a Session that is gone is undefined, and so are two transactions at a time on one
connection and an assignment of the string beside its use. `Stray`, and the choices in `Write` and
`ReadQuit`, have the outcomes that matter: the process ends, the task comes to nothing, the thread goes on; or the memory
is another client's Session by then and the task runs there. What a stray step sends on a freed socket
is not counted as an answer, and a request that strays is in `astray`, not in `over`. A `pqxx::work` on a lost connection throws
outside of the `try`, and so do `ValidateRequest`'s `get` (server.cpp:175), `LoginEvent`'s `publish` (947) and `IsUserActive`'s `exists`
(1053) when Redis fails: nothing catches it and the process ends (`Terminate`, `Broken`). A handler makes up to `Queries` transactions.

### RequestBoard and DispatchBoard

`RequestBoard` is a board of requests: no sessions, addresses, threads, queue, connections or shared string.

| Action | In `Dispatch` |
| --- | --- |
| `Post` | `ReadMessage` that reads a request (`ReadRequests`) |
| `Answer` | `SendResponse`: the request is struck off |
| `Refuse` | the handler breaks off without an answer (`ValidateRequest` fails) |
| `Disturb` | a client sends before its last answer (`hasty`), leaves with tasks behind (`torn`), a request meets another at the string (`raced`) |
| `Stop` | the process ends: PostgreSQL or Redis failed, or one of those troubles came before |

The board promises that a request is answered or refused once at most, whatever happens; that an answer comes after those to the earlier requests
of its client, goes to that client and is its own; and that the board stops for a reason only. What is exempt is written in its
actions: the answer to who left something behind may go to another, who does not await
answers may get them out of order, a raced request may get another's answer. A request that came to nothing stays on the board.

### AnswerStream

Answer m is its operation, a newline, its size in eight digits, a newline, `Body[m]` bytes and `\0`;
a position in the stream is a byte of an answer. A chunk ends anywhere (`Places`).

| Variable | In the program |
| --- | --- |
| `wrote` | answers the server has written |
| `msg`, `off` | the next byte to read |
| `from`, `deaf` | what `_buffer` holds: bytes `from..off-1` of answer `msg`, behind the rest of earlier ones if `deaf` |
| `reading`, `shown` | `async_read` is armed; what `HandleMessage` emitted, and how much of it was missing |
| `rode`, `cut` | history: answers that began in a chunk behind the end of another; the harmful places where a chunk ended |

| Operator, action | Code |
| --- | --- |
| `Packet`, `Data` | `_packetSize`, and what `toPacket` writes (message.h:43-76) |
| `Command`, `Parses` | `BaseCommand(msg)`: `getline` and `stoi` of whatever `_buffer` holds |
| `Complete`, `HandleMessage`, `Clear`, `Keep`, `Chunk` | `AsyncReadResponse` (command_handler.cpp:49-115): `getline` up to the first `\0`, `consume` of all the rest, the comparison with `_packetSize` |
| `Write` | `SendResponse` |

Bodies are one line and have no digits where `stoi` looks for a number: the module counts bytes and
digits, and a body that begins with digits would be one more thing for `stoi` to misread. Once
`_buffer` begins with the rest of a lost answer, what follows is never parsed as an answer again (`deaf`).

### ClientWindow

| Variable | In the program |
| --- | --- |
| `seat`, `task` | `session:<id>` exists; the sign-ins and sign-outs of other clients under way |
| `channel` | events published on `users:activity` and not yet consumed by `RedisSubscriber` |
| `list`, `answer` | what `GetUsersList` has asked of Redis so far; the list in each answer |
| `row` | the table of users |
| `late`, `doubt` | history: by answer, and for the table, the users about whom it may be wrong |

| Action | Code |
| --- | --- |
| `LoginEvent`, `CreateSession` | `Login`: publish first, then the seat (server.cpp:972-984) |
| `DeleteSession`, `QuitEvent` | `Quit`: the DELs first, then publish (server.cpp:867-879) |
| `Untold` | the key expires; `UpdateActivity` makes it again |
| `Ask`, `Answer`, `Requested` | `GetUsersList`, `EXISTS` user by user; what the window asks for after `GetRole` |
| `ReadChunk`, `LoadJsonToTableView` | `OnGetUsersList`, main_window.cpp:224-281 |
| `RedisMessageReceived` | main_window.cpp:11-33 |

Redis delivers a channel's messages in order and loses none while the subscriber is connected.

### ServerFraming

Bytes are positions in the stream: `ends[m]` is that of the `\0` of message `m`, `arrived` and `head`
delimit what `_buffer` holds. A message's contents do not matter, only where it lies.

| Action | Code |
| --- | --- |
| `SendCommand`, `Leave`, `ClientDies` | `CommandHandler::SendCommand`; `~HelloWindow`; no `Quit` |
| `Receive`, `Disconnect` | `async_read_until`: bytes arrive, or an error does, while no terminator is in the buffer |
| `ReadMessage` | the handler: `getline` consumes the n bytes of the message (or what is left of it), `consume(bytes_transferred)` up to n more; a `Quit` closes; a message without its beginning throws out of `stoi` and ends the process, or is taken for another command |

`LostOnlyBehind` says exactly how far that second `consume` reaches. Two commands of one length sent back
to back, as `GetRole` and `GetFileList` by `SetupWindow` (main_window.cpp:90-91), lose the second
without a trace when they arrive together; a client that awaits each answer loses nothing. `LoginSessions`
lets the second of those two arrive or not; a lost button press is no step, a lost `QuitSession` is its
`ClientDies`, and the end of the process on a torn message is its `Crash`. Not covered is a `Login` lost
behind the `QuitSession` of the window just closed: `LoginAnswered` is about logins the server has read.

## 3. Runs

| Run | Instance | Shows | States |
| --- | --- | --- | --- |
| `login_sessions` | 1 user, 2 clients, 2 threads, 2 tokens, TTL 1, 2 logins, 2 troubles (failing calls, crashes, a recovery) | the safety properties and the refinement of `SeatRegistry` | 1,419,730 |
| `login_sessions_live` | 1 user, 1 client, 2 threads, TTL 1, 2 logins, 1 trouble (a failing call or a crash) | `TokenEnds`, `LoginAnswered` under fairness, across failing calls and a restart | 181,997 |
| `login_lockout` | as small | finding: a seat nobody holds and that never expires | violation |
| `login_error_token` | as small | finding: "Error" taken for a token | violation |
| `permission_files` | 2 users (both root), 2 threads, 3 nodes, 4 requests, 2 permission strings | the tree, names, rights, and who changes what; the file list shows the tree; the refinement of `FileService` | 871,935 |
| `permission_groups` | 2 users (one to be registered), 2 threads, 2 nodes, 2 groups of a name, 1 fault | groups, memberships, accesses | 396,533 |
| `dispatch` | 2 clients with 2 and 1 requests, 2 addresses, 2 threads, 1 or 2 transactions a handler, 1 fault of PostgreSQL or Redis | whose answer goes where, which requests come to nothing, what ends the process; the refinement of `RequestBoard` | 2,097,107 |
| `client_window` | 1 user, 2 workers, 5 answers, 3 turns | what the window takes for answers, when its table is true | 1,233,941 |
| `server_framing` | 4 messages of lengths 1 to 3, cut anywhere | order, extent of loss, nothing left unread or unclosed | 31,924 |
| `permission_add_file`, `permission_root`, `permission_register` | the operations concerned | findings | violation |

Why the bounds suffice. Users do not share keys, rows or seats in `LoginSessions`: one user is
enough for every property, but for a form that takes the token of another user (`raced`), which is left to the theorems; two
clients, threads and tokens make each pair of handlers overlap,
in each order, with a tick, a failing call, a restart or a recovery at every point, and any two of these three together: a
recovery that ends with an error, or goes on after a crash. The liveness run makes do with one
client: its properties are about one form and one token, and a client that dies or closes its window and
signs in again still overlaps its own earlier requests. With TTL 1 a key set before a tick is gone and one set after it is there,
so that the token and the seat, set at different moments, run out in either order; the runs of the findings have TTL 2. In `PermissionStore` four requests are a creation, a deletion, a
creation under the same name and a handler in flight across all three; three nodes are a directory, a
file in it and the root; two makings of one group name are the reuse the hazards are about;
two permission strings, which differ in each class, show a mix of two changes of rights. In
`ServerFraming` lengths 1 to 3 let the second `consume` take a message whole, in part, or one and the
beginning of the next; the fourth message shows what is read after a torn one. Backups come in any number, before a recovery and after it. In
`Dispatch` one client does not await its answers and the other does: two tasks of one connection meet, and two of
two connections; with two addresses and up to two transactions a Session goes, and another is made in its place,
between any two steps of a task. In `ClientWindow` the answers are `GetRole`, the list of users, an answer with two digits, one that is not
shown, and a second list; users do not share a key or a row, so one is enough; two workers make two requests of one user overlap. A turn is a
login, a quit, a change nobody tells or a chunk that ends inside an answer: three of them in every mixture, two of them inside one answer or
in two. Bodies of 3 and 4 bytes have every place where a chunk may end: each byte of the header, the
body, the last two bytes; the bound of ten million keeps the size within its eight digits. The
theorems below carry the same safety properties, and the refinements, to all sizes.

The tasks in the pool (`MaxQueue`), logins, troubles, recoveries, faults, nodes, groups, requests, cuts and turns are bounded
by guards, each named in its module. `CHECK_DEADLOCK FALSE`: with bounded requests, and users who need not press any button,
the system may come to rest. Clients, threads and tokens are interchangeable in `LoginSessions`, threads in
`PermissionStore`, threads and addresses in `Dispatch`, so their permutations are symmetries in the safety runs; in `permission_files`, where both
users are root (which lets them read and write, and counts for nothing in `IsUserOwnerOrRoot`), the two users are, too, each with his group. The liveness run and
`client_window` use none.

Fairness (`FairSpec`): the pool's threads run (`WF` on each thread's step; `io_context::run` is never
left while there is work), so does a `pg_restore` that was started (`WF` on `Restore`; the live run starts none), and Redis expires keys (`WF` on `Tick`). Nothing is assumed of the users
or the clients. That suffices for `TokenEnds` even when a client sends requests for ever, since no
request prolongs `auth:`; and for `LoginAnswered`, since every branch of `Login` sends, unlike the
branches that find no token. `LoginAnswered` is about the server: every login it has read is sent an answer (`pending`), unless the server goes down. `Arrive`
models both readers of the client's socket, and when the `async_read` that `Connect` started takes the answer (command_handler.cpp:27),
`HandleMessage` drops it and the form stays frozen with the answer sent.

`Dispatch` and `ClientWindow` state safety only. That no request is forgotten is `NoneForgotten`: what was read is answered or refused,
queued or with a thread, and threads that run then come to it, unless the process ends; or it went astray, which happens only
if its client did not await its answers or some client left a task behind.

`ServerFraming` assumes that the bytes of a running client arrive (those of one that left may be lost, in
the middle of a message too), that the end of a connection is reported, and that the `io_context` runs its handlers: `WF` on `Receive`
while the client is up, on `Disconnect` and on `ReadMessage`, none on the client.

### Findings

1. `login_lockout`: `UpdateActivity` runs before `ValidateRequest` and writes `session:<id>`
   unconditionally. After a quit or an expiry it makes the key without a TTL, and every later login is
   told "Session exists" until somebody deletes the key (server.cpp:900).
2. `login_error_token`: the login form takes any unknown answer for a token (hello_window.cpp:97).
3. `permission_add_file`: "added to group" is answered although no row was updated
   (20241201_05, line 54).
4. `permission_root`: the comment says owner or root, the root flag is a variable nobody sets
   (20241202_01, line 21).
5. `permission_register`: "Success" for an account that was not made (server.cpp:993).

## 4. Proofs

All theorems are checked by TLAPS (Z3, Zenon, LS4), for any users, clients, threads, tokens, names,
groups, addresses, answers and bounds, from the ASSUMEs at the head of the modules: the TTL is positive, -1 is no user,
tokens differ from the answers that are none; `<login>_group` is injective, the names typed are
not 'root', permission strings are those the dialog can make.

`LoginSessionsProofs`: `Invariance` is `Spec => [](TypeOK /\ SessionInv)`. `LiveTokenGuarded` and `OneSeat` are not
inductive: that the seat outlives the token depends on what the thread that will set it knows.
`SessionInv` says it, thread by thread: from `IsUserActive` to `EXPIRE` a thread whose user has not
`raced` is alone with that user, the user holds no earlier token, and its token is its own; between
`DEL auth:` and `DEL session:` nobody holds one; tasks and clients name tokens that are dead or their own user's, or that user has `raced` (`Fits`). From it
`TypeCorrect`, `TokensAreGuarded`, `OneTokenPerUser` and the action property `DeadTokens`.

`LoginSeatsProofs`: `SignInIsRegistry`, the refinement. Every step but one only takes tokens away
(`OnlyTakes`, so `TakingReleases`); the last call of a login is a `Grant`, by the invariant's "no
earlier token".

In the same module `RowsInOrder`, `OneRowPerUser`, `TokensHaveRows`. `RowInv` adds what a login
knows of its row: it inserts exactly if no open one is committed at that moment, and after its commit there is one; that
nobody closes it meanwhile is again `SessionInv`. `RestoreOK` is what is true between the stages of a recovery: one `pg_restore` is under way,
unless two overlapped and everybody is `mixed`; from `DROP` to `COPY` the only rows there are, or are about to be committed, are those
of the mixed; so that the at most one row of the file (`FewRows`) is all `COPY` leaves anybody else. Whose row is gone is in `unrowed`.

`PermissionStoreProofs`: `Invariance` is `Spec => [](TypeOK /\ StoreInv)`. `Rooted` needs that a
parent read by `AddFileToPath` was a directory with a smaller id and that ids are never reused;
it needs, too, that a checked file is not 'root', and that what is about to be deleted is the checked file or another of its name made since
(`ThreadOK`). From the invariant `TreeIsRooted`, `NamesAreUnique`, `NoDanglingGroup` and `OwnersDecide`.

`StoreAnswersProofs` goes on from there. `AnswersHold`: a thread has seen a node of the name in its request (`SeenOK`); what a
change of rights has set so far stays (`Changed`), since another change of the file has spoiled both (`Apart`) and no other handler
updates rights; an access that was answered is in the log (`Logged`), which gives `AccessesAreLogged`. `RightsAreAsAsked` needs besides
that the three bits `SetMask` makes of a class come out again, through the UPDATEs and the column of the list (`BitsOf`, `MaskIs`, `ShownIs`), for
every string.

The same module has `FilesAreServed`, the refinement of `FileService`. Each action is given the step it is to the users
(`CreateRefines` ... `SetRightsRefines`), the others are `HiddenStep` or `AnswerRefines`. Besides the invariants above that needs `ServiceInv`: a thread at
rest has no request, one with an answer is about to send it, who deletes was asked to delete and aims at a file there was, and who is about to insert
has found the directory its path ends in. That directories keep their names, and that a checked file was made by who asked, is in
`StoreInv`; that the bits that `SetMask` takes apart come out as `Granted` is the argument of `RightsAreAsAsked`.

`FileListsProofs`: `ViewIsTree`, `FileListIsTheTree` for every tree and every order. The rows, their paths and the JSON are recursive
functions; the proof goes by induction on their rounds, on ids (a parent's is smaller: `Rooted`) and on rows. The library's
induction theorems need a predicate as an operator; `Induction` has it as a set of numbers and is proved from the theorems on
finite sets (`Reached`). Every node gets a row, and one only (`EveryNodeHasRow`, `OneRowEach`); different nodes
have different paths, since their last names differ, and what begins a path is its parents' (`PathsDiffer`, `Beginnings`); after i rows
the JSON is exactly what those rows say (`JsonIsRows`), because a row's parents came before it; and every item is shown, because whatever has
something below it is a directory (`ItemsAreRows`).

`ServerFramingProofs`: `CommandsInOrder` and `LossIsLocal`, for any lengths and number of messages. What
was read ends at or before `head` (`ReadsBelow`), messages are consecutive (`Increasing`), and `head`
passes the end of a message by at most that message's length.

`DispatchProofs`: `IInvAlways` is `Spec => []IInv`, in named parts. `WasRead`: a request in the queue or with a thread
is one that was read; `OneTaskEach`: and is there once. `AtHome`: a task's address is that of its client's Session as long as that client
left nothing behind, which gives `HomeAlways`. `HasString`: between `Write` and
`SendResponse` the string is the thread's own, or the request has met another at it (`FreshAlways`). `Answered`, `Unanswered`: a request
is answered or refused in one step of its handler, and not before. `OwnBusy`, `Linked`, `OwnConnection`: while nobody left a task behind, the thread that has a
connection is that of its task, alone unless its client was hasty, and the connection is up; with them a step
goes astray only for the causes `NoneForgottenAlways` names, and what ends the process is a fault or a race for
the string (`DownHasCauseAlways`).
`RequestsAreAnswered`, the refinement of `RequestBoard`, takes these parts together, action by action; the order of answers needs one more, `Awaited`: who
has always awaited his answers has them all but the last.

`ClientWindowProofs`: `SInvAlways`, for any answers of bodies of 3 bytes or more and any cutting. `Behind`: what was shown lies
before what is in the buffer (`OrderAlways`); `HeaderWhole`: without a cut in a header `_buffer` starts at the beginning of its answer and is
parsed as what it is (`MisreadAlways`); `Harmless`: without a harmful cut each answer behind `msg` was shown, is silent, or
began in another's chunk (`HeardAlways`). A chunk that
ends in the body of an answer parses only if `_buffer` began in its header; what is left of one that was shown begins behind it, and never parses.
`WindowReads` is `WSpec => Spec`: all of this holds in the window.
`TableInvAlways` has, for every user, what the sources of his row agree on: while there is no doubt about him one request at most is
at his seat (`AloneAt`); the last event on its way says what the seat is, or is to be (`EventsOK`); without one the row says it (`RowOK`);
and a list that is not late about him says it when nothing about him is under way, even if the table is in doubt (`ListOK`), so that a new
table is right. From these follows `TableAlways`.

Model-checked only: liveness (`TokenEnds`, `LoginAnswered`, `Consumed`, `LeftIsClosed`), which TLAPS does not reach. Every safety
property and every refinement that a passing run checks is a theorem.

## 5. Plan

Done, in this order: `LoginSessions`, `SeatRegistry`/`LoginSeats`, `PermissionStore`, `ServerFraming`, `FileLists`, `Dispatch`,
`AnswerStream`, `ClientWindow`, backup and recovery in `LoginSessions`, `FileService`/`StoreService`, `RequestBoard`/`DispatchBoard`, with the proofs above. Left:
what a recovery does to accounts, files and groups made since the dump, in `PermissionStore`.

## 6. Not modelled

- The list of groups and its view, which show the joined rows of `groups` and `user_to_group` as they are.
- The answer "Error" of `GetUsersList` (server.cpp:787), when Redis or PostgreSQL fails in it.
- Hashing and random numbers (a password is right or wrong, a uuid fresh), observers and logs,
  configuration and build, widgets and their layout.
- The statements of `pg_restore` one by one (its three stages are modelled), and what a recovery does to accounts, files and groups made since the dump.
- The blocking `ReadResponse` of the login form byte by byte: `LoginSessions` has which of the two readers takes which answer.
- The buffer of a temporary string in `async_write` (server.cpp:162): only an answer longer than the socket's
  buffer is exposed.
- The join of the subscriber's thread (main_window.cpp:687): nothing in the code bounds when the next event comes.
- The shutdown of the pool, which no path of `main` reaches while requests run.

Redis and PostgreSQL are modelled as the code uses them: keys with TTLs, a channel in order, transactions that see what was
committed, unique and foreign keys, cascades.
