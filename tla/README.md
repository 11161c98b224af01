# Verification of the IMS gateway

This directory is a TLA+ development of the programs of the IMS gateway: a
PX30 board that talks to a microcontroller (MCU) over a serial line, takes
pictures and sends them to a server, and is brought into a home network by a
phone. The modules are translated from the code under `src/`; TLC checks them
on small instances and TLAPS proves some of their properties for every instance.

The repository keeps a directory per version (`v001` ... `v008`). What is
modelled is the newest version of each program, and the older programs that do
something else:

| program | source | module |
|---|---|---|
| serial packets | `src/v008/IMS_uart.py` | `Frame`, `PacketReader` |
| UART listener and shutdown | `src/v008/IMS_uart.py` | `UartReceiver` |
| register files | `src/v008/IMS_uart.py` | `RegisterFiles`, `RegisterStore` |
| command directory | `src/v008/IMS_uart.py` | `CommandSpool`, `CommandDelivery` |
| provisioning server | `src/v005/restapi.py` | `RestApi` |
| access point programs | `softap_restapi.c`, `softap.c` (`src/v005`), `softap_rockchip_hj.c`, `softap_webserver2.c` (`src/v002/softap_webserver`), `softap_webserver2.c` (`src/v001/softap_webserver`) | `ApPrograms`, `AccessPoint` |
| camera, rotation, image server | `src/v005/pic_sender.c`, `src/v005/rotate.py`, `src/v002/pic_sender/server_jpg.c` | `ImagePipeline` |
| stand-alone camera | `src/v005/take_pic.c` | `Capture`, `Photography` |
| direct sender, server in JavaScript | `src/v002/pic_sender/pic_sender.c`, `src/v002/pic_sender/server_jpg.js` | `DirectSender`, `ImageServerJs` |
| WiFi setup web server | `src/v002/softap_webserver/softap_webserver.c`, `softap_webserver2.c` | `WifiWebserver` |
| UART prototype with retries | `src/V006_개발중/uart/uart_ims.py` | `UartRetry` |

## 1. Inventory

### How the parts interact

    MCU --serial line--> listener thread --JSON register files--> (server side)
    (server side) --send_data/*.json--> main thread --serial line--> MCU
    MCU register 0134 = 1 --> listener --exec--> softap_restapi --> restapi.py
    phone --HTTP--> restapi.py --wpa_supplicant.conf, reboot--> home network
    cameras --> pic_sender --> rotate.py --> pic_sender --TCP--> server_jpg
    (older) phone --HTTP--> softap_webserver --nmcli--> home network

The gateway program `IMS_uart.py` has two threads that share the serial port and
the flag `running`; everything else communicates through files, through the exit
of a program, or over a socket. Whoever reads the register files and writes
`send_data/` is not in the repository, and neither is the MCU.

### Components

| component | state | operations | what is hard | what makes it correct |
|---|---|---|---|---|
| UART listener | bytes read so far, pending fields, register files | read header, read body, check, store, run the access point program | no start code search, reads that end early, a full driver buffer, a program that may never end, saves that fail unnoticed | only reported values are stored; nothing read is dropped, repeated or reordered; a failed save costs its file at most; it finds packets again |
| Shutdown | `running`, the port | interrupt, flag, `join(timeout=5)`, close | the listener may outlive the join | no read on a closed port; the port is always given up |
| Command directory | files in `send_data/`, the file in hand | list, load, send, remove | files that are being written, replaced or broken; stops between two steps | no command is lost; repetition has a reason; one bad file delays nobody |
| Register files | one JSON file per group of registers | read, empty, write | a stop or a failure between `open('w')` and the write | a save changes its key only; a mishap costs one file at most |
| Provisioning server | `REGISTERED_USERS`, its file, `wpa_supplicant.conf` | register, delete, reset, load, reboot | half-written files, failing calls, lost clients, the next request before the reboot | memory and file agree; acknowledged users stay; a reboot finds its configuration |
| Access point start | hostapd, dnsmasq, their files, addresses, iptables | write the files, `killall`, `pidof`, `kill`, start, flush and append rules, serve | processes that die later than `killall` returns, commands nobody checks, torn files, a second start beside the first | a server that waits has a complete access point; rules do not pile up |
| Camera pipeline | image files, connections, the server's count | take, rotate, connect, send, receive | results nobody looks at, writes that tear a picture, output that becomes input, a backlog, exits on both sides | a file holds what its connection brought: all that one image file held, and a whole fresh picture, turned once, when the run had no failure |
| Stand-alone camera | one mapped buffer per camera, image files | open ... STREAMON, QBUF/DQBUF, STREAMOFF, write | a failing call leaves the driver streaming; the next camera goes on; a full disk | a camera that did not fail itself saves its last frame of this run |
| Direct sender and JavaScript server | connections that overlap, their files | take, connect, send; connection, data, end | several connections at once, boards that vanish | files do not mix; nobody waits for a lost board |
| WiFi setup web server | the hotspot, one buffer, the connections | open the hotspot, accept, read once, parse, join or reopen | late bodies, `strtok` and fields it loses, clients that leave or stay silent, a join that fails | what the board joins comes from the request in hand; it is left without hotspot and network for named reasons only |
| UART prototype (V006) | retries, requests under way, register files | read, check, store, ask again | an answer that comes in a later call, noise in the quantity, reads out of step, a test switch that is left on, saves that fail unnoticed | a quiet line means the files are current; requests come to an end when the switch is off |

`PROJECT.json` lists every component with its sources and status, and the
hazards with the lines where they bite.

## 2. Modules

Every module is a state machine with `Init`, one action per operation, `Next`
and `Spec`; variables, constants and history variables are described where they
are declared. Definitions introduced by "Variant" are what a plausible mistake
would make of the definition that follows them. `Next` uses none of them; they are
there to show that the properties notice the mistake.

**`Frame`** is pure: `calculate_checksum`, `verify_checksum`,
`extract_data_fields`, and the `Packet` that `process_json_and_send` builds. The
XOR is defined bit by bit as a parity, so that the module has no recursion and
can be used in proofs. **`PacketReader`** declares what both programs that read
packets have: the reports, the mapping table, the bytes on the line and the files.

**`UartReceiver`** has a byte per step on the line. `DeliverByte`, `LoseByte`
and `OverflowByte` are the line and the driver's buffer; `TakeByte` is
`ser.read` collecting bytes, and `ReadReturns` says when it gives back what it
has: when it is complete or `TIMEOUT`, the deadline of the whole read, has passed.
Between packets that needs no assumption; inside one, with `Pauses`, it may happen at
every byte, because the MCU pauses or the read began late. The header branch
(`AcceptHeader`, `DiscardHeader`), the checksum (`AcceptPacket`,
`RejectPacket`) and the loop over the fields (`RunSoftap`, `SaveField`, `SaveFails`,
`SkipField`, `PacketDone`) follow `receive_data_and_save` and
`process_received_data`, exceptions included: a short header and a short body
raise `IndexError` and are gone, and a missing mapping table ends a packet at
its first field. `stop_uart_listener`, `Join` and `ClosePort` are the `finally`
clause of `main`. History: `reported`, `latest` (what the files would hold),
`gap` (a byte was lost), `cut` (a read or the opening of the port split a
packet). `SaveField` is one step; `RegisterFiles` shows why it may be. `SaveFails` is
the `except` clause of `save_data_to_file`: the value is dropped, with or without the
contents of its file, and the loop goes on as if nothing had happened. `missed` has the
keys this has cost and no later save has mended, and `applied` what the files would hold
otherwise.

**`RegisterFiles`** is `save_data_to_file` call by call: `Load`,
`OpenForWriting`, which empties the file, and `Dump`. `CallFails` and `Stop` may
come between any two of them, and a file that does not parse is loaded as an
empty one, as the `except` clause has it. `torn` is what a file is between open
and dump; `damaged` remembers files that were left so. **`RegisterStore`** is the
promise: a save changes one key in one step, and a mishap costs one file's values.
The mapping counts a file that is being written by what was loaded from it, and
the mishaps to come by the bounds.

**`CommandSpool`** follows `check_and_process_server_json` one call at a time,
with a server that creates a file and fills it later, gives up, or (with
`Overwrites`) reuses a name. `Stop` ends the gateway between any two steps.
A command is a model value of one of three classes: `Sendable`, `Unmapped`
(no mapped key: nothing is sent and the file is removed), or neither (its
conversion raises). **`CommandDelivery`** is the abstract promise: submitted
commands are delivered before they are retired. `CommandSpool` implements it
under the mapping in `Delivery`.

**`RestApi`** has a request as a sequence of steps: `Register` (or `do_DELETE`,
`reset_users`), `OpenUsers`, `DumpUsers`, `OpenWifi`, `WriteWifi`, `Reply`,
`reboot_system`. A file is torn between open and close. `FileFault`, `Hangup`,
`PowerCut` and the `ShutDown` that a reboot causes may come between any two
steps. `Start` is `load_registered_users`, which a torn file ends for good.

**`ApPrograms`** is data: every function of the five access point programs is the
sequence of the commands it runs, and `Script[p]` is what `main` of program `p`
runs. The programs have the same functions and differ in the interface, which in
v001 is that of the uplink, and in the server at the end, which
`softap_rockchip_hj` has not; each has its own copy, and so its own
definitions. **`AccessPoint`** executes
them: an instance is a position in the script, and there is one action per kind of
command (`OpenConf`, `WriteConf`, `killall`, `get_pid`, `KillPid`, `StartDaemon`,
`ifconfig`, `Forward`, `iptables`, `StartServer`), since `console_run` does nothing
between two of them. A daemon that was told to end lives on until `Reap`; one that is
started before that finds its port taken and ends. `CommandFails` skips a command,
`Interrupt` ends an instance and leaves the daemons, and `PowerCut` leaves the
files as they are. Two instances stand for a gateway that is started anew and
runs the program beside the one whose server still has the port.

**`WifiWebserver`** is the loop of `softap_webserver.c` with the calls of
`start_softap_mode`, `stop_softap_mode` and `start_station_mode` as steps of `pc`.
`NmHotspot` says whether NetworkManager owns the hotspot, as in
`softap_webserver.c`, or hostapd, as in `softap_webserver2.c`; `SplitBody`, whether
a body may reach the socket after the header, which the one `read` does not see.
What a phone types is a sequence of tokens: none for an empty field, two for a name with
a comma in it, and any of them may be `ssid` or `password`. The page sends both
fields, whatever is in them, and `Body` is what `strtok` finds of them. `ValuesOf`
follows the loop that looks for a key and takes the next token; `handle_post_request` ends
the program when there is none (`strdup(NULL)`). Clients
connect, deliver and hang up in any order, or stay and send nothing, and a send to a
client that is gone may end the program with SIGPIPE. `CommandFails`, `AcceptFails` and
`HtmlMissing` are its other exits.

**`ImagePipeline`** has the sender's run (`take_picture`, `rotate.py`,
`client_jpg_sender` for each camera), the connections in the order they were
made, and the server's loop. Names are `<<camera, k>>`, `k` the number of times
`rotated_` stands before `image<camera>.jpg`, because `rotate.py` also turns
what it made before. A file is a record of the run its picture was taken in, the
turns, its length and whether it is `torn`: `fwrite` and `imwrite` may fail, and a power cut may
come, after the file has been emptied (`Torn`). A torn picture keeps its name, is loaded
by `imread` or not, and is sent like any other. `ConnectGivesUp` is a connect that
fails although the server is there. `clean` remembers with each connection the run that made it, when
nothing had failed in that run, and `faults` bounds what fails.

**`DirectSender`** has the actions in which the older sender differs: no
`rotate.py`, and a camera's turn is picture and connection.
**`ImageServerJs`** composes it with `server_jpg.js`, whose event loop takes up every
connection at once: `open` is the number of the file each of them is written to.
`JsError` is the reset of a connection whose board is gone; nothing obliges it to come.

**`Capture`** is `take_picture` call by call beside the V4L2 driver, which owns the
one buffer between `QBUF` and `DQBUF` and fills it with the next frame.
`CallFails` closes the device and goes on with the next camera, and does not
unmap, so the driver goes on streaming. **`Photography`** is the promise:
cameras have turns, and in its turn a camera's picture becomes damaged or one of this
run.

**`UartRetry`** is `receive_data` of the prototype on the same packets: the port is
opened in a silence or inside a packet, a packet
reaches the line in one step, with a bit changed in it or not (`Send`), a read
takes what is there, and a wrong checksum makes a request (`Request`) that the MCU
answers by repeating its last packet (`Answer`) or that is lost. `Retried` is the
loop condition. A save may fail (`save_data_to_file`), with its file emptied or not, and the
packet counts as processed all the same: `missed` has the keys. `force_crc_error` is
the parameter of that name, with which `main` as committed (line 173) spoils every checksum to
test the retransmission. It is a variable that never changes, and the runs and theorems speak of both
values. With it on, nothing is ever stored and a packet is asked for again and again, in call
after call; `TestMishaps` says whether there is also noise then, or a port opened inside a packet.

`*Proofs` modules hold the theorems; `MC*` modules give instances for TLC.

## 3. Runs

| run | instance | what it shows |
|---|---|---|
| `uart_mixed` | packets of two fields, one starting the access point; a buffer of three bytes, bytes lost while the access point program runs, pauses, port opened anywhere, 1 failing save | `StoredWasReported`, `IdleMeansUpToDate`, `NoReadOnClosedPort`, `InterruptClosesPort`, `BodyReadEnds` |
| `uart_singles` | one-field packets, an MCU that always sends and does not pause, port opened anywhere, 1 lost byte | `KeepsFindingPackets` holds: 8-byte packets realign under 3-byte discards |
| `register_saves` | 3 keys in 2 files, 2 values, 2 stops, 1 failing call | `SavedStays`, and `ImplementsStore`: three calls amount to one step |
| `spool_new_names` | 2 names, 4 commands, 1 stop, 1 fault | `NoCommandLost`, `BoundedRepetition`, `EveryCommandSent`, `DeliveryKept` |
| `rest_mishaps` | 2 users, 2 networks, 2 power cuts, 1 fault, 1 lost client | `MemoryIsOnFile`, `AcknowledgedIsOnFile`, `RefusedWereAcknowledged`, `RebootsConfigured`, `RegistrationReboots` |
| `rest_overlap` | no mishap at all | `StartLoadsUsers` is violated |
| `softap_starts` | five programs, 3 starts, 1 failing command, 1 stopped program, 1 power cut; two instances of `softap_restapi` at the same time | `ServerHasAccessPoint`, `RulesOnce`, `StartBringsAccessPoint` |
| `image_runs` | 2 cameras, 2 parts, 2 runs, 1 fault (a capture, a write that tears its file, a turn, a connect), 1 server exit, 1 power cut | `ReceivedInOrder`, `WholeOrEmpty`, `SentIsFresh`, `RunEnds`, `EveryConnectionServed` |
| `js_runs` | the same with the direct sender and `server_jpg.js` | `JsReceivedInOrder`, `JsRunEnds` |
| `capture_runs` | 3 cameras, 5 frames, 2 runs, 2 failing calls, 1 power cut | `SavesSettledFrame`, `CaptureEnds`, `ImplementsPhotography` |
| `web_setup` | 2 clients, right and wrong networks, names that are field names, of two tokens or empty, a password that is a field name, late bodies, silent clients, 1 failing command, 1 hangup | `NeverStranded`, `ConnectsAsTyped`, `EveryRequestServed` |
| `retry_noise` | 2 packets of two fields, the test switch off or on; when it is off, the port opened before or inside the first, 2 of them or of their repetitions spoiled; 1 request lost or save failed, 2 retries | `QuietMeansCurrent`, `ExchangeEnds`, `TestGoesOn` |

`uart_mixed` also checks `ReceiverTypeOK`, `softap_starts` and `image_runs` check `TypeOK`, `retry_noise` checks `RetryTypeOK`;
the type invariants of the other modules are theorems or parts of the inductive
invariants of section 5 (`JsTypeOK` for `ImageServerJs`).

### Bounds, and why they are enough

* `BufferSize` stands for the driver's 4096 bytes: a packet is far smaller than
  that and the buffer only overflows while the access point program runs. In
  `uart_mixed` a buffer of three keeps the header of a packet whose body is then
  dropped, the body that only the timeout ends (`BodyReadEnds`); in `uart_singles`,
  where nothing starts the program, a buffer of one hands the bytes on. Field values are few but real: those of `Seiral.txt`, plus
  two that make a misaligned packet with a good checksum. One failing save is one that
  leaves its file empty or not, with another field behind it and later packets that may mend it.
* Three keys in two files give a save one neighbour in its file and one outside; two
  stops let a file be torn, used afresh and torn again.
* Two names and four commands let a listing hold a good file behind a bad one, a
  name be used twice, and a stop fall between every two steps. Stops and faults
  can be traded for one another in `BoundedRepetition`; one of each shows both.
* Two power cuts let a restart of `RestApi` be interrupted by the second one.
* Three starts of an access point program give two complete ones after one that was
  hit by a mishap, or two that overlap and one after them. Only `softap_restapi` may
  overlap (`Overlapping`), because only the listener starts a program by itself, and
  only before any mishap: what a mishap leaves is met by the starts that do not
  overlap, and each of the others adds the square of its length.
* Two runs of a sender give `rotate.py` output of an earlier run to work on,
  and `Backlog = 0` lets one connection wait and the next one block.
* `Frames` is 5 instead of 20: the loop counts, and knows nothing of the number. Three
  cameras put one before and one behind the camera that fails.
* One fault in `image_runs` tears or spoils one file in the first run, whose output the second one
  has to work on; a second one would excuse the second run as well.
* Two clients are one that is served and one that waits behind it; their requests are
  those that the parser tells apart, in one segment or two.
* `MaxRetries` is 2 instead of 3, so that two spoiled packets use it up, and the test switch
  goes past it. Two packets are one that is asked for again and one that comes before the answer.
  `TestMishaps` is off: the switch spoils every packet as it is, and noise beside it adds states only.
  `NoisyBytes` are the quantity, which sends reads out of step, and a value. The
  lowest bit (`Masks`) makes a quantity of 2 a 3: the body then takes four bytes of
  the next packet, or comes short at the end of the line. With two fields in every
  packet the instance is one of the theorem `QuietCurrent`, whose conditions
  `MCUartRetry` evaluates.

`CHECK_DEADLOCK FALSE` is set where the system may stop: the gateway after its
shutdown, the provisioning server that cannot load its users, the access point
programs and the sender after their last start, the web server that has exited, and
the prototype after the last packet. `RegisterFiles` and `CommandSpool` never stop
and are checked for deadlock.

### Fairness

* `UartReceiver`: both threads are scheduled (weak fairness of the listener and
  of the main thread after an interrupt) and the line delivers. The MCU need not
  send, except in `BusySpec`; nobody need interrupt; the access point program need
  not end (`SoftapReturns` has no fairness), since `restapi.py` serves for ever.
* `CommandSpool`: the main loop goes on and a stopped gateway is started again.
  The server owes nothing. `WriteFails` and `RemoveFails` are bounded, so a retry
  every two seconds succeeds in the end.
* `RestApi`: a handler goes on and a reboot takes effect; clients, power cuts
  and the start of the server owe nothing.
* `AccessPoint`: commands return and a process that was told to end does; servers
  need not end and nobody has to start a program.
* `ImagePipeline` and `ImageServerJs`: sender and server go on while they run;
  neither runs again by itself. The event loop starves no connection. No progress rests on a
  connect that gives up (`ConnectGivesUp`) or on a reset that is noticed (`JsError`).
* `Capture`: the program goes on, and a camera that streams fills a queued buffer; one
  that is unplugged makes the call fail instead.
* `WifiWebserver`: the server goes on. Clients owe nothing: one that has connected may stay and send
  nothing, and `read` waits for it without a limit.
* `UartRetry`: the program goes on and the MCU answers the requests that reach it.
* `RegisterFiles` has none, and no liveness property.

## 4. Findings

**A registration during the reboot of another one leaves an unreadable users
file** (`rest_overlap`), and the server never starts again. `os.system('reboot')`
returns before the processes are stopped, and the server takes the next request.

### What the conditions of the properties stand for

Some properties are claimed under a condition. Each condition names something
the code does not handle; TLC finds a counterexample when it is dropped.

* `StoredWasReported` and `IdleMeansUpToDate` hold while no byte is lost (`gap`). The checksum is an
  XOR, so a lost zero byte does not change it, a short read is processed as if it were whole, and the
  checksum byte becomes part of the last value.
* `StoredWasReported` has no other condition as long as reads follow the packets. When the port was
  opened inside a packet, or a read broke off in one (`cut`), it holds for reports in which 40 occurs
  only as the set info (`InfoOnlyOnce`). Values, addresses and checksums of 40 are ordinary (0040 is an address
  of the mapping table), and for them it may then fail: nothing looks for the D1
  with which, according to `Seiral.txt`, a packet starts; the code compares the set info only.
* `IdleMeansUpToDate` leaves out the keys in `missed`. `save_data_to_file` logs a failing save and returns;
  nothing is tried again, and the old value stays, or the whole file is lost, until the address is reported anew.
* `KeepsFindingPackets` holds for 8-byte packets. Headers are discarded three bytes
  at a time, and 12-byte packets never come into step with that. It is checked without pauses: an MCU that
  pauses in every packet, or a deadline that falls into every one, may keep the listener from any.
* The properties of `CommandSpool` hold for a server that does not reuse a name
  while its file is there (`Overwrites = FALSE`): the file is removed by name, and may be
  another one by then.
* `ServerHasAccessPoint` excludes a dnsmasq that is still dying when its successor is
  started: nothing waits for it, and the successor finds the port taken.
* `ConnectsAsTyped`: the board joins what was typed when name and password are one token each and the name is
  not `ssid`. For everything else it says only that both come from the request in hand. An empty name joins a
  network called `password` (the key that follows it), a name with a comma, a colon, a brace or a quotation mark
  in it loses what is behind, and a network called `ssid` gives the key of the password. That the page's JSON escapes
  a backslash or a quotation mark, and that the shell which runs `nmcli` reads a quotation mark or a dollar
  sign in its own way, is not in the model. A body that comes later than its header is
  refused as incomplete: there is one `read`.
* `NeverStranded` excludes a password that is empty or ends in the name of a field (`EndsInKey`): there is no token behind the last key,
  and `strdup(NULL)` (lines 162 and 163) ends the program without hotspot or network. Also failing
  commands and calls, after most of which the program exits, and clients that hang up (SIGPIPE).
* `EveryRequestServed` excludes a client that connects, stays and sends nothing: `read` has no timeout, and
  nobody is served from then on. A phone that loses the hotspot the program takes down is such a client.
* `NeverStranded` is also checked with NetworkManager's hotspot only. That of
  `softap_webserver2` is hostapd, `nmcli connection down` fails on it,
  and the program exits before it has tried to join anything.
* `ExchangeEnds` is about the program with the test switch off, which is the default of the parameter but not
  what `main` is committed with. `TestGoesOn` says what that does: nothing is stored, and a packet that has come is asked for
  again and again, unless a request is lost.
* `QuietMeansCurrent` leaves out the keys that failing saves have cost (`missed`), which nothing asks for again, and
  speaks of the last packet: the request for an earlier one is answered with the last one, and what only
  the earlier one held is lost. It
  excludes headers and bodies of the wrong length, which are dropped without a request. A wrong checksum is asked about even after the last
  try, so `MAX_RETRIES` bounds the tries of a call and not the requests. It also needs
  reports and noise for which the XOR is good enough. `SplitsShow`: a read
  that begins inside a packet and ends with one must not have the right checksum, so
  the bytes it missed set more bits than noise can turn over. `QuantityShows`: two
  changes in the same place of two bytes cancel out, and when the first one is in a
  quantity the read may end with another packet and pass for a good one. One change is
  harmless; so are more when all packets have sizes with a common divisor that no
  changed bit has, since such a read does not end where a packet does.
* `SentIsFresh`, and the part of `WholeOrEmpty` and `JsReceivedInOrder` that speaks of whole pictures, are about
  runs in which every camera, write and turn worked, since nobody looks at their results: what a full
  disk tears is sent. The other part of `WholeOrEmpty`, that a file holds all of one image file, torn or
  not, and nothing else, is claimed for every run until a power cut.
* `AcknowledgedIsOnFile` and `MemoryIsOnFile` hold while no file operation has failed.

## 5. Proofs

All proofs are checked by TLAPS for arbitrary values of the constants that
satisfy the named assumptions (`ReceiverAssumption`, `SpoolAssumption`,
`RestAssumption`, `AccessPointAssumption`, `PipelineAssumption`,
`RegisterAssumption`, `CaptureAssumption`, `WebserverAssumption`,
`ReportsAssumption`, `RetryAssumption`), which say of which types the constants are.
Some theorems have hypotheses of their own, named below: `Overwrites = FALSE`,
`NmHotspot`, and, for the prototype, `SplitsShow` and `QuantityShows`.

* `UartProofs`, the packets: `RoundTrip` says that the packet built from
  any fields passes the checksum and gives the fields back. It rests on lemmas that
  bound a sum of parities (`ChecksumType`), split a word into its bytes (`WordBytes`)
  and shift indices past the header (`AfterHeader`).
* `UartProofs`, the threads: the inductive invariant `IInv` adds to `ReceiverTypeOK` what
  makes the shutdown safe (`ShutdownInv`: from `joining` on the flag is down, and
  from `closing` on the listener is not inside a read) and what makes the body
  indexable (`DataInv`: three bytes are there). `TypeCorrect` and `PortSafe`
  follow. `ReceiverTypeOK` alone is not inductive, because `AcceptPacket` indexes the
  quantity; `NoReadOnClosedPort` alone is not, because it says nothing of the
  moment in which join returns. That `Join` does not return while the listener is
  in a read is an assumption of the model: two reads of one second fit
  into the five seconds of `join`.
* `UartProofs`, the bytes: `UpToDate` (`IdleMeansUpToDate`) and `ReportsStored`
  (`StoredWasReported`). Neither property is inductive, since both speak of files and
  not of the bytes that will get there. `TrafficInv` does: as long as no
  byte was lost, what the listener has in its hands, what the driver holds and what the MCU has
  still to send are, one behind the other, a tail of a packet and then whole packets.
  Applying the fields of those packets to `applied`, which failed saves do not change, gives `latest`; and
  `MissedInv` says that the files are `applied` but for the keys in `missed`. That is `UpToDate`, once
  nothing is left. To say so every byte has a label, the packet it belongs to and
  its place there. As long as nothing was cut, packets begin where reads do. After a cut, under `InfoOnlyOnce`,
  a header that is accepted begins a packet:
  the listener may be out of step, but then it discards. What is behind that header
  is a whole packet or, when the read broke off, the beginning of one, of which the fields that
  can be extracted were reported. `InfoOnlyOnce` is no hypothesis of either theorem: it stands in the
  property, for the case after a cut only.
* `UartProofs`, the prototype: `RetryTypeCorrect` (`RetryTypeOK`) and `QuietCurrent`
  (`QuietMeansCurrent`). The property speaks of the moment when nothing is unread, and
  `CurrentInv`, which the steps keep, of little more; what makes a step keep it is that
  a read which takes the last bytes and finds the checksum right has read the packet
  that was sent last. Reads may be out of step, so `UnreadInv` says that of every place
  k where one may begin in the header in hand and the line behind it (`Unread`). Of
  the bytes from k to the end it says which bits an odd number of them sets (`Marks`):
  none, when the checksum of a read of all of them is right. Either k is inside a
  packet, and the marks are those of the bytes missed, apart from noise (`InsideAt`,
  excluded by `SplitsShow`); or a packet begins there, which is the last one if it
  reaches to the end without marks (`PacketAt`); or a packet with a changed quantity
  does, and the marks cannot vanish since there is no noise to come (`ChangedAt`) or the
  read ends elsewhere than at the end of a packet (`AstrayAt`): the two cases
  of `QuantityShows`. A packet that arrives adds no marks of its own and at most one by
  noise, for every k; a read only removes places. With the switch on, the right checksum is that of a packet whose
  last byte is turned over, and `SplitsShow` covers that as well: no read is ever good then, and from the first packet on the line
  is not quiet until a request is lost.
* `AccessPointProofs`: `TypeCorrect`, `AccessPointComplete` (`ServerHasAccessPoint`) and
  `NoRuleTwice` (`RulesOnce`), for any number of instances of any of the five
  programs. They all run one list of commands (`Common`, lemma `Commands`), which makes it
  possible to speak of numbered commands. `DoneInv` says of everything an access point
  needs that it is there, or that some instance is still before the command that makes it
  (`Before`). An instance that kills, empties or flushes is itself before the
  command that repairs it. `StaleInv` covers the daemon that reads its file too
  early: a dnsmasq with another configuration is told to end before its successor
  is started. `RulesInv` counts rules between the flush and the append of the only
  instance. The properties speak of the moment when nobody is setting up, and hold then
  because nobody is before anything.
* `RegisterFilesProofs`: `SavesStay` and `ImplementsRegisterStore`, and the type
  invariant. `HandInv` says what the listener has in its hands: what it loaded is
  what the file held, and, unless the file was ever damaged, what was saved.
  `TornInv` says that a torn file is the one being written or a damaged one. A
  stop between open and dump is then one `Mishap` of the store.
* `CommandSpoolProofs`: `TypeCorrect`, `NothingLost`, `RepetitionBounded`
  and `ImplementsDelivery`, for a server that does not overwrite
  (`Overwrites = FALSE`, stated in each theorem). The invariant says what the
  main thread knows of the file in its hands: while it is loaded, the
  directory still holds it, and from `remove` on it has been sent.
* `RestApiProofs`: `TypeCorrect`, `MemoryCorrect`, `AcknowledgementsDurable`,
  `RefusalsJustified` and `RebootsCorrect`, from one invariant that follows a
  request step by step: what is on the files and in memory at each `pc`.
* `ImagePipelineProofs`: `SentFresh` says that nothing stale is sent in a run without
  failures, for any number of cameras and runs. `Progress` says which names have
  been written in this run; the step that matters is `RotateImage`, where an
  output of an earlier run may be turned again before or after it is replaced.
  Torn files of earlier runs are in the way of none of this: a name that this run has written holds a whole
  picture of it. `OrderKept`, `WholeFiles` and `TypeCorrect` follow from `PipeInv`, which adds
  the connections: `CountInv` numbers them alike on both sides and bounds by `Left`
  how many are still to come; `FlowInv` says that `Brought(n)`, what is
  in file n and in the socket behind it, is the beginning of what the n-th connection
  was given, and all of it as long as no power was cut; `MadeInv`, that this is nothing, all that one image
  file held, which is a whole picture of the run when nothing had failed in it (`Sound`), or what the sender has come
  to in the file in hand (`Held`). `CleanInv` counts `clean` along with the connections. `ReceivedInOrder`
  alone is not inductive: it does not know what is still in the socket.
* `ImagePipelineProofs`, the server in JavaScript: `JsOrderKept` (`JsReceivedInOrder`). Connections
  that are open at the same time end in any order, so the place in the queue says
  nothing of the number of the file. `Number(k)` is the number of the connection at place `k`,
  whether or not it has been taken up, and `Carried(k)` what it has brought and has still
  on its way; `JsCountInv` says that the numbers increase and that the last one is that of the
  connection the sender is at. `JsFlows` says of each connection in the queue, and
  `JsKept` of each that has ended, that this is what the sender put into it. Taking a connection up,
  moving a part or ending one changes neither.
* `CaptureProofs`: `PicturesSettled` and `ImplementsPhotos`. `QueueInv` says that only
  cameras that have had their turn still own a queued buffer, so the driver does not
  write under `fwrite`; `FrameInv` counts the frame in the buffer along with the loop.
* `WifiWebserverProofs`: `TypeCorrect`, `ServerReachable`, `JoinsAsTyped` and `NotStranded` (for
  `NmHotspot`), whatever is typed. `BufferInv` says that the one buffer holds what the client in
  hand has asked or no body, `ServingInv` where the hotspot is up, and `ExitInv`
  how the program can end.

A note on induction. The prover has none over data: a lemma about all prefixes of a
sequence cannot be proved by induction on its length. Where a proof needs the last
element with some property (`LastFor` does, for what a packet leaves in the files),
`Largest` takes it from the well-foundedness of strict inclusion on finite sets, which
is a theorem of the library about a relation and not about an operator.

Only model-checked:

* every liveness property (`InterruptClosesPort`, `BodyReadEnds`,
  `KeepsFindingPackets`, `EveryCommandSent`, `RegistrationReboots`,
  `StartBringsAccessPoint`, `RunEnds`, `JsRunEnds`, `EveryConnectionServed`,
  `EveryRequestServed`, `ExchangeEnds`, `TestGoesOn`, `CaptureEnds`), since the prover does no liveness under
  fairness. Every other property that a passing run checks is a theorem.

## 6. What is not modelled

* A file that is closed is on the disk; sync and file system recovery are left
  out. What a failed write leaves of a picture is the beginning of the file.
* hostapd is started in the background and may read its file later than the next commands of
  the script; in `AccessPoint` it has done so when they begin. Commands of an overlapping start may come in between.
* The order of commands, which `os.listdir` leaves open and nothing promises.
* `wpa_supplicant.conf` is emptied before it is written: the state is in `RestApi`,
  but the system that reads it at boot is not in the repository, and no property
  speaks about it.
* The directory of images grows with every run of `rotate.py`; no bound is promised.
* Reads and refusals of `RestApi`, which change nothing. `send_data_to_mcu`, which
  nothing calls. Functions of the access point programs that no `main` calls
  (`wifi_dhd_*`, `eth_accesspoint_start`, `iftables_eth0_*`,
  `check_wifi_chip_type_string`, `wifi_rtl_stop_hostapd`). Logging.
* `softap_webserver.c:284` terminates a buffer of 4096 bytes behind its end when the
  request fills it; requests here are short.
* Copies: `src/v003/softap.c`, `src/v004/softap_restapi.c`, the `take_pic.c` of
  `v002` and `v003`, and the web server and senders of `v001` have the text of the
  modelled files, or differ in an interface, a device or an address. The same
  definitions stand for them; the map names one copy.
* The gateways of `v005` and `V007`, superseded by `v008`; programs that play the MCU on
  a PC; image processing (`distortion.py`, `rotate_cv.c`, `rotate.cpp` with the vendored
  `image/core.hpp`), which keeps no state; the vendored bcmdhd driver and the kernel
  and buildroot configurations.

## 7. Plan

All components that keep state are modelled. What is left:

1. The gateway as a whole: listener, main loop and both kinds of files composed,
   restarts included; then `AccessPoint`, `RestApi` and the listener's register 0134 end
   to end, from the button on the MCU to the home network.
2. The refinement of an abstract access point (down, being set up, complete) by
   `AccessPoint`, of which `DoneInv` is the main part.
