# Models of the Homegy home controller

TLA+ modules about the services of the Homegy home controller (C services under
`src/app`, glued together by a local MQTT broker and a SQLite database), the TLC
configurations that check them on small instances, and TLAPS proofs of the
properties that should hold for every size.

Line numbers are those of the files under `src/`.

## 1. The system

The controller runs one process per service. All of them are single threaded
loops unless stated otherwise; they talk through topics of a local mosquitto
broker (QoS 0) and put what they receive in a queue of their own.

| Component | State it keeps | Operations | Talks to |
|---|---|---|---|
| **BLE sender** `app/ble_process.c`, `app/main_ble.c` | frame buffer `g_uartSendingFrames`, response table `g_uartDeviceResps`, statics of `BLE_SendToGateway` | a handler per request type writes frames; `BLE_SendToGateway` sends one at a time, waits, retries, reports TIMEOUT | requests from CORE, UART to the mesh gateway, TIMEOUT to CORE |
| **BLE receiver** `app/main_ble.c` | UART ring buffer | `Ble_ProcessPacket`: marks entries of the response table, forwards answers | UART, CORE |
| **CORE requests** `app/main_core.c`, `app/core_api.c` | `g_checkRespList`, `g_groupTobeUpdated`, `g_sceneTobeUpdated`, the database | add, update, delete groups and scenes; `ResponseWaiting` | app (through the AWS bridge), BLE |
| **CORE scene engine** | `g_sceneList` with a running index and a delay per scene | `checkSceneForDevice`, `ExecuteScene`, `Db_LoadSceneToRam` | BLE, WIFI, AWS |
| **CORE device registry** `app/main_core.c`, `app/database.c` | tables `devices`, `devices_inf` (state, `offlineCount`, `last_updated`), `group_inf` | add, delete and kick out devices, take their reports, `CheckDeviceOffline`, cascades | BLE, AWS |
| **AWS bridge** `app/main_aws.c`, `app/aws_*.c` | `queue_mos_sub`, `queue_received_aws`, `g_mergePayloads`, the MQTT context, `g_awsIsConnected` | merge reports and publish them page by page, hand requests to CORE; a connection thread | cloud, CORE, CFG |
| **Watchdogs** `app/main_aws.c` | `pingServiceCount`, a counter per service, `g_mosqIsConnected` | ping, count ticks, restart; mend the local connection | all services |
| **WIFI service** `app/main_wifi.c`, `app/wifi_process.c` | a queue under a mutex, an access token with its time | a message thread, and a loop that calls the Tuya cloud with retries | CORE, AWS |
| **CFG service** `app/main_cfg.c` | set-up state, shared memory | buttons, access point, gateway information | BLE through shared memory |
| **Queue** `lib/queue.c` | bounded linked list | `enqueue`, `dequeue` | all services |
| OTA, HomeKit bridge, notification sender, start-up scripts | none of interest | downloads, adapters | |

What is hard, component by component, and what makes it correct:

* **BLE sender.** A fixed buffer that is never checked for space, a response
  table shared by all frames and matched by address and type only, retries that
  race with answers, handlers that patch the frame written last. Correct means:
  frames are lost only when the buffer really overflowed, they leave in order, an
  acknowledgement and a timeout are each told truthfully and once, and every
  accepted request is settled.
* **CORE requests.** A request spans many messages of many devices; the global
  that holds what to save is shared by all requests; the list of waiting requests
  is changed while it is walked; answers do not say what they answer; CORE can be
  restarted in between. Correct means: at the end of a request the cloud, the
  database and the mesh agree, every member got a verdict, and the end comes.
* **Scene engine.** Scenes that run and switch each other within a pass, schedules
  that must be used up, a list that is rebuilt while scenes run and edited beside
  its table, deletions that cascade. Correct means: the list says what the table says,
  a scene starts for a reason, a run executes its actions in order and once and ends,
  and nothing mentions what is gone.
* **Device registry.** Answers to polls that race with the offline check, reports about
  several devices that are cut short by one of them, devices that leave while a group
  request is under way, rows found by half of an address. Correct means: the
  cloud shows what the table says, a silent device is shown offline in the end, and no group
  keeps a device that is gone.
* **AWS bridge.** Reports removed before they are known to be sent, a deletion that
  overtakes the reports before it, two threads on one session without a lock, queues
  that drop what finds them full. Correct means: nothing is lost without a failure, an older
  report never replaces a newer one, and the session comes back.
* **Watchdogs.** Pings that a service does not see, a local connection that is
  destroyed while it is mended, restarts of services that are only slow. Correct means:
  who answers is spared, who hangs is replaced, and the connection is mended.
* **WIFI.** A mutex that is kept while the cloud is called, a call that never returns, a
  response that is left from the call before, a token that expires between
  retries. Correct means: every command ends, as done only if it was
  carried out, and is not given up for its token.
* **CFG, queue.** A flag set before its payload, messages dropped when a queue is full.

The complete list, each at its line, is `hazards` in `PROJECT.json`.

## 2. The modules

| Module | What it is |
|---|---|
| `BleChannel` | abstract: what a client of the BLE sender may rely on. A set of waiting requests, at most one in flight, each settled once as acknowledged, timed out, silent or lost. After `Capacity` silent requests it may be deaf to the answers to a request. |
| `BleSender` | the sender as it is coded, with the refinement `Channel == INSTANCE BleChannel` |
| `MCBleSender` | its instances for TLC |
| `BleSenderProofs` | type correctness, bounded loss, order |
| `BleChannelProofs` | the refinement, truthful acknowledgement and timeout, settled once |
| `GroupUpdate` | group requests from the app to CORE, BLE and the mesh and back |
| `MCGroupUpdate` | its instances for TLC |
| `GroupUpdateProofs` | type correctness, no use of freed memory, agreement of cloud and database, the group that is published, verdicts, members and removals of groups that are left in peace |
| `SceneRuns` | abstract: the runs of scenes. A run performs the actions of its scene in order and once; it starts over when it is started again, and a reload drops it. |
| `SceneEngine` | the scenes that CORE runs itself, with the refinement `Runs == INSTANCE SceneRuns` |
| `MCSceneEngine` | its instances for TLC |
| `SceneEngineProofs` | type correctness, agreement of the list with the table, dates that come once, what a cascade of deletions takes and leaves, when and why scenes start |
| `SceneRunsProofs` | the refinement of `SceneRuns` |
| `DeviceRegistry` | the devices CORE knows, their states in the table and in the cloud, and their groups when they leave |
| `MCDeviceRegistry` | its instance for TLC |
| `DeviceRegistryProofs` | type correctness, agreement of table and cloud, no unknown members, silence that is counted |
| `AwsWatchdog` | pings, counters and restarts of the other services, and the connection to the local broker |
| `MCAwsWatchdog` | its instance for TLC |
| `AwsBridge` | composes: `AwsWatchdog` with the reports from CORE to the cloud, the requests from the app to CORE, and the two threads on the session |
| `MCAwsBridge` | its instances for TLC |
| `AwsBridgeProofs` | of the watchdogs: type correctness, a service that answers is spared and one that hangs is counted; of the bridge: that it is such a watchdog, type correctness, nothing lost without a reason, order in the cloud, deletions that last |
| `WifiService` | the WIFI service: message thread, mutex, retries, token; it is its own instance for TLC |
| `WifiServiceProofs` | type correctness, what "done" and "given up" mean, order, one end for each command, no lost wake-up |

### BleSender

One variable per piece of state of the code (`frames`, `lastIdx`, `resps`, and the
statics `state`, `sent`, `failedCount`, `respIdx`, `busy`). One action per
kind of request, grouped by the three attributes of the frame the sender acts on
(type of response, priority, retries); one action per outcome of a state of
`BLE_SendToGateway`; one action for a frame that arrives. `accepted`, `broadcasts`,
`burst`, `mistagged`, `outcome`, `tx`, `heard`, `deaf` and `revived` are history: no guard of
the code's actions reads them, except the bounds on requests. `deaf` says that the response table
had no free entry when the request in flight was first sent: `respIdx` then names the entry of
an old broadcast, so that no answer is ever noticed. `revived` are the requests whose frame was given
a type again after the sender had taken it.

The full table is ordinary operation, not a corner case: the poll of states broadcasts every
`GWCFG_GET_ONLINE_TIME`, the entry of a broadcast is never freed (`ble_process.c:176-191`), and the
100 entries of the code are gone after about eleven hours. From then on requests that were
answered are reported as TIMEOUT. `NoFalseTimeout` states this as its condition, and
the refinement has it as the action `GoDeaf` of `BleChannel`.

Abstracted: the contents of a frame (it is known by the number of its request);
time (whether the timeout, or the pause after a frame, is over is a free choice,
so every timing is covered); the number of gateways (the code has one). The status
an answer carries is not looked at, as the handlers pass 0.

Two moments where the code's `switch` does more than one thing are actions of
their own: `AcknowledgeLate` is the call of state 2 that sees both the answer and
the timeout, and `Transmit` covers the first transmission, which takes an entry of
the response table, and the later ones, which do not.

### GroupUpdate

`saved` is the column `devices` of `group_inf`, `shadow` the groups in the cloud,
`mesh` the elements that are subscribed to each group, `respList` is
`g_checkRespList`, `tobe` is `g_groupTobeUpdated` with the state of its memory, and
`scan` holds the locals of `ResponseWaiting` (its index, the count read at
its start, and the request type left in its buffer by the item before). Each pass
over an item is one step, so that the walk over the list and the removal of items
are in the model as they are in the code; no other handler runs in between, as
CORE has one thread.

A member of a group has one of the states the app, CORE and the cloud use: in the
group (0), failed (-1 or a status byte), being added (-2), being removed (-3), or
not in the list. Light groups hold devices, link groups hold buttons: an element is
a device and a `dpId`, and the address of a device is that of its element 1.

The BLE service and the mesh are the environment: a command is executed, refused,
or timed out, in which case the element may or may not have obeyed and its
answer may still be under way. Commands and answers are sets: any order. What the
BLE service really does with one frame is `BleSender`; a composition is planned.

When freed memory is used the model sets `undefined` and stops: nothing is said
of what such a build does next.

Abstracted: names, `pageIndex`, `hcAddr`; notifications to the user; the scenes
that use a group as an entity (`DeleteDeviceFromScenes` in the deletion of a
group). A device that is in no table, and so has no address, is left out. A TTL
request lists each device once.

### SceneEngine

`rows` is the table `scene_inf`, `ram` is `g_sceneList` (an entry per scene, with
`next` for `runningActionIndex + 1` and `reached` for the conditions whose
`timeReached` is set), `dps` the values of the devices, `now` the clock in minutes.
CORE has one thread: a pass of `ExecuteScene` over the list (`todo`, and `due` for
the schedules of the scene the pass is at), then at most one message. Each action
of a scene and each schedule is a step of the pass, as a step changes what the
later ones of the same pass read. `read`, the minute in which an entry
was read from the table, `log`, `fired`, `started` and `strays` are history.

A report of a device, a switch or start from the app, and the edits (add, update,
delete a scene, delete a device, kick out a hub, with the cascade through the scenes they
leave empty) are messages. A kick-out of a hub deletes rows by the unicast address alone
(`main_core.c:1712-1714`), also those of devices of other gateways, about which the scenes are not told:
these are in `strays`. CORE may be stopped and started again anywhere,
also within a pass, and after the first statement of an edit, which deletes a row: an update deletes the
row of the scene and adds it again (`StopAfterDelete`). `Db_LoadSceneToRam` reads the table into memory that is used
again and writes the effective time of an entry only when its row has one:
the window of any other scene is whatever was there, which the model leaves
open.

Abstracted: the order of the list (a pass visits the scenes in any order, which
covers every one); the duration of a delay and the moment within a minute (free
choices); a device has one value, of a small set; what an action tells a
device, a group, or a scene of the cloud service (all are `control`);
`SCENE_ACTIONS_MAX` and `SCENE_CONDITIONS_MAX`; a condition on a device that is not in
the database (its expression is whatever the memory held); the
days of the week are `WeekLength` days of `DayLength` minutes. The scenes that run in the
devices themselves (`isLocal`) are left out, and a stop of CORE further inside a cascade of deletions
or within a kick-out.

A date that was used up is moved to the year 3000. Its minutes do not fit into `schMinutes`
(`database.h:105`): in the list it is then a minute of the year 2065, and once the table is read again
(`database.c:599`) one of April 2047. `OverDate` is the earlier of the two, and all that is said is
said of behaviours that end before it (`HorizonAssumption`).

### DeviceRegistry

`known` is the set of rows of `devices_inf`, with `state`, `offlineCount` and, for
`last_updated`, the number of polling periods since (`age`); `cloud` is what the
cloud has of each device; `groups` and `members` are the rows of `group_inf`; `update` is
`g_groupTobeUpdated`. CORE has one thread, so a handler is one step with all it
writes. The group request is only its beginning and its end here: between them other
handlers run, which is what matters to a device that leaves. Its inside is `GroupUpdate`.

A packet of online states holds one or two devices, found by gateway and address. The
`break` in the middle of it is kept: `PacketOutcomes` gives every outcome, as the order
of the devices behind one hub is that of the database. A kick-out of a hub deletes rows by the
unicast address alone (`main_core.c:1712`), while the cloud is told of the devices of
its gateway; `struck` and `Fellows` are the two sets.

Abstracted: the values of a device and all their kinds (a report with a new value, or
without, is what is told apart), `devices` (the value table), scenes; which of the
watched products a device is; a message to AWS counts as arrived. What the app
offers for a group is `Offered`, without the devices behind a hub.

A value goes to the cloud with `"state": 2`, which shows its device online there. Most reports
also set the row online; sensors, air conditioners, the control of a group
or of a local scene, and the other buttons of a link group do not (`ShowValues`, `Linked`). An
offline device that is shown online so is in `presumed`, until it is told to the cloud
again: by a report, by `CheckDeviceOffline`, or by `SyncStatus`. For a device behind a hub that may be
never: `SetOnlineStateForIRDevices` tells the cloud only when the row changes, and the row was
offline all the while, so that further offline reports pass in silence and keep
`last_updated` fresh. `SilentIsShown` is for this reason about devices that are not behind
a hub. `TYPE_SYNC_DEVICE_STATUS` compares a product with whole lists of products
(`StringCompare(pid, HG_BLE_SWITCH)`), which is true only for the lists of one product: `Stated`
holds these, white lights and temperature sensors, and no switch.

### AwsWatchdog and AwsBridge

`AwsWatchdog` has the 500 ms ticks of `Aws_SendMergePayload`: `pingCount`, `dog` (the three
counters), and the pings and pongs under way as sets, since a second one before the first is
answered makes no difference. `mosq` is `g_mosqIsConnected` with the state of the client object:
`Mosq_Init` destroys it when it fails, and `Mosq_ProcessLoop` destroys it again, which
ends the process (`AbortAws`) or not. The services and the broker are the environment: they hang,
drop the connection, go down and come back.

`AwsBridge` extends it. `bus` is what the broker holds for AWS, `queue` and `requests` are
`queue_mos_sub` and `queue_received_aws`, `pages` and `merged` are `g_mergePayloads`; `session`,
`connected` and the positions of the two threads (`thread`, `main`) are the shared connection. A
thread is cut between any two accesses to what is shared: `Openssl_Disconnect` of the main loop is a step
of its own after the flag is cleared and CFG is told. A report is its number, so that
"older" can be said; a field of a device holds the number of the report that set it.

Abstracted: what a report says, and the JSON of a page; which service a request is for; the
buttons, LEDs and tests of `main`. `establishMqttSession` may return between the two calls with which the main
loop gives the old session up (`Established`), which then close the new session in its place. As a
handshake that short could do so each time, for ever, it counts as one of the `MaxDrops` failures of the
connection. `lost`, `untold`, `kicked`, `buried` and `stamp` are history.

### WifiService

`thread` and `inHand` are the message thread, `held` and `signalled` the mutex and the
condition, `current`, `calls` and `accepted` the command that `main` carries out, `failedCount`, `token` and
`old` the access token and its age. A call of the cloud is one step with every outcome the
code can see: success, a refusal (an answer `"success": false` to a good token, as for a device that
is offline, `wifi_process.c:324-327`), carried out without an answer, not arrived, `read` that
never returns (`Hang`), `error()` that exits (`Die`), and, when the host is not found, the
response of an earlier call. A refusal is no fault: it can come at any call and any number of times. A fetch of
the token that fails may have overwritten the token before (`wifi_process.c:380-388`). `troubled` and
`refused` are history about the command in hand: a call for it went wrong, or was refused. `main` keeps the mutex during all calls of a
command, so that the message thread stops at the next command, also for pings.

Abstracted: the text of the commands, of which there are three kinds with the same way
through the code; the time of day of the token. A ping is answered or not; that the
watchdog restarts who does not answer is `AwsWatchdog`.

## 3. The runs

| Run | Question | Result |
|---|---|---|
| `ble_sender` | safety of the sender and the refinement of `BleChannel` | passes |
| `ble_sender_live` | is every accepted request settled, and once, with every kind of request, a leaked entry and a mistagged frame | passes |
| `group_update` | safety and liveness of group requests of a patient app | passes |
| `group_overlap` | does the end of a request push its own group | violated: two groups changed in a row |
| `group_link_status` | is a listed button subscribed | violated: the first entry of the switch stands for all its buttons |
| `scene_engine` | the list and its table, starts, runs, dates, deletions; does every run end | passes |
| `scene_daily` | does a repeating schedule start its scene on each of its days | violated: `timeReached` is never reset |
| `device_registry` | do table and cloud agree, do groups hold known devices, is a silent device shown offline | passes |
| `aws_watchdog` | is who answers spared, who hangs replaced, the connection mended | passes |
| `aws_bridge` | is a report or request lost without a failure, or overtaken; does a deleted device stay away | passes |
| `aws_bridge_live` | does the cloud catch up, does the session come back | passes |
| `wifi_service` | does every command end, and as what it was | passes |

Each violation contradicts a comment in the code; `findings` in `PROJECT.json` quotes
it.

**Bounds.** `ble_sender` has three frame slots, two response entries, two devices and four
requests of three kinds, of which two may be broadcasts: the buffer wraps and overwrites, one
entry is leaked, or both, so that the next request meets a full table, a group frame is retried three times, and a third request meets the
entry of the first. The order and loss properties only depend on how indices
and ages relate, for which a wrap of a buffer of three is enough, and the proofs
cover every size. Devices are symmetric; requests are numbered by age and are not.
`ble_sender_live` has all seven kinds with smaller numbers: one device, three requests, one broadcast and one frame
that is tagged by a request that wrote none.

`group_update` has one group of two lights, two requests, of which one may set a TTL, one restart
and one fault (refusal, timeout or lost answer). Two items of the list need
a TTL item and a group item, which this gives; two lights let one answer and the other
fail, and their entries are listed in both orders. That is some 610 000 states. The two group instance has no bound of its own to pass: overlapping requests
are what the violation is about.

`scene_engine` has two scenes, a lamp and a television, days of two minutes and weeks of two days. The first
scene has a delay before it runs the second, and starts on the lamp or on a
date; the second switches the television off and has all its conditions, an effective time over midnight, a
repeating schedule, and disables the first, so that each reaches into the entry of the other
on both sides of its turn. Everything is off at first (`AllOffSpec`), so that what runs by a device needs its report; the proofs are about every
start. A minute before, at and after the date, one edit of any kind, one
report and one restart (some 310 000 states) let a reload, a switch and a deletion meet a run in each of
its states; deleting the television empties the second scene in one of its forms,
which the first one mentions, and a kick-out can take one device with its scenes and the row of the other
without. Longer clocks only repeat days.

`device_registry` has a switch and a light, a group of buttons that may hold both and a group of
lights, and an infrared hub of another gateway whose address is that of the switch, so that a kick-out
of the hub meets a row that is not its own. A second device behind the hub makes
the run ten times as long; the order in which they are counted is left to the proofs. An offline report counts at the second
time, silence after two periods: the smallest numbers at which a report can be
too early and a period can pass unharmed. Some 144 000 states; only the ages and
counts would grow with larger numbers, and the proofs cover all of them.

`aws_watchdog` has two services: WIFI, whose message thread dies with the broker, and BLE,
which does not see its pings; a ping every third tick and limits of 5 and 6, the least that
the margin allows. The state space is finite without a bound on events.

`aws_bridge` has two devices on two pages, a queue of one, two reports, two requests and one failure of
either connection: two reports of one device, of two, or a report and a kick-out
overflow the queue, wait in `g_mergePayloads` together, and meet a failure at each stage
(1.2 million states). `aws_bridge_live` has one device, whose reports and failures are still all
there, and two failures, so that a session that broke can also be closed
in its place again (13 000 states). Both leave out watched services: those are `aws_watchdog`.

`wifi_service` has three commands for a queue of one (one is carried out, one waits, one finds
the queue full), the retries of the code (7 calls, a new token after the fourth), a refresh that
ends with its second failure, and two
troubles: an expired token and a refusal need none, so that one may hit the new token and one the call, and a
command can be given up after refusals alone. The bound on troubles also makes the fetch of the first token (`Boot`) succeed at
last: an outage that lasts from the start on is outside the run.

The runs of the BLE sender, the groups and the scenes say `CHECK_DEADLOCK FALSE`, since the
number of requests is bounded and the system really stops when all are settled. The other
five check for deadlock: time passes, or the watchdog pings, for ever.

**Patience.** The properties of `group_update` are claimed for an app that waits for
the notification `"done":true` before its next request (`Patient`). That is what the
phone application shows its user, and not something the code enforces: `group_overlap`
is what happens without it. `QuietMembers` and `QuietRemovals` leave out groups that were requested while
something of an earlier request was under way (`muddled`), since
answers do not say what they answer: an answer to the addition of a device that comes after the request
to remove it counts for the removal.

**Fairness.** `FairSpec` of `BleSender` assumes that `BLE_SendToGateway` keeps being
called, which the main loop does on each pass (`main_ble.c:914`), and that clocks move, so
that an expiry that is awaited comes. Weak fairness of the disjunction is enough: in each
of its states one of its actions is enabled for as long as it stays there. Nothing is
assumed of devices. `FairSpec` of `GroupUpdate` assumes
that `ResponseWaiting` is called (`main_core.c:1280`) and that time passes (`Expire`).
It assumes nothing of the BLE service, of devices, or of the delivery of answers: a
request ends by its timeout when everything else fails. `FairSpec` of `SceneEngine`
assumes that the passes go on (weak, `main_core.c:1281`) and that a delay that is looked at
again and again is over at last (strong: it can only end when a pass is at it). Starts are
bounded: a scene that is started again for ever need not end.

`FairSpec` of `DeviceRegistry` assumes that time passes and that `CheckDeviceOffline` is called,
which the main loop does on each pass (`main_core.c:1282`); nothing of the devices. `DogFairSpec` of
`AwsWatchdog` and `FairSpec` of `AwsBridge` assume that each function of the main loop comes again,
strongly where another function can take its chance away for a moment, and that both threads run; in
`AwsWatchdog` also that a service that is well answers. Nothing is assumed of the broker, the
internet or a service that hangs: the properties say what they need
(`HungIsReplaced` and `ReconnectsForGood` hold once the broker stays up, since with the broker down the
AWS service may keep dying and its counters start again). `AwsWatchdog` has a timing assumption
besides, `Prompt`: a service that is well answers within `MaxLag` ticks, fewer than lie
between the last ping and the limit (`MarginAssumption`; the code pings every 21 ticks and
allows 60 or more). `FairSpec` of `WifiService` assumes that both threads run, that a
call that does not hang returns, and that a ping left unanswered ends in a restart, which is what `HungIsReplaced`
shows of the watchdog. The mutex is taken under strong fairness: `main` gives it up between
commands, and a thread that waits for it gets it at last.

## 4. The proofs

All proofs hold for every value of the constants that satisfies the named assumptions of
the module: any number of frame slots, entries, devices and requests, any set of
groups and elements, any number of restarts and faults.

`BleSenderProofs` needs nothing more for the types, and that no handler tags a frame it did
not write (`MaxMistagged = 0`) for loss and order, as do `ChannelImplemented`, `NoStaleAck` and `TimeoutIsReal` in
`BleChannelProofs`. It is needed: a blink request with an unknown mode writes no frame but tags the
last one (`main_ble.c:1369`). `OutcomeSettledOnce` needs no assumption, and speaks of all frames that were not tagged after
they were taken. Nothing is assumed of the number of broadcasts: a broadcast keeps its entry of the table
for good (`ble_process.c:182`), and the theorems hold for a table that fills.

* **Types** (`TypeCorrect`). `TypeInv` adds to `TypeOK` that the number of transmissions of
  the frame in flight is the number of its failures, or one more while it is awaited, and
  never more than its retries allow, and that a frame in a slot belongs to a request that
  was made.
* **Loss and order** (`LossBounded`, `OrderKept`). `BufferInv`: since the buffer was last
  empty the slots are filled from 1 on, so a frame that waits lies in a slot no greater than the
  number of requests accepted since, and slot 0 is used only once there were `NFrames` of
  them; until then the waiting frames lie in the order of their requests. So the slot
  written is free, and the least index of a priority is the oldest request.
* **Refinement** (`ChannelImplemented`) and with it `NoStaleAck`, `TimeoutIsReal` and
  `OutcomeSettledOnce`. `ChannelInv` relates the three places that know of a request:
  the buffer holds exactly the pending ones, the frame in flight is the one that is being
  sent, and the entries of the response table in use are those of broadcasts and at most one of
  the frame in flight; that entry is marked as answered only if a matching answer
  was heard. A frame that was sent with the table full is `deaf`: its `respIdx` names the entry of a
  broadcast, which no answer marks. The counting argument (`FullTable`), on the cardinality of the set of
  broadcasts, says that there were at least `NResps` of them then. `SettleInv` is all that
  `OutcomeSettledOnce` needs: a frame that was not revived is in one place, and has the outcome of that place.

`GroupUpdateProofs` proves the types for every app, and the rest for an app that waits
(`Patient`), since `group_overlap` shows that they fail without.

* **Types** (`TypeCorrect`). `TypeInv` adds that the index of a pass over the list is at least
  1, so that an item is only looked up inside the list.
* **No freed memory, agreement, verdicts** (`NoFreedMemory`, `CloudAgrees`, `MembersSettled`).
  None of the three is inductive: each step of `ResponseWaiting` reads `tobe` and trusts that
  it is the group of the item. `PatientInv` says why it is: at most one item waits for
  a group, and it is the last of the list (`ListInv`), so there are at most two items; while it waits
  `tobe` is live and is its group, which has a row (`HeldInv`); a pass can have one index too
  many, as an item was removed under it, but only when that was a TTL item, whose end
  does not touch `tobe` (`ScanInv`); the cloud and the database agree (`AgreeInv`); and a group that
  nothing waits for has no undecided member, unless a restart cut its request
  short (`SettledInv`).
* **Quiet groups** (`QuietMembersListed`, `QuietRemovalsLeft`). What the mesh holds of a group that was
  requested in peace is what the row and the cloud say of it. `QuietInv` follows everything on the way
  to that: of a quiet group, only its present request has commands under way, each for an entry
  that is still undecided (`OrdersInv`); the answers on their way are to such commands, and say what
  the mesh did (`AnswersInv`); the row has an undecided entry only while the request waits
  (`RowInv`), with the same verdicts as the list that is held for it (`EntriesInv`, `HeldListInv`).
  It needs that an element is known by its device and its number
  (`PairsAssumption`): otherwise the answer of one button could be taken for that of another.

* **What is published** (`RightGroupIsPushed`). `ResponseWaiting` publishes the group in
  `g_groupTobeUpdated` at the end of the request of an item, which may be another; `HeldInv` says that it is
  not. `group_overlap` violates the same formula with an app that does not wait.

`SceneEngineProofs` proves its theorems for any scenes, devices, plans and effective times, and any
number of edits, reports and restarts. It assumes of the plans that taking things out
of one leaves a plan or nothing (`PlansAssumption`), and of what the app writes that
conditions are finitely many and no date is one that was used up (`LibraryAssumption`), and that the clock
does not reach the date to which used dates are moved (`HorizonAssumption`).

* **Types, list and table, dates** (`TypeCorrect`, `ListAgrees`, `DatesComeOnce`). `SceneInv` adds what
  each needs of the others: a run stands at one of the actions of its scene, as `ExecuteScene`
  reads them unchecked (`IndexInv`); a schedule that waits for its turn is still one of the conditions of
  its scene, so that it is found in the table when it is used up (`DueInv`); and the
  used form of a date is not yet there, so that each start adds one used date
  (`DatesInv`). That the list agrees with the table is needed for the types, as
  `Db_EnableScene` and `Db_SaveSceneCondDate` write a row that must be there.
* **Deletions** (`NothingDangles`, `OnlyTheEmptiedGo`). What `DeleteDeviceFromScenes` leaves of a plan is a
  recursive function on its length (`Without`), so its lemmas go by induction on the natural numbers.
  The theorem of the library cannot be used (see below), but induction for a *set* follows from the fact that
  `<` is well-founded on `Nat` (`NatOrder`, `Least`, `Induction`). What is left mentions nothing that went, and is empty
  only when every action was about something that went. `DeletesNoMore` is the other half of `NoDangling`, without
  which a cascade that deletes every scene would do. Both leave out the stop after the first statement of a deletion,
  and the devices of other gateways that go with a hub (`strays`): the code does leave actions that name
  those. `StraysInv` says that they are not in the table.
* **Starts** (`StartsHaveReasons`, `FirstTimeRuns`). `PreconditionHolds` compares what `checkScenePrecondition`
  reads of the clock (the minute of the day, the day, and for a window over midnight
  the day before) with the minutes that went by since the window opened, counted modulo the week
  (`ClockSplit`, `YesterdaySplit`); `ConditionsHold` needs `RamIsDb`, as the check reads the list and the
  property the table. What `StartsJustified` says of a scene with *all* its conditions is no more than the
  code does: in the moment of the start one condition is met and every device is at its value, but a schedule
  need only have come at some time since the list was read, as `timeReached` is never taken back
  (`main_core.c:778-781`, `1081-1086`). Such a scene starts outside the minute of its schedule, which is
  not what `database.h` calls a satisfied condition. `ReachedInv` follows it: each schedule marked as reached in an entry
  was due in some minute since the entry was read. The first version of `StartsJustified` could not be proved, for two reasons that the instance
  for TLC does not have: a window from 0 to 0 with days is effective on every day
  (`main_core.c:681`), and a scene of the type "manual" starts whatever its conditions say
  (`main_core.c:713`). Both are the code's meaning, and the property now says so. `RunsUnlessReached` is what is
  left of `RunsEveryDay`, which `scene_daily` violates: but for schedules already marked as `reached` since
  the list was read, every schedule that is due starts its scene. So the mark that is never taken
  back is the only fault.

`SceneRunsProofs` proves the refinement (`RunsImplemented`) for every behaviour in which no run is
about to run its own scene (`NoSelfRun`): there `ExecuteScene` first sets the run back to its
first action and then moves it on by one, so that it would go on with the second
(`main_core.c:994`). What is left of a run is the part of the actions from `next` on. That it is
a part of what the *table* holds needs `RamIsDb`; that the last action ends it needs `IndexInv`. Every
step of the engine then maps to a start of some scenes, an action of one
scene that may start another, a reload, or a stutter.

`AwsBridgeProofs` proves of the watchdogs the types and `SparesTheResponsive`, for any services, limits and
ping period with the margin. `DogInv` says what keeps a counter low: without a ping on its
way a trusted service has counted no more ticks than went by since the last ping, and with
one no more than a ping period and the age of that ping. So a trusted service is never overdue, and its counter is
only set back by its pong. `BridgeIsWatchdog` carries both over to the whole service: whatever the bridge does,
its ticks, pings and pongs are steps of `AwsWatchdog`, or stutters. `HungIsDoomed` is what safety can say of
`HungIsReplaced`: once the last pong of a service that hangs has arrived, each tick counts it, and only
its restart or that of AWS takes the count back.

Of the bridge it proves the types, `NothingLostQuietly`, `BuriedStaysBuried` and `NeverOlder`, for any devices,
queue sizes and numbers of reports, requests and failures; it assumes that the pages are finitely many (`PagesAssumption`).
`NeverOlder` is not inductive: a report in any of four places could still reach the cloud. `OrderInv` puts
the places in order: the messages of a device on the bus and in the queue come in the order of their
reports, with the deletion as the last; each is no older than what is merged, which is no older than what the
cloud has; and of a device that was buried nothing is left anywhere. `KeptInv` says where the last report is,
and `AskInv` that the requests wait and are sent in the order in which they came.

`DeviceRegistryProofs` proves the types, `CloudAgrees` and `NoGhosts`, for any devices, addresses,
groups and limits. `NoGhosts` is not inductive: a group that is saved at the end of a request
must not bring unknown devices, so `UpdateInv` follows the devices of the request. `CloudAgrees` is,
and needs one step for each way in which the row or the cloud is written. The lemmas on packets say that nobody
is found online and offline by one packet, as its two addresses differ. `SilenceIsNotHidden` is the safety
half of `SilentIsShown`: the silence of a watched device, and the number of reports of it, start anew only
for a reason (`updateDeviceOfflineCountToDatabase`).

`WifiServiceProofs` proves the types, `GivenUpForAReason` and `DoneIsExecuted`, for any queue and
any retries that leave one after the new token. `StepInv` ties the position of `main` to the
command and the number of calls; `TokenInv` says that after the new token was asked for a command is
tried with a good one or had a call that went wrong, so that what is given up was refused or in trouble, never
given up for its expired token alone; `CarriedOutInv` says that a command that was carried out and is tried once more had a call that went wrong,
so that what is given up after refusals alone was not carried out; `AcceptedInv` bridges the step
between the call that the cloud accepted and the end of the command. Order, one end for each command and
the wake-ups need to know where every command is (`WayInv`): on the broker, in the queue, with
`main`, or at an end (`WhereInv`), the places in the order of the numbers along the way
(`LineInv`), and what was done or given up was sent before all that is still on the way (`OverInv`).
No property of a run states `NoneOvertaken`, `EndsForGood` and `NoneSleptOver`; the last is why `EveryCommandEnds`
does not fail for a command that comes between `main`'s look at the queue and its wait.

Only model-checked: liveness (`EveryRequestSettled`, `EveryRequestEnds`, `EveryRunEnds`, `SilentIsShown`, `HungIsReplaced`,
`ConnectionIsMended`, `CloudCatchesUp`, `ReconnectsForGood`, `EveryCommandEnds`), which is out of the
prover's reach as are `ENABLED` and the library's induction theorems, which take an operator as a
parameter. Every other property of a passing run is a theorem. Two safety properties are no theorems because
the code violates them: `RunsEveryDay` and `ButtonsAreSubscribed`; `PushesItsGroup` is one for an app that waits.

## 5. Not modelled, and the plan

What is left, in order of importance:

1. Scene requests (`TYPE_ADD_SCENE`, `TYPE_UPDATE_SCENE`): the second branch of `ResponseWaiting`, whose
   global `g_sceneTobeUpdated` is shared as `g_groupTobeUpdated` is; and local scenes, which run in
   the devices.
2. BLE and CORE composed, with the two input queues of the BLE service: `BleSender` takes
   requests in any order, but what CORE meant by their order is not in it (`main_ble.c:926`).
3. The CFG service and the shared memory between it and the BLE service
   (`main_cfg.c:185`); the rest of it is buttons, LEDs and shell commands.
4. The list of nodes of `lib/queue.c` as a refinement of the bounded FIFO that `AwsBridge` and
   `WifiService` use.
5. The synchronisation of the database with the cloud at the start of AWS, which is one long
   sequence of requests without concurrency.

Left out for good: vendored libraries (`sqlite3.h`, cJSON, coreMQTT and parson
are half of the repository's lines; the models say how the services use them); OTA, HomeKit and
notification programs, which are adapters without state; helpers for text, JSON, time and I/O.
