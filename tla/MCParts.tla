------------------------------ MODULE MCParts ------------------------------
(* Components that run by themselves, one at a time: which is the one that   *)
(* takes steps, the others have no state.  The links of the lists are this    *)
(* module's own: one list of three items.                                     *)
EXTENDS LinkedList, Integers, Sequences, TLC

VARIABLES which,
          xTail, xHead, pucBuffer, xTriggerLevelBytes, xTaskWaitingToReceive,
          xTaskWaitingToSend, notified, send, recv, interrupt,
          globalLock, eventLock, g_wifiStaStatus, g_wifiConfigs, g_networkId,
          g_networkConfigReadFlag, g_wifiEvents, g_connectState, file, driver,
          dispatch, wifiCall, connectedSince,
          status, onHeap, head, n, bl_cnt, sem, used, poolCall,
          ulNotifiedValue, ucNotifyState, xTickCount, wait, setter, fresh,
          uxLength, pcWriteTo, pcReadFrom, uxMessagesWaiting, storage, pvBuffer,
          list, wake, event, uxState, uxTopCoRoutineReadyPriority,
          xCoRoutineTickCount, xLastTickCount, xPassedTicks, crTickCount, crMessages,
          at, pxCurrentCoRoutine, isr, left, passedOver,
          obj, heap, objectWait, pended, answer,
          KernelState, uxSchedulerSuspended, threadRunning, regions, redundant, halted,
          apLock, g_wifiApStatus, apRunning, addressed, apCall, stopped,
          g_wifiApConfig, hapdConf,
          uart_rx_mutex, uart_rx_sem, g_rx_num, request, uartCall, received, returned,
          overtaken, disturbed,
          container, threadEvent, notify, suspended, dynamic, threadHeap,
          uxCurrentNumberOfTasks, uxDeletedTasksWaitingCleanUp, threadCall, threadAnswer,
          idleTickCount, xNextTaskUnblockTime, xPendedTicks, xYieldPending, taskList,
          taskWake, taskPended, idle, ticksLeft,
          word, masked, wordRunning, interrupted, wordCall, critical,
          mp_id, mq_id, creating, free, mails, holder, mailWait,
          length, position, handles, fileCall, fileAnswer,
          isr_cfg_info, gpiote, g_gpio_dir, g_gpio_out, pins, gpioCall, called,
          mac, cr, acc, miiData, phy, macCall, phyCall, initStep, lastRead, macState,
          ignored

streamVars == <<xTail, xHead, pucBuffer, xTriggerLevelBytes,
                xTaskWaitingToReceive, xTaskWaitingToSend, notified, send, recv,
                interrupt>>
wifiVars == <<globalLock, eventLock, g_wifiStaStatus, g_wifiConfigs, g_networkId,
              g_networkConfigReadFlag, g_wifiEvents, g_connectState, file, driver,
              dispatch, wifiCall, connectedSince>>
poolVars == <<status, onHeap, head, n, bl_cnt, sem, used, poolCall>>
flagVars == <<ulNotifiedValue, ucNotifyState, xTickCount, wait, setter, fresh>>
storageVars == <<uxLength, pcWriteTo, pcReadFrom, uxMessagesWaiting, storage, pvBuffer>>
routineVars == <<list, wake, event, uxState, uxTopCoRoutineReadyPriority,
                 xCoRoutineTickCount, xLastTickCount, xPassedTicks, crTickCount,
                 crMessages, at, pxCurrentCoRoutine, isr, left, passedOver>>
objectVars == <<obj, heap, objectWait, pended, answer>>
kernelVars == <<KernelState, uxSchedulerSuspended, threadRunning, regions, redundant,
                halted>>
hotspotVars == <<apLock, g_wifiApStatus, apRunning, addressed, apCall, stopped,
                g_wifiApConfig, hapdConf>>
uartVars == <<uart_rx_mutex, uart_rx_sem, g_rx_num, request, uartCall, received,
              returned, overtaken, disturbed>>
threadVars == <<container, threadEvent, notify, suspended, dynamic, threadHeap,
                uxCurrentNumberOfTasks, uxDeletedTasksWaitingCleanUp, threadCall,
                threadAnswer>>
sleepVars == <<idleTickCount, xNextTaskUnblockTime, xPendedTicks, xYieldPending,
               taskList, taskWake, taskPended, idle, ticksLeft>>
wordVars == <<word, masked, wordRunning, interrupted, wordCall, critical>>
mailVars == <<mp_id, mq_id, creating, free, mails, holder, mailWait>>
fileVars == <<length, position, handles, fileCall, fileAnswer>>
gpioVars == <<isr_cfg_info, gpiote, g_gpio_dir, g_gpio_out, pins, gpioCall, called>>
macVars == <<mac, cr, acc, miiData, phy, macCall, phyCall, initStep, lastRead,
             macState, ignored>>
cmsisVars == <<poolVars, flagVars, objectVars, kernelVars, threadVars, mailVars>>
deviceVars == <<wifiVars, hotspotVars, uartVars, fileVars, gpioVars, macVars>>
kernelPartVars == <<streamVars, vars, storageVars, routineVars, sleepVars, wordVars>>
partsVars == <<which, cmsisVars, deviceVars, kernelPartVars>>

--------------------

\* Messages between tasks and interrupts, with resets between calls.  The last
\* message holds what looks like the length of a shorter one.
Messages == {<<7>>, <<1, 0, 5>>}

S == INSTANCE StreamBuffer WITH
       Length <- 6, Header <- 2, Payloads <- Messages, ReceiveSizes <- {1, 3},
       SendWaits <- {"finite"},
       ReceiveWaits <- {"finite"},
       Trigger <- 1, NewTriggers <- {0, 7},
       Interrupts <- {"none", "writer", "reader"},
       MayPutBack <- FALSE

\* The table of networks and its file, with failures and restarts at any point.
TableCalls == {"EnableWifi", "DisableWifi", "Scan", "AddDeviceConfig",
               "GetDeviceConfigs", "RemoveDevice"}

W == INSTANCE WifiDevice WITH
       Task <- {"t1", "t2"}, MaxConfig <- 2, MaxEvent <- 1,
       Network <- {"n1", "n2"}, Listener <- {"l1"}, Hears <- {},
       Calls <- TableCalls, NestedCalls <- {}, DriverFails <- TRUE,
       FileFails <- TRUE, MayRestart <- TRUE, LockBound <- 1,
       call <- wifiCall

\* Fewer blocks than those that want one.
P == INSTANCE MemoryPool WITH
       Task <- {"t1", "t2", "t3"}, BlockCount <- 2,
       Waits <- {"none", "finite", "forever"}, call <- poolCall

\* Waits without a timeout, with one, and with osWaitForever, across the wrap.
F == INSTANCE ThreadFlags WITH
       Flag <- {1, 2}, Setter <- {"s"}, Timeouts <- {0, 1, 2}, TickMod <- 3,
       AwakeBound <- 1

\* Queues of one place, where overwriting is allowed, to three.
Q == INSTANCE QueueStorage WITH Lengths <- {1, 2, 3}, Item <- {"x", "y"}

\* One object at a time, two threads, an interrupt and the timer daemon.
O == INSTANCE CmsisObjects WITH
       Thread <- {"t1", "t2"}, MaxCounts <- {1, 2}, Message <- {"x"}, Length <- 1,
       Flag <- {1}, CommandBound <- 1, wait <- objectWait

\* Regions three deep, so that a locked one is in an open one in a locked one.
K == INSTANCE CmsisKernel WITH
       Thread <- {"t1", "t2"}, NestBound <- 3, SuspendBound <- 3,
       running <- threadRunning

H == INSTANCE WifiHotspot WITH
       Task <- {"t1", "t2", "t3"}, Setting <- {1, 2}, globalLock <- apLock,
       running <- apRunning, call <- apCall

U == INSTANCE IotUart WITH
       Task <- {"t1", "t2"}, MaxBytes <- 2, call <- uartCall

\* Two receivers, of which the urgent one also delays, and an urgent sender.
C == INSTANCE CoRoutine WITH
       CoRoutine <- {"low", "high", "sender"},
       uxPriority <- [low |-> 0, high |-> 1, sender |-> 1],
       Calls <- [low |-> {"receive"}, high |-> {"delay", "receive"},
                 sender |-> {"send"}],
       uxLength <- 1, TickMod <- 3, Delays <- {1, 2}, LagBound <- 2,
       xTickCount <- crTickCount, uxMessagesWaiting <- crMessages

\* Another thread that ends itself and one that is terminated, with an array for
\* fewer than there are.
Th == INSTANCE Threads WITH
        Thread <- {"exits", "works"}, Exiting <- {"exits"}, ArrayItems <- 1,
        event <- threadEvent, heap <- threadHeap, call <- threadCall,
        answer <- threadAnswer

\* A task of the idle task's priority and one above it, across the overflow.
Z == INSTANCE Tickless WITH
       Task <- {"hi", "lo"}, uxPriority <- [hi |-> 1, lo |-> 0], Delays <- {1, 4},
       TickMod <- 6, PendedBound <- 2,
       xTickCount <- idleTickCount, list <- taskList, wake <- taskWake,
       pended <- taskPended, left <- ticksLeft

\* A word of two bits, two tasks and a handler.
A == INSTANCE Atomic WITH
       Task <- {"t1", "t2"}, Width <- 2, Operand <- {1, 2}, running <- wordRunning,
       call <- wordCall

M == INSTANCE MailQueue WITH
       Task <- {"t1", "t2"}, Block <- {"b1", "b2"}, wait <- mailWait

D == INSTANCE HalFile WITH
       Task <- {"t1", "t2"}, FdMax <- 2, LengthMax <- 1, call <- fileCall,
       answer <- fileAnswer

\* Pins of the same bit and different kinds, and one that does not interrupt.
G == INSTANCE Gpio WITH
       Task <- {"t1"}, InterruptId <- {0, 32}, OutputId <- {40},
       Registration <- {"r1", "r2"}

N == INSTANCE Lan9118 WITH
       PollBound <- 3, data <- miiData, pc <- initStep, value <- lastRead,
       state <- macState

\* What the theorems about these eleven take for granted of their constants.
ASSUME PartsFitHere ==
  /\ P!PoolFits /\ F!FlagsFit /\ U!UartFits /\ D!FileFits /\ G!GpioFits /\ N!LanFits
  /\ M!MailFits /\ C!CoRoutinesFit /\ Z!TicklessFits /\ O!ObjectsFit /\ Th!ThreadsFit

--------------------

\* A component that takes no steps has no state, but for the two of which more is
\* shown than that their states are right.
NoStream ==
  /\ xTail = 0 /\ xHead = 0 /\ pucBuffer = 0 /\ xTriggerLevelBytes = 0
  /\ xTaskWaitingToReceive = 0 /\ xTaskWaitingToSend = 0 /\ notified = 0 /\ send = 0
  /\ recv = 0 /\ interrupt = 0
NoWifi ==
  /\ globalLock = 0 /\ eventLock = 0 /\ g_wifiStaStatus = 0 /\ g_wifiConfigs = 0
  /\ g_networkId = 0 /\ g_networkConfigReadFlag = 0 /\ g_wifiEvents = 0
  /\ g_connectState = 0 /\ file = 0 /\ driver = 0 /\ dispatch = 0 /\ wifiCall = 0
  /\ connectedSince = 0
NoPool ==
  /\ status = 0 /\ onHeap = 0 /\ head = 0 /\ n = 0 /\ bl_cnt = 0 /\ sem = 0 /\ used = 0
  /\ poolCall = 0
NoFlag ==
  /\ ulNotifiedValue = 0 /\ ucNotifyState = 0 /\ xTickCount = 0 /\ wait = 0
  /\ setter = 0 /\ fresh = 0
NoRoutine ==
  /\ list = 0 /\ wake = 0 /\ event = 0 /\ uxState = 0
  /\ uxTopCoRoutineReadyPriority = 0 /\ xCoRoutineTickCount = 0 /\ xLastTickCount = 0
  /\ xPassedTicks = 0 /\ crTickCount = 0 /\ crMessages = 0 /\ at = 0
  /\ pxCurrentCoRoutine = 0 /\ isr = 0 /\ left = 0 /\ passedOver = 0
NoObject == obj = 0 /\ heap = 0 /\ objectWait = 0 /\ pended = 0 /\ answer = 0
NoKernel ==
  /\ KernelState = 0 /\ uxSchedulerSuspended = 0 /\ threadRunning = 0 /\ regions = 0
  /\ redundant = 0 /\ halted = 0
NoHotspot ==
  /\ apLock = 0 /\ g_wifiApStatus = 0 /\ apRunning = 0 /\ addressed = 0 /\ apCall = 0
  /\ stopped = 0 /\ g_wifiApConfig = 0 /\ hapdConf = 0
NoUart ==
  /\ uart_rx_mutex = 0 /\ uart_rx_sem = 0 /\ g_rx_num = 0 /\ request = 0
  /\ uartCall = 0 /\ received = 0 /\ returned = 0 /\ overtaken = 0 /\ disturbed = 0
NoThread ==
  /\ container = 0 /\ threadEvent = 0 /\ notify = 0 /\ suspended = 0 /\ dynamic = 0
  /\ threadHeap = 0 /\ uxCurrentNumberOfTasks = 0 /\ uxDeletedTasksWaitingCleanUp = 0
  /\ threadCall = 0 /\ threadAnswer = 0
NoSleep ==
  /\ idleTickCount = 0 /\ xNextTaskUnblockTime = 0 /\ xPendedTicks = 0
  /\ xYieldPending = 0 /\ taskList = 0 /\ taskWake = 0 /\ taskPended = 0 /\ idle = 0
  /\ ticksLeft = 0
NoWord ==
  /\ word = 0 /\ masked = 0 /\ wordRunning = 0 /\ interrupted = 0 /\ wordCall = 0
  /\ critical = 0
NoMail ==
  /\ mp_id = 0 /\ mq_id = 0 /\ creating = 0 /\ free = 0 /\ mails = 0 /\ holder = 0
  /\ mailWait = 0
NoFile ==
  /\ length = 0 /\ position = 0 /\ handles = 0 /\ fileCall = 0 /\ fileAnswer = 0
NoGpio ==
  /\ isr_cfg_info = 0 /\ gpiote = 0 /\ g_gpio_dir = 0 /\ g_gpio_out = 0 /\ pins = 0
  /\ gpioCall = 0 /\ called = 0
NoMac ==
  /\ mac = 0 /\ cr = 0 /\ acc = 0 /\ miiData = 0 /\ phy = 0 /\ macCall = 0
  /\ phyCall = 0 /\ initStep = 0 /\ lastRead = 0 /\ macState = 0 /\ ignored = 0

PartsInit ==
  /\ which \in {"messages", "wifi", "links", "pool", "flags", "storage", "routines",
               "objects", "kernel", "hotspot", "uart", "threads", "sleep",
               "word", "mail", "file", "pins", "ethernet"}
  /\ Init /\ (which # "links" => xItemValue = [i \in Item |-> 0])
  /\ Q!Init /\ (which # "storage" => uxLength = 1 /\ storage[0] = "x" /\ pvBuffer = "x")
  /\ IF which = "messages" THEN S!Init ELSE NoStream
  /\ IF which = "wifi" THEN W!Init ELSE NoWifi
  /\ IF which = "pool" THEN P!Init ELSE NoPool
  /\ IF which = "flags" THEN F!Init ELSE NoFlag
  /\ IF which = "routines" THEN C!Init ELSE NoRoutine
  /\ IF which = "objects" THEN O!Init ELSE NoObject
  /\ IF which = "kernel" THEN K!Init ELSE NoKernel
  /\ IF which = "hotspot" THEN H!Init ELSE NoHotspot
  /\ IF which = "uart" THEN U!Init ELSE NoUart
  /\ IF which = "threads" THEN Th!Init ELSE NoThread
  /\ IF which = "sleep" THEN Z!Init ELSE NoSleep
  /\ IF which = "word" THEN A!Init ELSE NoWord
  /\ IF which = "mail" THEN M!Init ELSE NoMail
  /\ IF which = "file" THEN D!Init ELSE NoFile
  /\ IF which = "pins" THEN G!Init ELSE NoGpio
  /\ IF which = "ethernet" THEN N!Init ELSE NoMac

KernelPartNext ==
  \/ /\ which = "messages" /\ S!Next
     /\ UNCHANGED <<vars, storageVars, routineVars, sleepVars, wordVars>>
  \/ /\ which = "links" /\ Next
     /\ UNCHANGED <<streamVars, storageVars, routineVars, sleepVars, wordVars>>
  \/ /\ which = "storage" /\ Q!Next
     /\ UNCHANGED <<streamVars, vars, routineVars, sleepVars, wordVars>>
  \/ /\ which = "routines" /\ C!Next
     /\ UNCHANGED <<streamVars, vars, storageVars, sleepVars, wordVars>>
  \/ /\ which = "sleep" /\ Z!Next
     /\ UNCHANGED <<streamVars, vars, storageVars, routineVars, wordVars>>
  \/ /\ which = "word" /\ A!Next
     /\ UNCHANGED <<streamVars, vars, storageVars, routineVars, sleepVars>>

CmsisNext ==
  \/ /\ which = "pool" /\ P!Next
     /\ UNCHANGED <<flagVars, objectVars, kernelVars, threadVars, mailVars>>
  \/ /\ which = "flags" /\ F!Next
     /\ UNCHANGED <<poolVars, objectVars, kernelVars, threadVars, mailVars>>
  \/ /\ which = "objects" /\ O!Next
     /\ UNCHANGED <<poolVars, flagVars, kernelVars, threadVars, mailVars>>
  \/ /\ which = "kernel" /\ K!Next
     /\ UNCHANGED <<poolVars, flagVars, objectVars, threadVars, mailVars>>
  \/ /\ which = "threads" /\ Th!Next
     /\ UNCHANGED <<poolVars, flagVars, objectVars, kernelVars, mailVars>>
  \/ /\ which = "mail" /\ M!Next
     /\ UNCHANGED <<poolVars, flagVars, objectVars, kernelVars, threadVars>>

DeviceNext ==
  \/ /\ which = "wifi" /\ W!Next
     /\ W!DriverEvent => driver.pending = <<>>
     /\ UNCHANGED <<hotspotVars, uartVars, fileVars, gpioVars, macVars>>
  \/ /\ which = "hotspot" /\ H!Next
     /\ UNCHANGED <<wifiVars, uartVars, fileVars, gpioVars, macVars>>
  \/ /\ which = "uart" /\ U!Next
     /\ UNCHANGED <<wifiVars, hotspotVars, fileVars, gpioVars, macVars>>
  \/ /\ which = "file" /\ D!Next
     /\ UNCHANGED <<wifiVars, hotspotVars, uartVars, gpioVars, macVars>>
  \/ /\ which = "pins" /\ G!Next
     /\ UNCHANGED <<wifiVars, hotspotVars, uartVars, fileVars, macVars>>
  \/ /\ which = "ethernet" /\ N!Next
     /\ UNCHANGED <<wifiVars, hotspotVars, uartVars, fileVars, gpioVars>>

PartsNext ==
  /\ UNCHANGED which
  /\ \/ KernelPartNext /\ UNCHANGED <<cmsisVars, deviceVars>>
     \/ CmsisNext /\ UNCHANGED <<kernelPartVars, deviceVars>>
     \/ DeviceNext /\ UNCHANGED <<kernelPartVars, cmsisVars>>

PartsSpec == PartsInit /\ [][PartsNext]_partsVars

--------------------
(* The properties, by the names they have in the modules.                    *)

PartsTypeOK == CASE which = "messages" -> S!TypeOK
                 [] which = "wifi" -> W!TypeOK
                 [] which = "links" -> TypeOK
                 [] which = "pool" -> P!TypeOK
                 [] which = "flags" -> F!TypeOK
                 [] which = "routines" -> C!TypeOK
                 [] which = "objects" -> O!TypeOK
                 [] which = "kernel" -> K!TypeOK
                 [] which = "hotspot" -> H!TypeOK
                 [] which = "uart" -> U!TypeOK
                 [] which = "threads" -> Th!TypeOK
                 [] which = "sleep" -> Z!TypeOK
                 [] which = "word" -> A!TypeOK
                 [] which = "mail" -> M!TypeOK
                 [] which = "file" -> D!TypeOK
                 [] which = "pins" -> G!TypeOK
                 [] which = "ethernet" -> N!TypeOK
                 [] which = "storage" -> Q!TypeOK /\ Q!PointersAgree

MessagesArrive == which = "messages" => S!RightMessage /\ S!NobodyLeftAsleep

BeliefsHold == which = "wifi" => W!BeliefsHold
LocksPaired == [][which = "wifi" => W!LocksReturned]_wifiVars

CmsisAccounted ==
  /\ which = "pool" => P!PoolAccounted
  /\ which = "objects" => O!HeapBalanced /\ O!TimeOutsReported
  /\ which = "kernel" => K!LockFollowsRegions
  /\ which = "mail" => M!MailsAccounted
  /\ which = "threads" => Th!ThreadsAccounted /\ Th!StateIsOneItHad /\ Th!AllReported

NobodyForgotten ==
  /\ which = "routines" => C!CoRoutinesServed
  /\ which = "sleep" => Z!TimeKept /\ Z!SleepsInTime /\ Z!StepsInBounds
  /\ which = "word" => A!NobodyBetween /\ A!MaskedInSections
  /\ which = "flags" => F!FlagsServed

DevicesTrue ==
  /\ which = "hotspot" => H!HotspotStatusTrue /\ H!HotspotConfigWhole
  /\ which = "uart" => U!ReadsExact
  /\ which = "file" => D!DescriptorsBalanced /\ D!SeekExact
  /\ which = "pins" => G!CallbacksOwn /\ G!TablesAgree
  /\ which = "ethernet" => N!NoTornTransfer /\ N!UpMeansConfigured

\* Abstract!Spec, of the steps that are not those of another component.
ImplementsOrderedLists ==
  Abstract!Init /\ [][which = "links" => Abstract!Next]_vars

ImplementsDeque ==
  Q!Abstract!Init /\ [][which = "storage" => Q!Abstract!Next]_(Q!Abstract!vars)
=============================================================================
