--------------------------------- MODULE Gpio ---------------------------------
(* hal_iot_gpio.c: the table of callbacks, which tasks fill in several steps   *)
(* and the interrupt of the pins reads at any of them, and the directions and  *)
(* values it remembers of the pins.  Different tasks use different pins.        *)
EXTENDS Integers, FiniteSets, FiniteSetsExt

CONSTANTS Task,
          InterruptId, OutputId,  \* the pins that interrupt, and the others in use
          Registration            \* what tells one registration of a pin from another

VARIABLES isr_cfg_info,   \* of each pin: callback, argument, mode, whether initialized
          gpiote,         \* what the hardware does: whether it calls back, and the mode
          g_gpio_dir, g_gpio_out,
          pins,           \* direction and level of the hardware
          gpioCall,       \* per task, the function it is in
          called          \* the last callback, and the pin of its event

vars == <<isr_cfg_info, gpiote, g_gpio_dir, g_gpio_out, pins, gpioCall, called>>

Id == InterruptId \cup OutputId
NoFunc == <<-1, "NULL">>
Mode == {"APP_IO_MODE_IT_LOW", "APP_IO_MODE_IT_RISING"}
Dir == {"IOT_GPIO_DIR_IN", "IOT_GPIO_DIR_OUT"}
NoCall == [fn |-> "none", at |-> "none", id |-> 0]
NotCalled == [event |-> 0, func |-> NoFunc, arg |-> NoFunc, settled |-> TRUE]

TypeOK ==
  /\ DOMAIN isr_cfg_info = InterruptId
  /\ \A id \in InterruptId :
       isr_cfg_info[id].func \in {NoFunc} \cup (InterruptId \X Registration)
  /\ \A id \in InterruptId : gpiote[id].mode \in Mode \cup {"none"}
  /\ g_gpio_dir \in [OutputId -> Dir] /\ g_gpio_out \in [OutputId -> {0, 1}]
  /\ DOMAIN gpioCall = Task

Init ==
  /\ isr_cfg_info = [id \in InterruptId |->
       [func |-> NoFunc, arg |-> NoFunc, mode |-> "none", initialized |-> FALSE]]
  /\ gpiote = [id \in InterruptId |-> [io_evt_cb |-> FALSE, mode |-> "none"]]
  /\ g_gpio_dir = [id \in OutputId |-> "IOT_GPIO_DIR_IN"]
  /\ g_gpio_out = [id \in OutputId |-> 0]
  /\ pins = [id \in OutputId |-> [dir |-> "IOT_GPIO_DIR_IN", level |-> 0]]
  /\ gpioCall = [t \in Task |-> NoCall] /\ called = NotCalled

--------------------
(* A pin of the hardware is a kind and a word with one bit, here the set of   *)
(* the bits.                                                                  *)

NORMAL_GPIO_MAX == 31
AON_GPIO_MAX == 39
AON_START_IDX == 32
MSIO_START_IDX == 40

\* The pins that interrupt are normal or always-on ones.
GpioFits == InterruptId \subseteq 0..AON_GPIO_MAX

pin_map(id) ==
  IF id <= NORMAL_GPIO_MAX THEN [type |-> "NORMAL", pin |-> {id}]
  ELSE IF id <= AON_GPIO_MAX THEN [type |-> "AON", pin |-> {id - AON_START_IDX}]
  ELSE [type |-> "MSIO", pin |-> {id - MSIO_START_IDX}]

get_pin_index(pin) == Min(pin)

\* Mutant: an always-on pin is taken for the normal one of its bit.
IndexOfBit(evt) == get_pin_index(evt.pin)

\* Which entry an event is for: that of pin 0, when it is of an MSIO pin.
EventIndex(evt) ==
  CASE evt.type = "NORMAL" -> get_pin_index(evt.pin)
    [] evt.type = "AON" -> get_pin_index(evt.pin) + AON_START_IDX
    [] evt.type = "MSIO" -> 0

Settled(id) == \A t \in Task : gpioCall[t].fn # "none" => gpioCall[t].id # id

\* The interrupt of a pin; a handler is not interrupted by a task.
app_io_callback(id) ==
  LET index == EventIndex(pin_map(id)) IN
  /\ gpiote[id].io_evt_cb
  /\ index \in InterruptId /\ isr_cfg_info[index].func # NoFunc
  /\ called' = [event |-> id, func |-> isr_cfg_info[index].func,
                arg |-> isr_cfg_info[index].arg, settled |-> Settled(index)]
  /\ UNCHANGED <<isr_cfg_info, gpiote, g_gpio_dir, g_gpio_out, pins, gpioCall>>

--------------------
(* The functions for interrupts.                                              *)

outputVars == <<g_gpio_dir, g_gpio_out, pins>>

Enters(t, fn, at, id) ==
  /\ gpioCall[t] = NoCall /\ Settled(id)
  /\ gpioCall' = [gpioCall EXCEPT ![t] = [fn |-> fn, at |-> at, id |-> id]]
  /\ called' = NotCalled
Goes(t, at) == gpioCall' = [gpioCall EXCEPT ![t].at = at] /\ called' = NotCalled
Returns(t) == gpioCall' = [gpioCall EXCEPT ![t] = NoCall] /\ called' = NotCalled
At(t, fn, at) == gpioCall[t].fn = fn /\ gpioCall[t].at = at

\* The mode goes into the table first, the callback, then its argument.
IoTGpioRegisterIsrFunc(t, id, mode, r) ==
  /\ Enters(t, "IoTGpioRegisterIsrFunc", r, id)
  /\ isr_cfg_info' = [isr_cfg_info EXCEPT ![id].mode = mode]
  /\ UNCHANGED <<gpiote, outputVars>>

RegisterFunc(t) ==
  LET id == gpioCall[t].id
      r == gpioCall[t].at IN
  /\ gpioCall[t].fn = "IoTGpioRegisterIsrFunc" /\ r \in Registration
  /\ isr_cfg_info' = [isr_cfg_info EXCEPT ![id].func = <<id, r>>]
  /\ Goes(t, "arg") /\ UNCHANGED <<gpiote, outputVars>>

RegisterArg(t) ==
  LET id == gpioCall[t].id IN
  /\ At(t, "IoTGpioRegisterIsrFunc", "arg")
  /\ isr_cfg_info' = [isr_cfg_info EXCEPT ![id].arg = isr_cfg_info[id].func]
  /\ Goes(t, "config") /\ UNCHANGED <<gpiote, outputVars>>

\* Mutant: the hardware is told of no callback, the table still has it.
KeepFunc(t, id) ==
  /\ Enters(t, "IoTGpioUnregisterIsrFunc", "config", id)
  /\ UNCHANGED <<isr_cfg_info, gpiote, outputVars>>

IoTGpioUnregisterIsrFunc(t, id) ==
  /\ Enters(t, "IoTGpioUnregisterIsrFunc", "arg", id)
  /\ isr_cfg_info' = [isr_cfg_info EXCEPT ![id].func = NoFunc]
  /\ UNCHANGED <<gpiote, outputVars>>

UnregisterArg(t) ==
  /\ At(t, "IoTGpioUnregisterIsrFunc", "arg")
  /\ isr_cfg_info' = [isr_cfg_info EXCEPT ![gpioCall[t].id].arg = NoFunc]
  /\ Goes(t, "config") /\ UNCHANGED <<gpiote, outputVars>>

\* Also of a pin nothing is registered for.
IoTGpioSetIsrMode(t, id, mode) ==
  /\ Enters(t, "IoTGpioSetIsrMode", "config", id)
  /\ isr_cfg_info' = [isr_cfg_info EXCEPT ![id].mode = mode]
  /\ UNCHANGED <<gpiote, outputVars>>

\* The three end alike: app_gpiote_init the first time, then app_gpiote_config.
Configure(t) ==
  LET id == gpioCall[t].id IN
  /\ gpioCall[t].fn # "none" /\ gpioCall[t].at = "config"
  /\ isr_cfg_info' = [isr_cfg_info EXCEPT ![id].initialized = TRUE]
  /\ gpiote' = [gpiote EXCEPT ![id] =
       [mode |-> isr_cfg_info[id].mode,
        io_evt_cb |-> gpioCall[t].fn # "IoTGpioUnregisterIsrFunc"]]
  /\ Returns(t) /\ UNCHANGED outputVars

--------------------
(* Directions and values.                                                     *)

isrVars == <<isr_cfg_info, gpiote>>

\* The direction is noted, then set.
IoTGpioSetDir(t, id, dir) ==
  /\ Enters(t, "IoTGpioSetDir", "init", id)
  /\ g_gpio_dir' = [g_gpio_dir EXCEPT ![id] = dir]
  /\ UNCHANGED <<g_gpio_out, pins, isrVars>>

SetDirReturns(t) ==
  LET id == gpioCall[t].id IN
  /\ At(t, "IoTGpioSetDir", "init")
  /\ pins' = [pins EXCEPT ![id].dir = g_gpio_dir[id]]
  /\ Returns(t) /\ UNCHANGED <<g_gpio_dir, g_gpio_out, isrVars>>

\* The value is set, then noted.
IoTGpioSetOutputVal(t, id, val) ==
  /\ Enters(t, "IoTGpioSetOutputVal", "noted", id)
  /\ pins' = [pins EXCEPT ![id].level = val]
  /\ UNCHANGED <<g_gpio_dir, g_gpio_out, isrVars>>

SetOutputReturns(t) ==
  LET id == gpioCall[t].id IN
  /\ At(t, "IoTGpioSetOutputVal", "noted")
  /\ g_gpio_out' = [g_gpio_out EXCEPT ![id] = pins[id].level]
  /\ Returns(t) /\ UNCHANGED <<g_gpio_dir, pins, isrVars>>

IoTGpioDeinit(t, id) ==
  /\ Enters(t, "IoTGpioDeinit", "dir", id)
  /\ pins' = [pins EXCEPT ![id] = [dir |-> "IOT_GPIO_DIR_IN", level |-> 0]]
  /\ UNCHANGED <<g_gpio_dir, g_gpio_out, isrVars>>

DeinitReturns(t) ==
  LET id == gpioCall[t].id IN
  /\ At(t, "IoTGpioDeinit", "dir")
  /\ g_gpio_dir' = [g_gpio_dir EXCEPT ![id] = "IOT_GPIO_DIR_IN"]
  /\ g_gpio_out' = [g_gpio_out EXCEPT ![id] = 0]
  /\ Returns(t) /\ UNCHANGED <<pins, isrVars>>

Next ==
  \/ \E id \in InterruptId : app_io_callback(id)
  \/ \E t \in Task :
       \/ RegisterFunc(t) \/ RegisterArg(t) \/ UnregisterArg(t) \/ Configure(t)
       \/ SetDirReturns(t) \/ SetOutputReturns(t) \/ DeinitReturns(t)
       \/ \E id \in InterruptId :
            \/ IoTGpioUnregisterIsrFunc(t, id)
            \/ \E mode \in Mode :
                 \/ IoTGpioSetIsrMode(t, id, mode)
                 \/ \E r \in Registration : IoTGpioRegisterIsrFunc(t, id, mode, r)
       \/ \E id \in OutputId :
            \/ \E dir \in Dir : IoTGpioSetDir(t, id, dir)
            \/ \E val \in {0, 1} : IoTGpioSetOutputVal(t, id, val)
            \/ IoTGpioDeinit(t, id)

Spec == Init /\ [][Next]_vars

--------------------

\* An event calls back the function registered for its own pin; unless a call is
\* changing that registration, with the argument registered with it:
\* hal_iot_gpio.c:128-145.
CallbacksOwn ==
  called # NotCalled =>
    /\ called.func[1] = called.event
    /\ called.settled => called.arg = called.func

\* Between calls the hardware interrupts where there is a callback, and no callback
\* stays in the table of a pin that was unregistered, for the next change of mode
\* to bring back; modes, directions and values are as the tables say.
TablesAgree ==
  /\ \A id \in InterruptId : Settled(id) =>
       /\ isr_cfg_info[id].mode = gpiote[id].mode
       /\ isr_cfg_info[id].func # NoFunc => gpiote[id].io_evt_cb
       /\ isr_cfg_info[id].arg = isr_cfg_info[id].func
  /\ \A id \in OutputId : Settled(id) =>
       pins[id] = [dir |-> g_gpio_dir[id], level |-> g_gpio_out[id]]
=============================================================================
