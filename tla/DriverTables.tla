---------------------------- MODULE DriverTables ----------------------------
(***************************************************************************)
(* What the drivers acquire when they are loaded or probed, where each     *)
(* goto of their error paths leads, and what their exit or remove function *)
(* releases, one entry per call and in the order of the calls.             *)
(*                                                                         *)
(* A step of init names what it acquires and what a failure of the call    *)
(* does: n \in 1..Len(unwind)+1 goes on at entry n of the error path (past *)
(* its end: return with nothing released), Ignored continues as if nothing *)
(* had happened, Success returns 0.                                        *)
(***************************************************************************)
EXTENDS Integers, Sequences

Ignored == 0
Success == -1

Take(resource, label) == [resource |-> resource, fail |-> {label}]

\* A failure that the code does not look at.
GoOn(resource) == Take(resource, Ignored)

\* timer_setup, sema_init, an assignment to dev->client: it cannot fail.
\* So is ioremap taken, whose result no driver looks at.
Setup(resource) == [resource |-> resource, fail |-> {}]

(***************************************************************************)
(* ops and callback: what the file operations and the timer function use.  *)
(* bus: a bus removes the device under open files (sysfs unbind, rmmod     *)
(* leddevice); an open file keeps a plain module loaded.                   *)
(* opens: open can succeed.                                                *)
(***************************************************************************)
Driver(init, unwind, exit) ==
    [init |-> init, unwind |-> unwind, exit |-> exit,
     ops |-> {}, callback |-> {}, bus |-> FALSE, opens |-> TRUE]

\* mutant: a failing device_create goes to del_cdev, not to destroy_class
GotoOneTooLow(region) ==
    <<Take("region", region), Take("cdev", 3), Take("class", 2), Take("device", 2)>>

\* mutant: a failing alloc_chrdev_region goes to unregister_chrdev
GotoOneTooHigh(region) ==
    <<Take("region", region - 1), Take("cdev", 3), Take("class", 2), Take("device", 1)>>

\* alloc_chrdev_region, cdev_add, class_create, device_create
CharDev(region) ==
    <<Take("region", region), Take("cdev", 3), Take("class", 2), Take("device", 1)>>

\* destroy_class: del_cdev: unregister_chrdev:
Labels == <<"class", "cdev", "region">>

-----------------------------------------------------------------------------
chrdevbase ==
    [Driver(<<Setup("map"), Take("region", 1), GoOn("cdev"), Take("class", 1), Take("device", 1)>>,
            <<"map">>,
            <<"map", "cdev", "region", "device", "class">>)
     EXCEPT !.ops = {"map"}]

\* led_exit keeps the gpio: the next insmod finds it busy.
gpioled ==
    [Driver(<<Take("gpio", 5)>> \o CharDev(4),
            Append(Labels, "gpio"),
            <<"cdev", "region", "device", "class">>)
     EXCEPT !.ops = {"gpio"}]

beep == gpioled

atomic == gpioled

\* mutant: spinlock's led_exit without its gpio_free, as in gpioled
spinlockKeepsGpio == gpioled

spinlock == [gpioled EXCEPT !.exit = Append(@, "gpio")]

mutex == spinlock

\* sema_init comes after device_create.
sema == [spinlock EXCEPT !.init = Append(@, Setup("sem")), !.ops = @ \cup {"sem"}]

\* The gpio belongs to timer_open; the error path frees it all the same.
\* A failing led_parse_dt is not looked at.
timer ==
    [Driver(CharDev(4) \o <<Setup("timer")>>,
            Append(Labels, "gpio"),
            <<"timer", "cdev", "region", "device", "class">>)
     EXCEPT !.ops = {"timer"}]

\* The gpio belongs to key_open.
key == Driver(CharDev(4), Labels, <<"cdev", "region", "device", "class">>)

\* The error path has no free_irq; timer_setup comes last; mykey_exit deletes
\* the timer three calls before it frees the interrupt that arms it.
keyirq ==
    [Driver(<<Take("gpio", 5), Take("irq", 4)>> \o CharDev(4) \o <<Setup("timer")>>,
            Append(Labels, "gpio"),
            <<"cdev", "region", "timer", "device", "class", "irq", "gpio">>)
     EXCEPT !.callback = {"gpio"}]

blockio == keyirq

noblockio == keyirq

asyncnoti == keyirq

-----------------------------------------------------------------------------
platform ==
    [Driver(<<Setup("map")>> \o CharDev(4),
            Append(Labels, "map"),
            <<"map", "cdev", "region", "device", "class">>)
     EXCEPT !.ops = {"map"}, !.bus = TRUE]

dts_platform ==
    [Driver(<<GoOn("gpio")>> \o CharDev(4),
            Append(Labels, "gpio"),
            <<"gpio", "cdev", "region", "device", "class">>)
     EXCEPT !.ops = {"gpio"}, !.bus = TRUE]

miscbeep ==
    [Driver(<<GoOn("gpio"), Take("misc", 1)>>, <<"gpio">>, <<"gpio", "misc">>)
     EXCEPT !.ops = {"gpio"}, !.bus = TRUE]

\* Label destroy_class calls device_destroy.  The devm memory goes last,
\* with the device.  open always answers -EIO.
ap3216c ==
    [Driver(<<Take("mem", 5)>> \o CharDev(4) \o <<Setup("client")>>,
            <<"device", "cdev", "region", "mem">>,
            <<"cdev", "region", "device", "class", "mem">>)
     EXCEPT !.ops = {"mem", "client"}, !.bus = TRUE, !.opens = FALSE]

\* A failing alloc_chrdev_region returns 0.
icm20608 ==
    [Driver(<<Take("mem", 5)>> \o CharDev(Success) \o <<Setup("client")>>,
            <<"device", "cdev", "region", "mem">>,
            <<"cdev", "region", "device", "class", "mem">>)
     EXCEPT !.ops = {"mem", "client"}, !.bus = TRUE]

\* mutant: atk_key_remove deletes the timer first, as the key drivers do
keyinputTimerFirst ==
    [Driver(<<Take("gpio", 4), [resource |-> "irq", fail |-> {Ignored, 4}],
              Setup("timer"), Setup("idev"), Take("input", 1)>>,
            <<"irq", "gpio", "timer">>,
            <<"timer", "irq", "gpio", "input", "idev">>)
     EXCEPT !.callback = {"gpio", "irq", "idev"}]

\* A failing irq_of_parse_and_map makes gpio_init return 0; a failing
\* request_irq returns its error and keeps the gpio.  Its
\* module_platform_driver_probe allows no unbinding and unloads the module
\* when the probe fails, so that it lives and goes like a plain one.
keyinput ==
    [Driver(<<Take("gpio", 4), [resource |-> "irq", fail |-> {Ignored, 4}],
              Setup("timer"), Setup("idev"), Take("input", 1)>>,
            <<"irq", "gpio", "timer">>,
            <<"irq", "gpio", "timer", "input", "idev">>)
     EXCEPT !.callback = {"gpio", "irq", "idev"}]

Table ==
    [chrdevbase |-> chrdevbase, gpioled |-> gpioled, beep |-> beep, atomic |-> atomic,
     spinlock |-> spinlock, mutex |-> mutex, sema |-> sema, timer |-> timer, key |-> key,
     keyirq |-> keyirq, blockio |-> blockio, noblockio |-> noblockio,
     asyncnoti |-> asyncnoti, platform |-> platform, dts_platform |-> dts_platform,
     miscbeep |-> miscbeep, ap3216c |-> ap3216c, icm20608 |-> icm20608,
     keyinput |-> keyinput]

Drivers == DOMAIN Table
=============================================================================
