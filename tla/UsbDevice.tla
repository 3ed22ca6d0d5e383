------------------------------ MODULE UsbDevice ------------------------------
(***************************************************************************)
(* The device side of the USB link as the main loop sees it: LUFA's device  *)
(* state with the interrupts and control requests that change it, the line  *)
(* encoding of the CDC class, and the bank of the IN endpoint.  USB_GEN_vect *)
(* runs to its end; USB_COM_vect serves a control request and lets other     *)
(* interrupts in while it waits for the host.  Both interrupt the main loop. *)
(*                                                                           *)
(* Of a request the wait for the host is a point of its own; what follows it *)
(* is one step.  The endpoint's registers are hardware: they are taken to go *)
(* on working while the bus is suspended.                                    *)
(***************************************************************************)
EXTENDS Naturals, Sequences, FiniteSets

CONSTANTS BankSize,     \* of the IN endpoint, CDC_TXRX_EPSIZE, 16
          MaxEvents     \* bound: how often the host disturbs the link

ASSUME DeviceAssumption == BankSize \in Nat \ {0, 1} /\ MaxEvents \in Nat

VARIABLES
  DeviceState, ConfigurationNumber, address,    \* address: USB_Device_IsAddressSet()
  wake,             \* WAKEUPI is enabled and SUSPI is not
  BaudRate,         \* LineEncoding.BaudRateBPS: set or 0
  request,          \* the control request that waits for the host
  stuck,            \* a SET_LINE_ENCODING from before a bus reset waits for its data
  selected,         \* the endpoint that UENUM selects for the main loop
  bank, sent,       \* bytes of the IN bank; it waits for the host to read it
  got,              \* bytes the host has read
  events,           \* how often the host has disturbed the link
  opened, wipes     \* observer: link in use, and how often it was interrupted

deviceVars == <<DeviceState, ConfigurationNumber, address, wake, BaudRate, request, stuck,
                selected, bank, sent, got, events, opened, wipes>>

\* Every function of CDCClassDevice.c begins with this test.
Online == DeviceState = "Configured" /\ BaudRate # 0

Running == request = "none" /\ ~stuck       \* the main loop is not interrupted

Disturbs == events < MaxEvents /\ events' = events + 1

-----------------------------------------------------------------------------
(* USB_GEN_vect                                                              *)

\* SUSPI; the library calls a suspended device of this series unattached.
Suspended ==
  /\ ~wake /\ DeviceState # "Unattached" /\ Disturbs
  /\ wake' = TRUE /\ DeviceState' = "Unattached"
  /\ UNCHANGED <<ConfigurationNumber, address, BaudRate, request, stuck, selected, bank, sent,
                 got, opened, wipes>>

\* WAKEUPI
WokenUp ==
  /\ wake
  /\ wake' = FALSE
  /\ DeviceState' = IF ConfigurationNumber # 0 THEN "Configured"
                    ELSE IF address THEN "Addressed" ELSE "Powered"
  /\ UNCHANGED <<ConfigurationNumber, address, BaudRate, request, stuck, selected, bank, sent,
                 got, events, opened, wipes>>

Wiped ==
  /\ bank' = <<>> /\ sent' = FALSE
  /\ opened' = FALSE /\ wipes' = IF opened THEN wipes + 1 ELSE wipes

\* EORSTI.  The control endpoint is configured anew and stays selected, unless
\* a request was interrupted, which selects the old endpoint at its end.  Of
\* the requests only SET_LINE_ENCODING waits for something a reset takes away;
\* the next SETUP packet is served all the same.
Reset ==
  /\ DeviceState' = "Default" /\ ConfigurationNumber' = 0 /\ address' = FALSE
  /\ wake' = TRUE
  /\ selected' = IF Running THEN "control" ELSE selected
  /\ stuck' = (stuck \/ request = "line")
  /\ request' = IF request = "line" THEN "none" ELSE request
  /\ Wiped
  /\ UNCHANGED <<BaudRate, got>>

\* The first reset attaches the device; the others disturb it.
BusReset ==
  /\ Reset
  /\ IF DeviceState = "Unattached" /\ ~wake THEN UNCHANGED events ELSE Disturbs

-----------------------------------------------------------------------------
(* USB_COM_vect                                                              *)

Arrives(r) == DeviceState # "Unattached" /\ request = "none" /\ request' = r

SetAddress ==
  /\ Arrives("address")
  /\ UNCHANGED <<DeviceState, ConfigurationNumber, address, wake, BaudRate, stuck, selected,
                 bank, sent, got, opened, wipes>>

AddressEnabled ==
  /\ request = "address"
  /\ request' = "none" /\ address' = TRUE /\ DeviceState' = "Addressed"
  /\ UNCHANGED <<ConfigurationNumber, wake, BaudRate, stuck, selected, bank, sent, got,
                 events, opened, wipes>>

SetConfiguration(c) ==
  /\ Arrives("configuration")
  /\ ConfigurationNumber' = c
  /\ UNCHANGED <<DeviceState, address, wake, BaudRate, stuck, selected, bank, sent, got,
                 opened, wipes>>

\* The new state, and EVENT_USB_Device_ConfigurationChanged, which clears the
\* line encoding and sets up the endpoints.  Without a configuration an
\* addressed device is called configured all the same.
ConfigurationChanged ==
  /\ request = "configuration"
  /\ request' = "none"
  /\ DeviceState' = IF ConfigurationNumber # 0 \/ address THEN "Configured" ELSE "Powered"
  /\ BaudRate' = 0
  /\ Wiped
  /\ UNCHANGED <<ConfigurationNumber, address, wake, stuck, selected, got, events>>

SetLineEncoding ==
  /\ Arrives("line")
  /\ UNCHANGED <<DeviceState, ConfigurationNumber, address, wake, BaudRate, stuck, selected,
                 bank, sent, got, opened, wipes>>

LineEncodingChanged(baud) ==
  /\ request = "line" /\ DeviceState # "Unattached"
  /\ request' = "none" /\ BaudRate' = baud
  /\ opened' = (opened \/ baud # 0)
  /\ UNCHANGED <<DeviceState, ConfigurationNumber, address, wake, stuck, selected, bank, sent,
                 got, wipes>>

\* Only a suspended bus ends the wait for data that do not come.
LineEncodingGivenUp ==
  /\ DeviceState = "Unattached" /\ (request = "line" \/ stuck)
  /\ request' = IF request = "line" THEN "none" ELSE request
  /\ stuck' = FALSE
  /\ UNCHANGED <<DeviceState, ConfigurationNumber, address, wake, BaudRate, selected, bank,
                 sent, got, events, opened, wipes>>

-----------------------------------------------------------------------------
(* The host                                                                  *)

\* What the host does in its own time to bring the link up, and after a
\* disturbance up again.
HostConnects ==
  \/ DeviceState = "Unattached" /\ ~wake /\ BusReset
  \/ WokenUp
  \/ ~address /\ SetAddress /\ UNCHANGED events
  \/ address /\ ConfigurationNumber = 0 /\ SetConfiguration(1) /\ UNCHANGED events
  \/ ConfigurationNumber = 1 /\ BaudRate = 0 /\ SetLineEncoding /\ UNCHANGED events
  \/ LineEncodingChanged(1) /\ UNCHANGED events

\* What it does out of turn.
HostDisturbs ==
  \/ Suspended
  \/ DeviceState # "Unattached" /\ BusReset
  \/ DeviceState = "Unattached" /\ wake /\ BusReset
  \/ address /\ \E c \in 0 .. 1 : SetConfiguration(c) /\ Disturbs
  \/ SetLineEncoding /\ Disturbs
  \/ LineEncodingChanged(0) /\ Disturbs

Served == AddressEnabled \/ ConfigurationChanged \/ LineEncodingGivenUp

InBank == {bank[i] : i \in 1 .. Len(bank)}

\* A host that knows the device as configured takes what the bank holds.
HostReads ==
  /\ sent /\ ConfigurationNumber = 1 /\ DeviceState # "Unattached"
  /\ got' = got \cup InBank
  /\ bank' = <<>> /\ sent' = FALSE
  /\ UNCHANGED <<DeviceState, ConfigurationNumber, address, wake, BaudRate, request, stuck,
                 selected, events, opened, wipes>>

DeviceInit ==
  /\ DeviceState = "Unattached" /\ ConfigurationNumber = 0 /\ address = FALSE
  /\ wake = FALSE /\ BaudRate = 0 /\ request = "none" /\ stuck = FALSE
  /\ selected = "control" /\ bank = <<>> /\ sent = FALSE
  /\ got = {} /\ events = 0 /\ opened = FALSE /\ wipes = 0
=============================================================================
