\* Two presses of the sign-in button, nothing that goes wrong.
SPECIFICATION AuthorizationSpec
CONSTANTS
    MaxPresses = 2
    MaxFaults = 0
    MaxStops = 0
INVARIANT OffersWork
CHECK_DEADLOCK FALSE
