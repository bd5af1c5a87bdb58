SPECIFICATION Spec
CONSTANTS a = a b = b Order <- MCOrder Procs = {1}
 NightlyAt <- NightlyOne PersonalAt <- PersonalTwo Impulsive = {b} Interval = 2
 Grace = 1 MaxPasses = 1 DayLength = 4 Horizon = 6 MaxWaiting = 1 MaxArrivals = 1 MaxFaults = 1
PROPERTIES SlotsKept ImplementsLedger
