\* Up to three tasks of two kinds of file, and two callbacks at a time.
SPECIFICATION Spec
CONSTANTS
  clip = clip  paper = paper
  File = {clip, paper}
  ExtensionOf <- Extensions
  MaxTasks = 3  MaxReports = 2
PROPERTIES SettledIsFinal RunSettles StopReturns
